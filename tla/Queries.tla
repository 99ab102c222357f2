------------------------------ MODULE Queries ------------------------------
(***************************************************************************)
(* One request to the appservice's web server other than a transaction: a  *)
(* query for a user, a room alias, keys, a third party protocol or object  *)
(* (src/src/appservice/Appservice.ts:907-1088). The handler emits an event *)
(* with a callback, and listeners answer through it: at once or later,     *)
(* never or several times, with a value or a promise. A response that was  *)
(* sent cannot be sent again: the attempt throws.                          *)
(***************************************************************************)
EXTENDS Naturals, Sequences

CONSTANTS
    Nothing,
    MaxAnswers   \* bound: calls of the callback

VARIABLES
    request,     \* kind, credentials, whether the rest of it is in order
    stage,       \* of the handler: received, emitting, over
    responded,   \* the local of the key handlers
    response,    \* status sent, or Nothing
    answers,     \* calls of the callback: when, with what, how far
    unhandled    \* a rejection or exception nobody handles

queryVars == <<request, stage, responded, response, answers, unhandled>>

KeyKinds   == {"key_claim", "key_query"}
AdminKinds == {"user", "room"}
Kinds      == KeyKinds \cup AdminKinds \cup {"protocol", "object"}

\* hs_token in the query or in the Authorization header, which may also hold
\* something other than a Bearer token.
Requests ==
    [kind : Kinds, query : {Nothing, "hs_token", "other"},
     header : {Nothing, "hs_token", "other", "Basic"}, valid : BOOLEAN]

\* What a callback is given: a promise or not, and what it is or becomes.
Results == [promise : BOOLEAN, outcome : {"value", "null", "false", "error", "never"}]

Given == {r \in Results : r.promise \/ r.outcome \in {"value", "null", "false"}}

Init ==
    /\ request \in Requests
    /\ stage = "received"
    /\ responded = FALSE
    /\ response = Nothing
    /\ answers = <<>>
    /\ unhandled = FALSE

-----------------------------------------------------------------------------
(* Handlers *)

\* Faulty variant: a header that is no Bearer token leaves the query's token.
IsAuthedByEither(r) ==
    (IF r.header \in {Nothing, "Basic"} THEN r.query ELSE r.header) = "hs_token"

\* isAuthed: the header, if there is one, decides.
IsAuthed(r) ==
    (IF r.header = Nothing THEN r.query
     ELSE IF r.header = "Basic" THEN Nothing
     ELSE r.header) = "hs_token"

\* What the handler answers without asking anyone. A request is out of order
\* if its body is no object, its protocol not one of the appservice's, or
\* neither a protocol nor an ID is given.
Refusal(r) ==
    CASE ~IsAuthed(r) -> {401}
      [] IsAuthed(r) /\ r.valid -> {}
      [] IsAuthed(r) /\ ~r.valid -> CASE r.kind \in KeyKinds -> {400}
                                      [] r.kind = "protocol" -> {404}
                                      [] r.kind = "object" -> {400, 404}
                                      [] OTHER -> {}

Receive ==
    /\ stage = "received"
    /\ IF Refusal(request) = {}
       THEN stage' = "emitting" /\ UNCHANGED response
       ELSE stage' = "over" /\ response' \in Refusal(request)
    /\ UNCHANGED <<request, responded, answers, unhandled>>

\* The end of emit(): if no listener has called back, a key query is answered.
EmitEnds ==
    /\ stage = "emitting"
    /\ stage' = "over"
    /\ response' = IF request.kind \in KeyKinds /\ ~responded THEN 404 ELSE response
    /\ UNCHANGED <<request, responded, answers, unhandled>>

-----------------------------------------------------------------------------
(* Callbacks *)

\* res.status(code).json(): the second response throws, which the caller sees
\* as a rejection nobody handles, or, for the third party lookups, as an
\* exception in the listener.
Send(code) ==
    /\ response' = IF response = Nothing THEN code ELSE response
    /\ unhandled' = (unhandled \/ response # Nothing)

\* Faulty variant: responded is set once the result is there.
CallbackLateFlag(result) ==
    /\ stage = "emitting" \/ (stage = "over" /\ Refusal(request) = {})
    /\ Len(answers) < MaxAnswers
    /\ answers' = Append(answers, [at |-> stage, result |-> result, pc |-> "settle"])
    /\ UNCHANGED <<request, stage, responded, response, unhandled>>

\* A listener calls back, in emit() or later.
Callback(result) ==
    /\ stage = "emitting" \/ (stage = "over" /\ Refusal(request) = {})
    /\ Len(answers) < MaxAnswers
    /\ answers' = Append(answers, [at |-> stage, result |-> result, pc |-> "settle"])
    /\ responded' = TRUE
    /\ UNCHANGED <<request, stage, response, unhandled>>

Step(n, label) == answers' = [answers EXCEPT ![n].pc = label]

\* handleResult of the key handlers: nothing or false is 404, an error 500.
KeyResult(n, outcome) ==
    /\ Step(n, "done")
    /\ Send(CASE outcome = "value" -> 200 [] outcome = "error" -> 500 [] OTHER -> 404)

\* Users and rooms: false is 404, and a value is registered or created first.
\* Nothing at all, or an error, is an exception in the callback; a promise of
\* nothing is one after the registration.
AdminResult(n, result) ==
    CASE result.outcome = "false" -> Step(n, "done") /\ Send(404)
      [] result.outcome = "value" \/ (result.outcome = "null" /\ result.promise) ->
             Step(n, "create") /\ UNCHANGED <<response, unhandled>>
      [] OTHER -> Step(n, "done") /\ unhandled' = TRUE /\ UNCHANGED response

\* Third party lookups take values, not promises; an empty list is 404.
LookupResult(n, result) ==
    /\ Step(n, "done")
    /\ Send(IF request.kind = "object" /\ (result.outcome # "value" \/ result.promise)
            THEN 404 ELSE 200)

\* What a callback was given is there, at once or when the promise settles; the
\* key handlers make a promise of everything.
Settle(n) ==
    LET a == answers[n]
    IN /\ a.pc = "settle"
       /\ request.kind \in KeyKinds => stage = "over"
       /\ a.result.outcome # "never" \/ request.kind \in {"protocol", "object"}
       /\ CASE request.kind \in KeyKinds   -> KeyResult(n, a.result.outcome)
            [] request.kind \in AdminKinds -> AdminResult(n, a.result)
            [] OTHER                       -> LookupResult(n, a.result)
       /\ UNCHANGED <<request, stage, responded>>

\* ensureRegistered and the profile of a user, ensureRegistered of the bot and
\* createRoom for a room.
Create(n) ==
    /\ answers[n].pc = "create"
    /\ Step(n, "done")
    /\ IF answers[n].result.outcome = "value" THEN Send(200)
       ELSE unhandled' = TRUE /\ UNCHANGED response
    /\ UNCHANGED <<request, stage, responded>>

\* One of those requests fails. Nobody answers.
CreateFails(n) ==
    /\ answers[n].pc = "create"
    /\ Step(n, "failed")
    /\ unhandled' = TRUE
    /\ UNCHANGED <<request, stage, responded, response>>

Next ==
    \/ Receive
    \/ EmitEnds
    \/ \E r \in Given : Callback(r)
    \/ \E n \in DOMAIN answers : Settle(n) \/ Create(n) \/ CreateFails(n)

Spec == Init /\ [][Next]_queryVars

-----------------------------------------------------------------------------
(* Properties *)

\* A listener that answers once, with something that settles and that the
\* handler can use: a key query while the event is emitted, a user or room at
\* any time and not with nothing or an error, a lookup at any time.
Fair ==
    /\ Len(answers) = 1
    /\ request.kind \in KeyKinds => answers[1].at = "emitting"
    /\ request.kind \in AdminKinds => answers[1].result.outcome \in {"value", "false"}

RightCode(outcome) ==
    CASE outcome = "value" -> 200
      [] outcome = "error" -> 500
      [] OTHER -> 404

\* With one such answer the request is answered by it, once, and nothing is
\* left unhandled, unless a request to the homeserver failed. Without any
\* answer nothing is unhandled either. Only the hs_token is let in: the one in
\* the header, or the one in the query if there is no header.
AnsweredOnce ==
    /\ request.header = "Basic" /\ stage # "received" => response = 401
    /\ stage = "over" /\ Refusal(request) # {} => response \in Refusal(request) /\ ~unhandled
    /\ stage = "over" /\ answers = <<>> => ~unhandled
    /\ stage = "over" /\ Fair /\ Refusal(request) = {} =>
           /\ answers[1].pc = "done" /\ request.kind \notin {"protocol", "object"} =>
                  response = RightCode(answers[1].result.outcome)
           /\ answers[1].pc # "failed" => ~unhandled
=============================================================================
