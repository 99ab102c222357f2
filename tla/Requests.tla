------------------------------ MODULE Requests ------------------------------
(***************************************************************************)
(* A client function and the doRequest in it, both timed: the metrics of   *)
(* the decorator, which go up to the parent of the client's Metrics, and   *)
(* what doHttpRequest makes of the answer. Calls overlap, of clients with  *)
(* one parent, as the clients of an appservice's Intents.                  *)
(***************************************************************************)
EXTENDS Naturals, FiniteSets

CONSTANTS
    Clients,    \* with a Metrics each, all with one parent
    Calls,
    None,
    MaxTime, MaxCalls \* bounds

VARIABLES
    now,
    uid,               \* of each client's Metrics
    requestStartTimes, \* of each: the timers that run, with their unique IDs
    call,
    made,              \* bound
    heard,             \* what the parent's listener was told, in number
    mistimed           \* history: a timer ended with the start of another, or none

requestVars == <<now, uid, requestStartTimes, call, made, heard, mistimed>>

-----------------------------------------------------------------------------
(* doHttpRequest *)

\* What may come of a request: no answer, or one with a status and a body. Bodies
\* have an errcode, are another object or the JSON null, text that is not JSON or
\* empty, or a buffer, of a request that wants it undecoded.
NoAnswer == [status |-> "none", body |-> "none"]
Answers  == [status : {"ok", "error"}, body : {"errcode", "object", "null", "text", "buffer"}]
                \cup {NoAnswer}

\* Faulty variant: the status alone counts.
OutcomeOfStatus(answer) == IF answer.status = "ok" THEN "body" ELSE "response"

\* A body with an errcode is an error whatever the status, other bodies with the
\* status. Looking for the errcode in null throws.
Outcome(answer) ==
    CASE answer = NoAnswer -> "error"
      [] answer.body = "errcode" -> "MatrixError"
      [] answer.body = "null" -> "TypeError"
      [] OTHER -> IF answer.status = "ok" THEN "body" ELSE "response"

-----------------------------------------------------------------------------
(* The decorator *)

NoCall == [pc |-> "idle", client |-> None, outer |-> None, inner |-> None,
           answer |-> NoAnswer, outcome |-> None]

Init ==
    /\ now = 0
    /\ uid = [m \in Clients |-> 0]
    /\ requestStartTimes = [m \in Clients |-> {}]
    /\ call = [c \in Calls |-> NoCall]
    /\ made = 0
    /\ heard = [start |-> 0, end |-> 0, success |-> 0, failure |-> 0]
    /\ mistimed = FALSE

\* Faulty variant: the time alone.
IdOfTime(m) == <<now, 0>>

\* assignUniqueContextId, which counts.
UniqueId(m) == <<now, uid[m]>>

\* A timer: its ID, and by whom and when it was started.
Timer(m, c, level) == [id |-> UniqueId(m), call |-> c, level |-> level, at |-> now]

StartTimer(m, timer) ==
    /\ uid' = [uid EXCEPT ![m] = @ + 1]
    /\ requestStartTimes' = [requestStartTimes EXCEPT ![m] = {t \in @ : t.id # timer.id} \cup {timer}]

EndTimer(m, timer) ==
    LET mine == {t \in requestStartTimes[m] : t.id = timer.id}
    IN /\ requestStartTimes' = [requestStartTimes EXCEPT ![m] = @ \ mine]
       /\ mistimed' = (mistimed \/ mine # {timer})

\* The function is called.
Start(c, m) ==
    LET timer == Timer(m, c, "outer")
    IN /\ call[c].pc = "idle" /\ made < MaxCalls
       /\ made' = made + 1
       /\ StartTimer(m, timer)
       /\ heard' = [heard EXCEPT !.start = @ + 1]
       /\ call' = [call EXCEPT ![c] = [NoCall EXCEPT !.pc = "started", !.client = m, !.outer = timer]]
       /\ UNCHANGED <<now, mistimed>>

\* It calls doRequest, at once or after something it waits for.
StartRequest(c) ==
    LET m == call[c].client
        timer == Timer(m, c, "inner")
    IN /\ call[c].pc = "started"
       /\ StartTimer(m, timer)
       /\ heard' = [heard EXCEPT !.start = @ + 1]
       /\ call' = [call EXCEPT ![c].pc = "request", ![c].inner = timer]
       /\ UNCHANGED <<now, made, mistimed>>

\* A function ended: the counter of its outcome, then the end of its timer.
Told(outcome) ==
    heard' = IF outcome = "body" THEN [heard EXCEPT !.end = @ + 1, !.success = @ + 1]
             ELSE [heard EXCEPT !.end = @ + 1, !.failure = @ + 1]

FinishRequest(c, answer) ==
    /\ call[c].pc = "request"
    /\ EndTimer(call[c].client, call[c].inner)
    /\ Told(Outcome(answer))
    /\ call' = [call EXCEPT ![c].pc = "answered", ![c].answer = answer, ![c].outcome = Outcome(answer)]
    /\ UNCHANGED <<now, uid, made>>

\* The function resolves or rejects as its request did.
Finish(c) ==
    /\ call[c].pc = "answered"
    /\ EndTimer(call[c].client, call[c].outer)
    /\ Told(call[c].outcome)
    /\ call' = [call EXCEPT ![c].pc = "done"]
    /\ UNCHANGED <<now, uid, made>>

Tick ==
    /\ now < MaxTime
    /\ now' = now + 1
    /\ UNCHANGED <<uid, requestStartTimes, call, made, heard, mistimed>>

Next ==
    \/ \E c \in Calls :
           \/ \E m \in Clients : Start(c, m)
           \/ StartRequest(c) \/ Finish(c)
           \/ \E answer \in Answers : FinishRequest(c, answer)
    \/ Tick

Spec == Init /\ [][Next]_requestVars

-----------------------------------------------------------------------------
(* Properties *)

\* Every function that is timed is started and ended once with the same timer,
\* whatever overlaps, and counted once, as a success if and only if its caller
\* gets a body. No timer outlives its function.
CallsAreMeasured ==
    LET outer    == {c \in Calls : call[c].pc \in {"started", "request", "answered"}}
        inner    == {c \in Calls : call[c].pc = "request"}
        running  == (outer \X {"outer"}) \cup (inner \X {"inner"})
        resolved == Cardinality({c \in Calls : call[c].pc = "done" /\ call[c].outcome = "body"})
                    + Cardinality({c \in Calls : call[c].pc \in {"answered", "done"} /\ call[c].outcome = "body"})
    IN /\ ~mistimed
       /\ heard.start - heard.end = Cardinality(running)
       /\ UNION {{<<t.call, t.level>> : t \in requestStartTimes[m]} : m \in Clients} = running
       /\ heard.success = resolved /\ heard.success + heard.failure = heard.end

\* A caller gets a body only of an answer that is no error, and never an errcode.
NoErrorResolves ==
    \A c \in Calls : call[c].outcome = "body" =>
                         call[c].answer.status = "ok" /\ call[c].answer.body # "errcode"

\* Calls are told as they went, to their callers and to the listeners.
CallsAreTold == CallsAreMeasured /\ NoErrorResolves
=============================================================================
