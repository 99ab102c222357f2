-------------------------------- MODULE Sends -------------------------------
(***************************************************************************)
(* Sending: sendRawEvent, redactEvent and sendToDevices, whose requests    *)
(* carry a transaction ID made of the time and a counter of the client,    *)
(* and sendStateEvent, whose requests carry none. The homeserver takes     *)
(* two requests of a user for one path with one transaction ID for a       *)
(* repetition. Requests are lost, delivered twice and late; clients of one *)
(* user exist side by side and are made anew.                              *)
(***************************************************************************)
EXTENDS Naturals, Sequences, FiniteSets

CONSTANTS
    Clients,    \* MatrixClient objects of one user
    None,
    MaxTime, MaxCalls, MaxRepeats  \* bounds

VARIABLES
    now,        \* in milliseconds
    requestId,  \* of each client
    calls,      \* the calls made, in order
    events,     \* homeserver: the calls whose requests it acted on, in order
    answered,   \* homeserver: the first call of each path and transaction ID
    repeats     \* bound

sendVars == <<now, requestId, calls, events, answered, repeats>>

Functions == {"sendRawEvent", "redactEvent", "sendToDevices", "sendStateEvent"}

Init ==
    /\ now = 0
    /\ requestId = [c \in Clients |-> 0]
    /\ calls = <<>>
    /\ events = <<>>
    /\ answered = {}
    /\ repeats = 0

-----------------------------------------------------------------------------
(* The client *)

\* Faulty variants: the counter alone, and the time alone.
TxnIdOfCounter(fn, time, counter) == <<fn, 0, counter>>
TxnIdOfTime(fn, time, counter) == <<fn, time, 0>>

\* The part of the path that makes requests distinct. Rooms, types and the event
\* to redact are the same in all calls: the hard case.
TxnId(fn, time, counter) == <<fn, time, counter>>

\* One call: the transaction ID is taken and the request leaves at once.
Send(c, fn) ==
    LET counter == IF fn = "sendStateEvent" THEN requestId[c] ELSE requestId[c] + 1
    IN /\ Len(calls) < MaxCalls
       /\ requestId' = [requestId EXCEPT ![c] = counter]
       /\ calls' = Append(calls, [client |-> c, fn |-> fn, pc |-> "sent",
              txn |-> IF fn = "sendStateEvent" THEN None ELSE TxnId(fn, now, counter),
              time |-> now, result |-> None])
       /\ UNCHANGED <<now, events, answered, repeats>>

\* A client object is made anew, by a restart of the process, which takes time.
NewClient(c) ==
    /\ now < MaxTime
    /\ now' = now + 1
    /\ requestId[c] > 0
    /\ requestId' = [requestId EXCEPT ![c] = 0]
    /\ UNCHANGED <<calls, events, answered, repeats>>

Tick ==
    /\ now < MaxTime
    /\ now' = now + 1
    /\ UNCHANGED <<requestId, calls, events, answered, repeats>>

-----------------------------------------------------------------------------
(* The homeserver *)

Repeated(n) == \E m \in answered : calls[n].txn # None /\ calls[m].txn = calls[n].txn
FirstOf(n)  == CHOOSE m \in answered : calls[m].txn = calls[n].txn

\* It acts on a request, or answers a repetition as it answered the first.
Receive(n) ==
    LET result == IF Repeated(n) THEN FirstOf(n) ELSE n
    IN /\ IF Repeated(n) THEN UNCHANGED <<events, answered>>
          ELSE events' = Append(events, n) /\ answered' = answered \cup {n}
       /\ calls' = [calls EXCEPT ![n].pc = "answered", ![n].result = result]
       /\ UNCHANGED <<now, requestId>>

Deliver(n) ==
    /\ calls[n].pc = "sent"
    /\ Receive(n)
    /\ UNCHANGED repeats

\* A proxy sends the request again.
DeliverAgain(n) ==
    /\ repeats < MaxRepeats
    /\ repeats' = repeats + 1
    /\ calls[n].pc \in {"answered", "failed"}
    /\ calls[n].result # None
    /\ IF Repeated(n) THEN UNCHANGED <<events, answered>>
       ELSE events' = Append(events, n) /\ answered' = answered \cup {n}
    /\ UNCHANGED <<now, requestId, calls>>

\* The caller gets the event ID of the answer, or an error, whether or not the
\* homeserver acted.
Return(n) ==
    /\ calls[n].pc = "answered"
    /\ calls' = [calls EXCEPT ![n].pc = "returned"]
    /\ UNCHANGED <<now, requestId, events, answered, repeats>>

Fail(n) ==
    /\ calls[n].pc \in {"sent", "answered"}
    /\ calls' = [calls EXCEPT ![n].pc = "failed"]
    /\ UNCHANGED <<now, requestId, events, answered, repeats>>

Next ==
    \/ \E c \in Clients : NewClient(c) \/ \E fn \in Functions : Send(c, fn)
    \/ Tick
    \/ \E n \in DOMAIN calls : Deliver(n) \/ DeliverAgain(n) \/ Return(n) \/ Fail(n)

Spec == Init /\ [][Next]_sendVars

-----------------------------------------------------------------------------
(* Properties *)

\* The times the homeserver acted on a call.
Times(n) == Cardinality({i \in DOMAIN events : events[i] = n})

\* Two clients of the user, at one time, with one count.
Coincide(n, m) ==
    calls[n].client # calls[m].client /\ calls[n].time = calls[m].time

\* A call with a transaction ID is acted on at most once, however often its
\* request arrives, and the event it returns is its own, unless another client
\* of the same user sent in the same millisecond.
SentOnce ==
    \A n \in DOMAIN calls :
        /\ calls[n].txn # None => Times(n) <= 1
        /\ calls[n].pc = "returned" =>
               \/ calls[n].result = n /\ Times(n) > 0
               \/ \E m \in DOMAIN calls : Coincide(n, m)
=============================================================================
