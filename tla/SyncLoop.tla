------------------------------- MODULE SyncLoop -------------------------------
(***************************************************************************)
(* MatrixClient.start, stop and the sync loop (src/src/MatrixClient.ts).    *)
(*                                                                         *)
(* Every call of start() runs in a slot: first the steps of start() itself, *)
(* then the loop that startSync leaves running. A step of a slot is the code *)
(* from one await to the next, so everything the slots share (stopSyncing,  *)
(* filterId, the storage) may change while one of them waits. Slots bounds  *)
(* how many calls of start() are alive at once, not how many are made: a    *)
(* slot whose loop ended takes the next call.                              *)
(*                                                                         *)
(* The homeserver's events are numbered 1..MaxPos in stream order. A sync   *)
(* token is the last position it covers and the filter it was obtained      *)
(* under. The dispatch of one event by processSync is one step here; what   *)
(* it emits is the subject of SyncRooms.                                   *)
(***************************************************************************)
EXTENDS Integers, FiniteSets

CONSTANTS
    Slots,          \* calls of start() that can be alive at the same time
    MaxPos,         \* bound: the homeserver's stream ends at this position
    Filters,        \* what callers pass to start(), NoFilter for null
    NoFilter,       \* no filter: null for start(), 0 for filterId
    NoToken,        \* no sync token: null in the storage
    Faults,         \* what may fail: a subset of FaultKinds
    PersistAfter    \* persistTokenAfterSync

FaultKinds == {"start", "sync", "store", "handler"}

ASSUME SyncAssumption ==
    /\ MaxPos \in Nat
    /\ Faults \subseteq FaultKinds
    /\ PersistAfter \in BOOLEAN
    /\ \A at \in 0..MaxPos, f \in Filters \cup {NoFilter} :
           NoToken # [at |-> at, under |-> f]

VARIABLES
    head,           \* the homeserver's newest position
    stored,         \* IStorageProvider: the persisted sync token
    storedFilter,   \* IStorageProvider: the persisted filter
    stopSyncing,    \* MatrixClient.stopSyncing
    filterId,       \* MatrixClient.filterId
    pc,             \* where each slot waits
    want,           \* the argument of the slot's start()
    token,          \* the local variable token of startSync
    asked,          \* the filter of the slot's latest /sync request
    cur,            \* the last position of the response dispatched so far
    emitted,        \* history: positions handed to the listeners
    since           \* history: the same, since the stored token was last reset

loopVars == <<pc, want, token, asked, cur>>
storage  == <<stored, storedFilter>>
history  == <<emitted, since>>
vars == <<head, storage, stopSyncing, filterId, loopVars, history>>

AnyFilter == Filters \cup {NoFilter}
Position  == 1..MaxPos
Token     == [at : 0..MaxPos, under : AnyFilter] \cup {NoToken}

\* The position a token stands for; no token asks for the whole stream.
At(tok) == IF tok = NoToken THEN 0 ELSE tok.at

\* await points of start()
StartPcs == {"updating", "preparing", "creating", "resetting", "recording",
             "reading"}
\* await points of startSync's loop
LoopPcs  == {"syncing", "saving", "processing", "backoff"}

-----------------------------------------------------------------------------
Init ==
    /\ head = 0
    /\ stored = NoToken
    /\ storedFilter = NoFilter
    /\ stopSyncing = FALSE
    /\ filterId = NoFilter
    /\ pc = [s \in Slots |-> "idle"]
    /\ want = [s \in Slots |-> NoFilter]
    /\ token = [s \in Slots |-> NoToken]
    /\ asked = [s \in Slots |-> NoFilter]
    /\ cur = [s \in Slots |-> 0]
    /\ emitted = {}
    /\ since = {}

\* The slot's call is over; its local variables are gone.
End(s) ==
    /\ pc' = [pc EXCEPT ![s] = "idle"]
    /\ want' = [want EXCEPT ![s] = NoFilter]
    /\ token' = [token EXCEPT ![s] = NoToken]
    /\ asked' = [asked EXCEPT ![s] = NoFilter]
    /\ cur' = [cur EXCEPT ![s] = 0]

\* Faulty variant: the loop does not look at stopSyncing.
LoopHeadNoStop(s, tok) ==
    /\ pc' = [pc EXCEPT ![s] = "syncing"]
    /\ token' = [token EXCEPT ![s] = tok]
    /\ asked' = [asked EXCEPT ![s] = filterId]
    /\ cur' = [cur EXCEPT ![s] = At(tok)]
    /\ UNCHANGED want

\* The head of promiseWhile: leave on a stop request, else send the next
\* request with the local token tok and the filter filterId holds now.
LoopHead(s, tok) ==
    \/ /\ stopSyncing
       /\ End(s)
    \/ /\ ~stopSyncing
       /\ pc' = [pc EXCEPT ![s] = "syncing"]
       /\ token' = [token EXCEPT ![s] = tok]
       /\ asked' = [asked EXCEPT ![s] = filterId]
       /\ cur' = [cur EXCEPT ![s] = At(tok)]
       /\ UNCHANGED want

GoTo(s, label) ==
    /\ pc' = [pc EXCEPT ![s] = label]
    /\ UNCHANGED <<want, token, asked, cur>>

-----------------------------------------------------------------------------
(* start() *)

\* start(filter) runs up to `await this.dms.update()`.
Start(s, f) ==
    /\ pc[s] = "idle"
    /\ pc' = [pc EXCEPT ![s] = "updating"]
    /\ want' = [want EXCEPT ![s] = f]
    /\ UNCHANGED <<head, storage, stopSyncing, filterId, token, asked, cur,
                   emitted, since>>

\* dms.update() is back: the stop flag is cleared, then the joined rooms, the
\* user ID, the crypto client and the stored filter are awaited.
ClearStop(s) ==
    /\ pc[s] = "updating"
    /\ stopSyncing' = FALSE
    /\ GoTo(s, "preparing")
    /\ UNCHANGED <<head, storage, filterId, history>>

\* storage.getFilter() is back: a matching filter is reused; a new one is
\* created unless the caller gave none.
CompareFilter(s) ==
    /\ pc[s] = "preparing"
    /\ \/ /\ storedFilter # NoFilter /\ storedFilter = want[s]
          /\ filterId' = storedFilter
          /\ GoTo(s, "reading")
       \/ /\ storedFilter = NoFilter \/ storedFilter # want[s]
          /\ GoTo(s, IF want[s] = NoFilter THEN "reading" ELSE "creating")
          /\ UNCHANGED filterId
    /\ UNCHANGED <<head, storage, stopSyncing, history>>

\* The homeserver created the filter.
CreateFilter(s) ==
    /\ pc[s] = "creating"
    /\ filterId' = want[s]
    /\ GoTo(s, "resetting")
    /\ UNCHANGED <<head, storage, stopSyncing, history>>

\* Faulty variant: the token of the old filter is kept.
ResetTokenNot(s) ==
    /\ pc[s] = "resetting"
    /\ since' = {}
    /\ GoTo(s, "recording")
    /\ UNCHANGED <<head, storage, stopSyncing, filterId, emitted>>

\* storage.setSyncToken(null)
ResetToken(s) ==
    /\ pc[s] = "resetting"
    /\ stored' = NoToken
    /\ since' = {}
    /\ GoTo(s, "recording")
    /\ UNCHANGED <<head, storedFilter, stopSyncing, filterId, emitted>>

\* storage.setFilter({id, filter})
RecordFilter(s) ==
    /\ pc[s] = "recording"
    /\ storedFilter' = want[s]
    /\ GoTo(s, "reading")
    /\ UNCHANGED <<head, stored, stopSyncing, filterId, history>>

\* startSync: storage.getSyncToken() is back and the loop begins.
ReadToken(s) ==
    /\ pc[s] = "reading"
    /\ LoopHead(s, stored)
    /\ UNCHANGED <<head, storage, stopSyncing, filterId, history>>

\* Anything start() awaits may reject, which rejects start() as a whole.
StartFails(s) ==
    /\ "start" \in Faults
    /\ pc[s] \in StartPcs
    /\ End(s)
    /\ UNCHANGED <<head, storage, stopSyncing, filterId, history>>

-----------------------------------------------------------------------------
(* The loop *)

\* Faulty variants: the token is persisted at the other time than the mode
\* says; the response counts as processed when it arrives.
RespondSwapped(s, to) ==
    /\ pc[s] = "syncing"
    /\ to \in At(token[s])..head
    /\ token' = [token EXCEPT ![s] = [at |-> to, under |-> asked[s]]]
    /\ pc' = [pc EXCEPT ![s] = IF PersistAfter THEN "saving" ELSE "processing"]
    /\ UNCHANGED <<head, storage, stopSyncing, filterId, want, asked, cur, history>>

RespondDropped(s, to) ==
    /\ pc[s] = "syncing"
    /\ to \in At(token[s])..head
    /\ token' = [token EXCEPT ![s] = [at |-> to, under |-> asked[s]]]
    /\ cur' = [cur EXCEPT ![s] = to]
    /\ pc' = [pc EXCEPT ![s] = IF PersistAfter THEN "processing" ELSE "saving"]
    /\ UNCHANGED <<head, storage, stopSyncing, filterId, want, asked, history>>

\* doSync is back with a response that ends at position to. The local token
\* moves on at once, before the response is persisted or processed.
Respond(s, to) ==
    /\ pc[s] = "syncing"
    /\ to \in At(token[s])..head
    /\ token' = [token EXCEPT ![s] = [at |-> to, under |-> asked[s]]]
    /\ pc' = [pc EXCEPT ![s] = IF PersistAfter THEN "processing" ELSE "saving"]
    /\ UNCHANGED <<head, storage, stopSyncing, filterId, want, asked, cur, history>>

\* storage.setSyncToken(token), before processSync or after it
Save(s) ==
    /\ pc[s] = "saving"
    /\ stored' = token[s]
    /\ IF PersistAfter THEN LoopHead(s, token[s]) ELSE GoTo(s, "processing")
    /\ UNCHANGED <<head, storedFilter, stopSyncing, filterId, history>>

\* Faulty variant: dispatches past the end of the response.
DispatchPastEnd(s) ==
    /\ pc[s] = "processing"
    /\ cur[s] <= At(token[s])
    /\ cur' = [cur EXCEPT ![s] = @ + 1]
    /\ emitted' = emitted \cup {cur[s] + 1}
    /\ since' = since \cup {cur[s] + 1}
    /\ UNCHANGED <<head, storage, stopSyncing, filterId, pc, want, token, asked>>

\* processSync dispatches the next event of the response.
Dispatch(s) ==
    /\ pc[s] = "processing"
    /\ cur[s] < At(token[s])
    /\ cur' = [cur EXCEPT ![s] = @ + 1]
    /\ emitted' = emitted \cup {cur[s] + 1}
    /\ since' = since \cup {cur[s] + 1}
    /\ UNCHANGED <<head, storage, stopSyncing, filterId, pc, want, token, asked>>

\* Faulty variant: processSync is not awaited to its end.
ProcessedEarly(s) ==
    /\ pc[s] = "processing"
    /\ IF PersistAfter THEN GoTo(s, "saving") ELSE LoopHead(s, token[s])
    /\ UNCHANGED <<head, storage, stopSyncing, filterId, history>>

\* processSync returned.
Processed(s) ==
    /\ pc[s] = "processing"
    /\ cur[s] = At(token[s])
    /\ IF PersistAfter THEN GoTo(s, "saving") ELSE LoopHead(s, token[s])
    /\ UNCHANGED <<head, storage, stopSyncing, filterId, history>>

\* What the loop was awaiting rejected: the request, the storage, or a listener
\* in the middle of processSync. The loop ends if it was told to stop and
\* backs off otherwise; the local token stays where Respond put it.
LoopFails(s) ==
    /\ \/ pc[s] = "syncing" /\ "sync" \in Faults
       \/ pc[s] = "saving" /\ "store" \in Faults
       \/ pc[s] = "processing" /\ "handler" \in Faults
    /\ IF stopSyncing THEN End(s) ELSE GoTo(s, "backoff")
    /\ UNCHANGED <<head, storage, stopSyncing, filterId, history>>

\* Faulty variant: after an error the loop starts over from its beginning.
RetryFromStart(s) ==
    /\ pc[s] = "backoff"
    /\ LoopHead(s, NoToken)
    /\ UNCHANGED <<head, storage, stopSyncing, filterId, history>>

\* The backoff timer fires.
Retry(s) ==
    /\ pc[s] = "backoff"
    /\ LoopHead(s, token[s])
    /\ UNCHANGED <<head, storage, stopSyncing, filterId, history>>

-----------------------------------------------------------------------------
(* The caller, the process and the homeserver *)

Stop ==
    /\ stopSyncing' = TRUE
    /\ UNCHANGED <<head, storage, filterId, loopVars, emitted, since>>

\* The process dies; a new MatrixClient is built on the same storage.
Crash ==
    /\ stopSyncing' = FALSE
    /\ filterId' = NoFilter
    /\ pc' = [s \in Slots |-> "idle"]
    /\ want' = [s \in Slots |-> NoFilter]
    /\ token' = [s \in Slots |-> NoToken]
    /\ asked' = [s \in Slots |-> NoFilter]
    /\ cur' = [s \in Slots |-> 0]
    /\ UNCHANGED <<head, storage, emitted, since>>

\* Something happens in one of the user's rooms.
NewEvent ==
    /\ head < MaxPos
    /\ head' = head + 1
    /\ UNCHANGED <<storage, stopSyncing, filterId, loopVars, history>>

\* A step of the slot's own code that goes as intended
Proceed(s) ==
    \/ ClearStop(s) \/ CompareFilter(s) \/ CreateFilter(s) \/ ResetToken(s)
    \/ RecordFilter(s) \/ ReadToken(s)
    \/ \E to \in 0..MaxPos : Respond(s, to)
    \/ Save(s) \/ Dispatch(s) \/ Processed(s) \/ Retry(s)

Next ==
    \/ \E s \in Slots :
          \/ \E f \in Filters : Start(s, f)
          \/ Proceed(s)
          \/ StartFails(s)
          \/ LoopFails(s)
    \/ Stop
    \/ Crash
    \/ NewEvent

Spec == Init /\ [][Next]_vars

-----------------------------------------------------------------------------
(* Fairness. JavaScript runs every continuation whose promise has settled,  *)
(* and each promise awaited here does settle: requests have a timeout, the  *)
(* backoff is a timer. A request may fail any number of times but not for   *)
(* ever, and the homeserver finally answers with all it has.                *)
Fairness ==
    \A s \in Slots :
        /\ WF_vars(Proceed(s))
        /\ SF_vars(Respond(s, head))

FairSpec == Spec /\ Fairness

-----------------------------------------------------------------------------
(* Properties *)

TypeOK ==
    /\ head \in 0..MaxPos
    /\ stored \in Token
    /\ storedFilter \in AnyFilter
    /\ stopSyncing \in BOOLEAN
    /\ filterId \in AnyFilter
    /\ pc \in [Slots -> {"idle"} \cup StartPcs \cup LoopPcs]
    /\ want \in [Slots -> AnyFilter]
    /\ token \in [Slots -> Token]
    /\ asked \in [Slots -> AnyFilter]
    /\ cur \in [Slots -> 0..MaxPos]
    /\ emitted \subseteq Position
    /\ since \subseteq Position

\* With persistTokenAfterSync, the persisted token covers nothing that was not
\* handed to the listeners, whatever crashes, overlapping loops and failed
\* requests or writes do in between.
AckedIsDelivered == 1..At(stored) \subseteq emitted

\* Without it, an event about to be dispatched was not dispatched before
\* (unless a new filter reset the token), across crashes and restarts too.
NotTwice ==
    \A s \in Slots :
        pc[s] = "processing" /\ cur[s] < At(token[s]) => cur[s] + 1 \notin since

\* A request continues from a token only under the filter the token was
\* obtained under: the three writes of a filter change (filterId, the token,
\* the stored filter) leave no mixture behind, wherever a crash splits them.
TokenMatchesFilter ==
    \A s \in Slots :
        pc[s] = "syncing" /\ token[s] # NoToken => token[s].under = asked[s]

\* A loop that is told to stop ends, unless start() clears the flag first.
StopEnds ==
    \A s \in Slots :
        stopSyncing /\ pc[s] \in LoopPcs
            ~> ~stopSyncing \/ pc[s] \notin LoopPcs

Running(s) == pc[s] \in LoopPcs /\ ~stopSyncing

\* While a loop runs on, whatever happens on the homeserver is delivered.
EventuallyDelivered ==
    \A s \in Slots : \A p \in Position :
        p <= head /\ Running(s) ~> p \in emitted \/ ~Running(s)

\* The loop implements the stream its mode promises.
Stream == INSTANCE EventStream WITH
    AckFirst  <- ~PersistAfter,
    delivered <- IF PersistAfter THEN emitted ELSE since,
    acked     <- At(stored)

\* Every step is a delivery, an acknowledgement or a reset of the stream:
\* at-most-once without persistTokenAfterSync, at-least-once with it.
StreamRefined == Stream!Spec
=============================================================================
