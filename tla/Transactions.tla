----------------------------- MODULE Transactions -----------------------------
(***************************************************************************)
(* Appservice.onTransaction (src/src/appservice/Appservice.ts) with the      *)
(* transaction record of the storage provider and the homeserver that sends *)
(* the transactions.                                                       *)
(*                                                                         *)
(* The homeserver sends transactions 1, 2, ... in this order and sends each  *)
(* one again until a request for it is answered with 200; a request it gave  *)
(* up on is still being handled. Each request is a handler that runs from    *)
(* one await to the next. A transaction is a number of parts, each awaited:  *)
(* its EDUs, the crypto data per user and its events. Requests that fail the *)
(* authentication or the body checks are answered before any state is read  *)
(* or written and are left out.                                            *)
(***************************************************************************)
EXTENDS Integers, Sequences

CONSTANTS
    Reqs,           \* requests that can be in the hands of handlers at once
    MaxTxn,         \* bound: the homeserver has transactions 1..MaxTxn
    Parts,          \* parts of a transaction
    NoReq,          \* the homeserver awaits no answer
    Faults,         \* what may fail: a subset of FaultKinds
    Durable,        \* ~trackTransactionsInMemory: the record is on disk
    MaxTracked,     \* maxInMemoryTransactions
    DiesOnUnhandled \* an unhandled rejection ends the process (Node's default)

\* "check": isTransactionCompleted, "part": a step of the processing, "mark":
\* setTransactionCompleted, "net": an answer the homeserver does not get
FaultKinds == {"check", "part", "mark", "net", "crash"}

ASSUME TxnAssumption ==
    /\ MaxTxn \in Nat
    /\ Parts \in Nat
    /\ MaxTracked \in Nat \ {0}
    /\ NoReq \notin Reqs
    /\ Faults \subseteq FaultKinds
    /\ Durable \in BOOLEAN
    /\ DiesOnUnhandled \in BOOLEAN

Txns == 1..MaxTxn

VARIABLES
    hsTxn,      \* homeserver: the transaction to be delivered next
    awaiting,   \* homeserver: the request whose answer it awaits
    completed,  \* storage: the completed transactions, oldest first
    pending,    \* Appservice.pendingTransactions: the state of each promise
    pc,         \* where each handler waits
    txn,        \* the handler's txnId
    found,      \* what isTransactionCompleted told the handler
    cur,        \* parts the handler has processed
    started,    \* history: transactions whose processing began in this process
    processed   \* history: transactions processed to the end

handlers == <<pc, txn, found, cur>>
hs == <<hsTxn, awaiting>>
history == <<started, processed>>
vars == <<hs, completed, pending, handlers, history>>

\* "none": no entry in pendingTransactions; a "hung" promise never settles
PromiseStates == {"none", "running", "done", "hung"}
HandlerPcs == {"idle", "checking", "checked", "waiting", "processing",
               "marking", "lost"}

Init ==
    /\ hsTxn = 1
    /\ awaiting = NoReq
    /\ completed = <<>>
    /\ pending = [t \in Txns |-> "none"]
    /\ pc = [r \in Reqs |-> "idle"]
    /\ txn = [r \in Reqs |-> 0]
    /\ found = [r \in Reqs |-> FALSE]
    /\ cur = [r \in Reqs |-> 0]
    /\ started = {}
    /\ processed = {}

IsCompleted(t) == \E i \in DOMAIN completed : completed[i] = t

\* setTransactionCompleted: kept for good on disk; in memory the oldest are
\* rotated out beyond MaxTracked.
Record(t) ==
    LET added == IF IsCompleted(t) THEN completed ELSE Append(completed, t)
        n == Len(added)
    IN  IF Durable \/ n <= MaxTracked
        THEN added
        ELSE SubSeq(added, n - MaxTracked + 1, n)

GoTo(r, label) ==
    /\ pc' = [pc EXCEPT ![r] = label]
    /\ UNCHANGED <<txn, found, cur>>

EndHandler(r) ==
    /\ pc' = [pc EXCEPT ![r] = "idle"]
    /\ txn' = [txn EXCEPT ![r] = 0]
    /\ found' = [found EXCEPT ![r] = FALSE]
    /\ cur' = [cur EXCEPT ![r] = 0]

\* res.status(200 or 500).json({}): the homeserver moves on at 200, and sends
\* the transaction again otherwise. An answer it no longer awaits is void.
Answer(r, ok) ==
    /\ EndHandler(r)
    /\ awaiting' = IF awaiting = r THEN NoReq ELSE awaiting
    /\ hsTxn' = IF awaiting = r /\ ok THEN hsTxn + 1 ELSE hsTxn

\* The process is gone and started again with the same storage.
Restart ==
    /\ pc' = [r \in Reqs |-> "idle"]
    /\ txn' = [r \in Reqs |-> 0]
    /\ found' = [r \in Reqs |-> FALSE]
    /\ cur' = [r \in Reqs |-> 0]
    /\ pending' = [t \in Txns |-> "none"]
    /\ completed' = IF Durable THEN completed ELSE <<>>
    /\ awaiting' = NoReq
    /\ started' = {}
    /\ UNCHANGED <<hsTxn, processed>>

-----------------------------------------------------------------------------
(* The homeserver *)

\* A handler that waits for what never comes takes no further part; the slot
\* in Reqs is free again.
Dead(r) ==
    \/ pc[r] = "lost"
    \/ pc[r] = "waiting" /\ pending[txn[r]] = "hung"

Send(r) ==
    /\ awaiting = NoReq
    /\ hsTxn \in Txns
    /\ pc[r] = "idle" \/ Dead(r)
    /\ awaiting' = r
    /\ pc' = [pc EXCEPT ![r] = "checking"]
    /\ txn' = [txn EXCEPT ![r] = hsTxn]
    /\ found' = [found EXCEPT ![r] = FALSE]
    /\ cur' = [cur EXCEPT ![r] = 0]
    /\ UNCHANGED <<hsTxn, completed, pending, history>>

\* The request times out or its connection breaks; the handler runs on.
GiveUp ==
    /\ "net" \in Faults
    /\ awaiting # NoReq
    /\ awaiting' = NoReq
    /\ UNCHANGED <<hsTxn, completed, pending, handlers, history>>

-----------------------------------------------------------------------------
(* onTransaction *)

\* The storage evaluates isTransactionCompleted(txnId).
CheckCompleted(r) ==
    /\ pc[r] = "checking"
    /\ pc' = [pc EXCEPT ![r] = "checked"]
    /\ found' = [found EXCEPT ![r] = IsCompleted(txn[r])]
    /\ UNCHANGED <<hs, completed, pending, txn, cur, history>>

\* The handler has the result: the transaction is a known one, or another
\* handler's promise is awaited, or this handler creates the promise.
AnswerKnown(r) ==
    /\ pc[r] = "checked"
    /\ found[r]
    /\ Answer(r, TRUE)
    /\ UNCHANGED <<completed, pending, history>>

JoinPending(r) ==
    /\ pc[r] = "checked"
    /\ ~found[r]
    /\ pending[txn[r]] # "none"
    /\ GoTo(r, "waiting")
    /\ UNCHANGED <<hs, completed, pending, history>>

StartProcessing(r) ==
    /\ pc[r] = "checked"
    /\ ~found[r]
    /\ pending[txn[r]] = "none"
    /\ pending' = [pending EXCEPT ![txn[r]] = "running"]
    /\ GoTo(r, "processing")
    /\ started' = started \cup {txn[r]}
    /\ UNCHANGED <<hs, completed, processed>>

\* Faulty variant: goes on past the last part.
ProcessPartPastEnd(r) ==
    /\ pc[r] = "processing"
    /\ cur[r] <= Parts
    /\ cur' = [cur EXCEPT ![r] = @ + 1]
    /\ UNCHANGED <<hs, completed, pending, pc, txn, found, history>>

ProcessPart(r) ==
    /\ pc[r] = "processing"
    /\ cur[r] < Parts
    /\ cur' = [cur EXCEPT ![r] = @ + 1]
    /\ UNCHANGED <<hs, completed, pending, pc, txn, found, history>>

\* Faulty variant: resolve() is not called.
FinishUnresolved(r) ==
    /\ pc[r] = "processing"
    /\ cur[r] = Parts
    /\ processed' = processed \cup {txn[r]}
    /\ GoTo(r, "marking")
    /\ UNCHANGED <<hs, completed, pending, started>>

\* resolve()
FinishProcessing(r) ==
    /\ pc[r] = "processing"
    /\ cur[r] = Parts
    /\ pending' = [pending EXCEPT ![txn[r]] = "done"]
    /\ processed' = processed \cup {txn[r]}
    /\ GoTo(r, "marking")
    /\ UNCHANGED <<hs, completed, started>>

\* Faulty variant: the settled promise is removed from pendingTransactions.
MarkAndForget(r) ==
    /\ pc[r] = "marking"
    /\ completed' = Record(txn[r])
    /\ pending' = [pending EXCEPT ![txn[r]] = "none"]
    /\ Answer(r, TRUE)
    /\ UNCHANGED history

\* setTransactionCompleted, then 200
MarkCompleted(r) ==
    /\ pc[r] = "marking"
    /\ completed' = Record(txn[r])
    /\ Answer(r, TRUE)
    /\ UNCHANGED <<pending, history>>

\* Faulty variants: does not await the promise; takes a failure for success.
AnswerAtOnce(r) ==
    /\ pc[r] = "waiting"
    /\ Answer(r, TRUE)
    /\ UNCHANGED <<completed, pending, history>>

AnswerSettled(r) ==
    /\ pc[r] = "waiting"
    /\ pending[txn[r]] # "running"
    /\ Answer(r, TRUE)
    /\ UNCHANGED <<completed, pending, history>>

\* A handler that awaited another one's promise
AnswerJoined(r) ==
    /\ pc[r] = "waiting"
    /\ pending[txn[r]] = "done"
    /\ Answer(r, TRUE)
    /\ UNCHANGED <<completed, pending, history>>

-----------------------------------------------------------------------------
(* Failures *)

\* isTransactionCompleted rejects outside every try: an unhandled rejection,
\* and no answer from a process that survives it.
CheckFails(r) ==
    /\ "check" \in Faults
    /\ pc[r] = "checking"
    /\ \/ DiesOnUnhandled /\ Restart
       \/ /\ ~DiesOnUnhandled
          /\ GoTo(r, "lost")
          /\ UNCHANGED <<hs, completed, pending, history>>

\* Faulty variant: the process survives the failure.
PartFailsUnnoticed(r) ==
    /\ "part" \in Faults
    /\ pc[r] = "processing"
    /\ cur[r] < Parts
    /\ pending' = [pending EXCEPT ![txn[r]] = "hung"]
    /\ GoTo(r, "lost")
    /\ UNCHANGED <<hs, completed, history>>

\* A part throws inside the promise's async executor. The promise has no
\* reject: it never settles, the try around the await of it sees nothing, and
\* the executor's own rejection is unhandled.
PartFails(r) ==
    /\ "part" \in Faults
    /\ pc[r] = "processing"
    /\ cur[r] < Parts
    /\ \/ DiesOnUnhandled /\ Restart
       \/ /\ ~DiesOnUnhandled
          /\ pending' = [pending EXCEPT ![txn[r]] = "hung"]
          /\ GoTo(r, "lost")
          /\ UNCHANGED <<hs, completed, history>>

\* setTransactionCompleted rejects: 500, the promise stays resolved.
MarkFails(r) ==
    /\ "mark" \in Faults
    /\ pc[r] = "marking"
    /\ Answer(r, FALSE)
    /\ UNCHANGED <<completed, pending, history>>

Crash == "crash" \in Faults /\ Restart

Progress(r) ==
    \/ CheckCompleted(r) \/ AnswerKnown(r) \/ JoinPending(r)
    \/ StartProcessing(r) \/ ProcessPart(r) \/ FinishProcessing(r)
    \/ MarkCompleted(r) \/ AnswerJoined(r)

Next ==
    \/ \E r \in Reqs :
          \/ Send(r)
          \/ Progress(r)
          \/ CheckFails(r) \/ PartFails(r) \/ MarkFails(r)
    \/ GiveUp
    \/ Crash

Spec == Init /\ [][Next]_vars

-----------------------------------------------------------------------------
(* Fairness. A handler goes on when what it awaits has settled. The          *)
(* homeserver sends what is due. Failures are transient: what is tried again *)
(* and again succeeds in the end, and while the homeserver still waits.     *)
Transient ==
    /\ \A k \in 0..(Parts - 1) :
           SF_vars(\E r \in Reqs : cur[r] = k /\ ProcessPart(r))
    /\ SF_vars(\E r \in Reqs : FinishProcessing(r))
    /\ SF_vars(\E r \in Reqs : StartProcessing(r))
    /\ SF_vars(\E r \in Reqs : awaiting = r /\ CheckCompleted(r))
    /\ SF_vars(\E r \in Reqs : awaiting = r /\ JoinPending(r))
    /\ SF_vars(\E r \in Reqs : MarkCompleted(r))
    /\ SF_vars(\E r \in Reqs : awaiting = r /\ AnswerKnown(r))
    /\ SF_vars(\E r \in Reqs : awaiting = r /\ AnswerJoined(r))

FairSpec ==
    /\ Spec
    /\ WF_vars(\E r \in Reqs : Send(r))
    /\ \A r \in Reqs : WF_vars(Progress(r))

TransientSpec == FairSpec /\ Transient

-----------------------------------------------------------------------------
(* Properties *)

TypeOK ==
    /\ hsTxn \in 1..(MaxTxn + 1)
    /\ awaiting \in Reqs \cup {NoReq}
    /\ completed \in Seq(Txns)
    /\ pending \in [Txns -> PromiseStates]
    /\ pc \in [Reqs -> HandlerPcs]
    /\ txn \in [Reqs -> 0..MaxTxn]
    /\ found \in [Reqs -> BOOLEAN]
    /\ cur \in [Reqs -> 0..Parts]
    /\ started \subseteq Txns
    /\ processed \subseteq Txns

Starts(r) == pc[r] # "processing" /\ pc'[r] = "processing"

\* In one process the processing of a transaction begins once, however many
\* requests for it overlap and whatever the record has rotated out.
OncePerProcess ==
    [][\A r \in Reqs : Starts(r) => txn[r] \notin started]_vars

\* A transaction recorded as completed is not processed again, by a request
\* that was checked before the record was made or after a restart.
NoReplay == [][\A r \in Reqs : Starts(r) => ~IsCompleted(txn[r])]_vars

\* The events of two transactions never interleave: one handler processes at
\* a time, although a retry and the next transaction may both be in handlers.
OneAtATime ==
    \A r, q \in Reqs :
        pc[r] = "processing" /\ pc[q] = "processing" => r = q

\* A transaction whose processing threw in a process that survived it is the
\* one the homeserver stays at: it is never acknowledged by that process.
HungIsNotAcked == \A t \in Txns : pending[t] = "hung" => hsTxn = t

\* Every request is handled to its end: nobody waits for a promise whose owner
\* waits in turn, whichever of the retries the homeserver has given up on.
HandlersEnd == \A r \in Reqs : pc[r] # "idle" ~> pc[r] = "idle"

\* With failures that pass and a process that is started again, the homeserver
\* gets every transaction acknowledged.
StreamMoves == \A t \in Txns : hsTxn = t ~> hsTxn > t

\* Transactions are a stream that is acknowledged only after delivery.
Stream == INSTANCE EventStream WITH
    MaxPos    <- MaxTxn,
    AckFirst  <- FALSE,
    delivered <- processed,
    acked     <- hsTxn - 1

\* The homeserver is told a transaction is done only when it and all before it
\* were processed to the end, also by the answers to retries that joined a
\* pending one, across failures and restarts.
StreamRefined == Stream!Spec
=============================================================================
