-------------------------- MODULE TransactionsProofs --------------------------
(***************************************************************************)
(* Theorems about Transactions, for every number of requests, transactions  *)
(* and parts, every capacity of the record and every set of faults.         *)
(***************************************************************************)
EXTENDS Transactions, SequenceTheorems, TLAPS

USE DEF Txns

\* The transactions whose promise was resolved, or that are in a record which
\* outlives the process
KnownTxns == {t \in Txns : pending[t] = "done" \/ (Durable /\ IsCompleted(t))}

\* Every handler at work handles a transaction the homeserver has sent, and the
\* one whose answer is awaited handles the current one.
RequestInv ==
    /\ \A r \in Reqs : pc[r] # "idle" => txn[r] \in Txns /\ txn[r] <= hsTxn
    /\ awaiting \in Reqs => pc[awaiting] # "idle" /\ txn[awaiting] = hsTxn

\* What counts as done anywhere was processed to the end.
DoneInv ==
    /\ \A t \in Txns : pending[t] = "done" => t \in processed
    /\ \A t \in Txns : IsCompleted(t) => t \in processed
    /\ \A r \in Reqs : pc[r] = "checked" /\ found[r] => txn[r] \in processed
    /\ \A r \in Reqs : pc[r] = "marking" => pending[txn[r]] = "done"
    /\ \A t \in Txns : t < hsTxn => t \in processed

\* A promise is pending for the handler that processes the transaction, and
\* only for the transaction the homeserver is at.
OwnerInv ==
    /\ \A t \in Txns : pending[t] # "none" <=> t \in started
    /\ \A r \in Reqs : pc[r] = "processing" => pending[txn[r]] = "running"
    /\ \A r, q \in Reqs :
           pc[r] = "processing" /\ pc[q] = "processing" /\ txn[r] = txn[q] => r = q
    /\ \A t \in Txns : pending[t] \in {"running", "hung"} => t = hsTxn

\* What a handler was told about the record is still good when it is used.
RecordInv ==
    /\ \A t \in Txns : IsCompleted(t) => t \in KnownTxns /\ pending[t] \in {"none", "done"}
    /\ \A r \in Reqs : pc[r] = "checked" /\ found[r] => txn[r] \in KnownTxns
    /\ \A r \in Reqs :
           pc[r] = "checked" /\ ~found[r] /\ txn[r] \in KnownTxns => pending[txn[r]] = "done"
    /\ \A r \in Reqs :
           pc[r] \in {"checking", "checked"} /\ txn[r] < hsTxn => txn[r] \in KnownTxns

IInv == TypeOK /\ RequestInv /\ DoneInv /\ OwnerInv /\ RecordInv

-----------------------------------------------------------------------------
(* The record                                                               *)

\* Recording a transaction adds nothing else, and forgets nothing on disk.
LEMMA RecordProperties ==
    ASSUME TypeOK, NEW t \in Txns, completed' = Record(t)
    PROVE  /\ completed' \in Seq(Txns)
           /\ \A u \in Txns : IsCompleted(u)' => IsCompleted(u) \/ u = t
           /\ Durable => \A u \in Txns : IsCompleted(u) => IsCompleted(u)'
<1>0. completed \in Seq(Txns) /\ MaxTracked \in Nat \ {0}
  BY TxnAssumption DEF TypeOK
<1> DEFINE added == IF IsCompleted(t) THEN completed ELSE Append(completed, t)
           n == Len(added)
           m == n - MaxTracked + 1
<1>1. /\ added \in Seq(Txns) /\ n \in Nat
      /\ \A i \in 1..n : added[i] = t \/ \E j \in DOMAIN completed : added[i] = completed[j]
      /\ \A j \in DOMAIN completed : j \in 1..n /\ added[j] = completed[j]
  <2>1. CASE IsCompleted(t)
    BY <1>0, <2>1
  <2>2. CASE ~IsCompleted(t)
    <3>1. /\ Append(completed, t) \in Seq(Txns)
          /\ Len(Append(completed, t)) = Len(completed) + 1
          /\ \A i \in 1..Len(completed) : Append(completed, t)[i] = completed[i]
          /\ Append(completed, t)[Len(completed) + 1] = t
      BY <1>0, AppendProperties
    <3>2. DOMAIN completed = 1..Len(completed) /\ Len(completed) \in Nat
      BY <1>0
    <3> QED BY <2>2, <3>1, <3>2
  <2> QED BY <2>1, <2>2
<1>2. completed' = IF Durable \/ n <= MaxTracked THEN added ELSE SubSeq(added, m, n)
  BY DEF Record
<1> HIDE DEF added
<1>5. \A i \in 1..n : added[i] \in Txns
  BY <1>1, ElementOfSeq
<1>3. CASE Durable \/ n <= MaxTracked
  <2>1. completed' = added /\ DOMAIN added = 1..n
    BY <1>1, <1>2, <1>3
  <2> HIDE DEF n
  <2>2. \A u \in Txns : IsCompleted(u)' => IsCompleted(u) \/ u = t
    BY <1>1, <2>1 DEF IsCompleted
  <2>3. \A u \in Txns : IsCompleted(u) => IsCompleted(u)'
    BY <1>1, <2>1 DEF IsCompleted
  <2> QED
    BY <1>1, <2>1, <2>2, <2>3
<1>4. CASE ~(Durable \/ n <= MaxTracked)
  <2>1. completed' = SubSeq(added, m, n)
    BY <1>2, <1>4
  <2>2. m \in Int /\ n \in Int /\ m >= 1 /\ m <= n
    BY <1>0, <1>1, <1>4
  <2>3. \A i \in m..n : added[i] \in Txns /\ i \in 1..n
    BY <1>1, <1>5, <2>2
  <2> HIDE DEF n, m
  <2>4. /\ SubSeq(added, m, n) \in Seq(Txns)
        /\ Len(SubSeq(added, m, n)) = n - m + 1
        /\ \A i \in 1..(n - m + 1) : SubSeq(added, m, n)[i] = added[m + i - 1]
    <3>1. \A i \in m..n : added[i] \in Txns
      BY <2>3
    <3> QED BY <2>2, <3>1, SubSeqProperties
  <2>5. \A i \in DOMAIN completed' : \E j \in 1..n : completed'[i] = added[j]
    <3> SUFFICES ASSUME NEW i \in DOMAIN completed'
                 PROVE  \E j \in 1..n : completed'[i] = added[j]
      OBVIOUS
    <3>1. i \in 1..(n - m + 1)
      BY <2>1, <2>4
    <3>2. m + i - 1 \in 1..n
      BY <2>2, <3>1
    <3> QED BY <2>1, <2>4, <3>1, <3>2
  <2>6. \A i \in DOMAIN completed' :
            completed'[i] = t \/ \E j \in DOMAIN completed : completed'[i] = completed[j]
    BY <1>1, <2>5
  <2> QED
    BY <1>4, <2>1, <2>4, <2>6 DEF IsCompleted
<1> QED
  BY <1>3, <1>4

-----------------------------------------------------------------------------
(* Type correctness                                                         *)

LEMMA InitInv == Init => IInv
<1> SUFFICES ASSUME Init PROVE IInv
  OBVIOUS
<1>1. MaxTxn \in Nat /\ Parts \in Nat /\ NoReq \notin Reqs
  BY TxnAssumption
<1>2. completed = <<>> /\ \A t : ~IsCompleted(t)
  BY DEF Init, IsCompleted
<1>3. TypeOK
  <2>1. pc \in [Reqs -> HandlerPcs] /\ pending \in [Txns -> PromiseStates]
    BY DEF Init, HandlerPcs, PromiseStates
  <2>2. txn \in [Reqs -> 0..MaxTxn] /\ cur \in [Reqs -> 0..Parts] /\ hsTxn \in 1..(MaxTxn + 1)
    BY <1>1 DEF Init
  <2>3. found \in [Reqs -> BOOLEAN] /\ completed \in Seq(Txns)
    BY DEF Init
  <2> QED BY <2>1, <2>2, <2>3 DEF Init, TypeOK
<1>4. RequestInv /\ DoneInv /\ OwnerInv /\ RecordInv
  BY <1>1, <1>2 DEF Init, RequestInv, DoneInv, OwnerInv, RecordInv, KnownTxns, HandlerPcs
<1> QED BY <1>3, <1>4 DEF IInv

LEMMA RestartType == TypeOK /\ Restart => TypeOK'
<1> SUFFICES ASSUME TypeOK, Restart PROVE TypeOK'
  OBVIOUS
<1>1. MaxTxn \in Nat /\ Parts \in Nat
  BY TxnAssumption
<1>2. pc' \in [Reqs -> HandlerPcs] /\ pending' \in [Txns -> PromiseStates]
  BY DEF Restart, HandlerPcs, PromiseStates
<1>3. txn' \in [Reqs -> 0..MaxTxn] /\ cur' \in [Reqs -> 0..Parts] /\ found' \in [Reqs -> BOOLEAN]
  BY <1>1 DEF Restart
<1>4. completed' \in Seq(Txns)
  <2>1. <<>> \in Seq(Txns) /\ completed \in Seq(Txns)
    BY EmptySeq DEF TypeOK
  <2>2. completed' = completed \/ completed' = <<>>
    BY DEF Restart
  <2> QED BY <2>1, <2>2
<1> QED BY <1>2, <1>3, <1>4 DEF Restart, TypeOK

\* Answering: the handler's variables are reset, the homeserver may move on.
LEMMA AnswerType ==
    ASSUME TypeOK, RequestInv, NEW r \in Reqs, pc[r] # "idle", NEW ok \in BOOLEAN,
           Answer(r, ok)
    PROVE  /\ pc' \in [Reqs -> HandlerPcs] /\ txn' \in [Reqs -> 0..MaxTxn]
           /\ found' \in [Reqs -> BOOLEAN] /\ cur' \in [Reqs -> 0..Parts]
           /\ hsTxn' \in 1..(MaxTxn + 1) /\ awaiting' \in Reqs \cup {NoReq}
<1>1. MaxTxn \in Nat /\ Parts \in Nat
  BY TxnAssumption
<1>2. awaiting = r => hsTxn + 1 \in 1..(MaxTxn + 1)
  BY <1>1 DEF RequestInv, TypeOK
<1>3. hsTxn' \in 1..(MaxTxn + 1) /\ awaiting' \in Reqs \cup {NoReq}
  BY <1>2 DEF Answer, TypeOK
<1>4. pc' \in [Reqs -> HandlerPcs] /\ found' \in [Reqs -> BOOLEAN]
  BY DEF Answer, EndHandler, TypeOK, HandlerPcs
<1>5. txn' \in [Reqs -> 0..MaxTxn] /\ cur' \in [Reqs -> 0..Parts]
  BY <1>1 DEF Answer, EndHandler, TypeOK
<1> QED
  BY <1>3, <1>4, <1>5

LEMMA TypeStep == IInv /\ [Next]_vars => TypeOK'
<1> SUFFICES ASSUME TypeOK, RequestInv, [Next]_vars
             PROVE  TypeOK'
  BY DEF IInv
<1> USE DEF hs, handlers, history
<1>1. ASSUME NEW r \in Reqs, Send(r) PROVE TypeOK'
  <2>1. 0 \in 0..Parts /\ hsTxn \in 0..MaxTxn
    BY <1>1, TxnAssumption DEF Send, TypeOK
  <2> QED BY <1>1, <2>1 DEF Send, TypeOK, HandlerPcs
<1>2. ASSUME NEW r \in Reqs, CheckCompleted(r) PROVE TypeOK'
  BY <1>2 DEF CheckCompleted, TypeOK, HandlerPcs, IsCompleted
<1>3. ASSUME NEW r \in Reqs, AnswerKnown(r) \/ AnswerJoined(r) PROVE TypeOK'
  <2>1. Answer(r, TRUE) /\ pc[r] # "idle" /\ UNCHANGED <<completed, pending, history>>
    BY <1>3 DEF AnswerKnown, AnswerJoined
  <2> QED BY <2>1, AnswerType DEF TypeOK
<1>4. ASSUME NEW r \in Reqs, JoinPending(r) PROVE TypeOK'
  BY <1>4 DEF JoinPending, GoTo, TypeOK, HandlerPcs
<1>5. ASSUME NEW r \in Reqs, StartProcessing(r) PROVE TypeOK'
  <2>1. txn[r] \in Txns
    BY <1>5 DEF StartProcessing, RequestInv
  <2> QED BY <1>5, <2>1 DEF StartProcessing, GoTo, TypeOK, HandlerPcs, PromiseStates
<1>6. ASSUME NEW r \in Reqs, ProcessPart(r) PROVE TypeOK'
  <2>1. cur[r] + 1 \in 0..Parts
    BY <1>6, TxnAssumption DEF ProcessPart, TypeOK
  <2> QED BY <1>6, <2>1 DEF ProcessPart, TypeOK
<1>7. ASSUME NEW r \in Reqs, FinishProcessing(r) PROVE TypeOK'
  <2>1. txn[r] \in Txns
    BY <1>7 DEF FinishProcessing, RequestInv
  <2> QED BY <1>7, <2>1 DEF FinishProcessing, GoTo, TypeOK, HandlerPcs, PromiseStates
<1>8. ASSUME NEW r \in Reqs, MarkCompleted(r) PROVE TypeOK'
  <2>1. txn[r] \in Txns /\ Answer(r, TRUE) /\ pc[r] # "idle" /\ completed' = Record(txn[r])
    BY <1>8 DEF MarkCompleted, RequestInv
  <2>2. completed' \in Seq(Txns)
    BY <2>1, RecordProperties
  <2> QED BY <1>8, <2>1, <2>2, AnswerType DEF TypeOK, MarkCompleted
<1>9. ASSUME NEW r \in Reqs, MarkFails(r) PROVE TypeOK'
  <2>1. Answer(r, FALSE) /\ pc[r] # "idle" /\ UNCHANGED <<completed, pending, history>>
    BY <1>9 DEF MarkFails
  <2> QED BY <2>1, AnswerType DEF TypeOK
<1>10. ASSUME NEW r \in Reqs, CheckFails(r) PROVE TypeOK'
  BY <1>10, RestartType DEF CheckFails, GoTo, TypeOK, HandlerPcs
<1>11. ASSUME NEW r \in Reqs, PartFails(r) PROVE TypeOK'
  <2>1. txn[r] \in Txns
    BY <1>11 DEF PartFails, RequestInv
  <2> QED BY <1>11, <2>1, RestartType DEF PartFails, GoTo, TypeOK, HandlerPcs, PromiseStates
<1>12. CASE GiveUp
  BY <1>12 DEF GiveUp, TypeOK
<1>13. CASE Crash
  BY <1>13, RestartType DEF Crash
<1>14. CASE UNCHANGED vars
  BY <1>14 DEF vars, TypeOK
<1> QED
  BY <1>1, <1>2, <1>3, <1>4, <1>5, <1>6, <1>7, <1>8, <1>9, <1>10, <1>11, <1>12,
     <1>13, <1>14 DEF Next, Progress

-----------------------------------------------------------------------------
(* The inductive step                                                       *)

Invs == RequestInv /\ DoneInv /\ OwnerInv /\ RecordInv

\* A handler answers 200 only for a known, processed transaction; the record
\* may grow by it at the same time.
LEMMA AnswerStep ==
    ASSUME IInv, NEW r \in Reqs, pc[r] # "idle", NEW ok \in BOOLEAN, Answer(r, ok),
           ok => txn[r] \in KnownTxns /\ txn[r] \in processed,
           UNCHANGED <<pending, history>>,
           \/ UNCHANGED completed
           \/ completed' = Record(txn[r]) /\ pending[txn[r]] = "done"
    PROVE  Invs'
<1> USE DEF history
<1>0. TypeOK /\ RequestInv /\ DoneInv /\ OwnerInv /\ RecordInv /\ MaxTxn \in Nat
  BY TxnAssumption DEF IInv
<1>1. txn[r] \in Txns /\ (awaiting = r => txn[r] = hsTxn)
  BY <1>0 DEF RequestInv
<1>2. /\ \A u \in Txns : IsCompleted(u)' =>
             IsCompleted(u) \/ (u = txn[r] /\ pending[u] = "done")
      /\ Durable => \A u \in Txns : IsCompleted(u) => IsCompleted(u)'
  BY <1>0, <1>1, RecordProperties DEF IsCompleted
<1>3. KnownTxns' = KnownTxns
  BY <1>0, <1>2 DEF KnownTxns
<1>4. /\ \A q \in Reqs \ {r} : pc'[q] = pc[q] /\ txn'[q] = txn[q] /\ found'[q] = found[q]
      /\ pc'[r] = "idle"
      /\ pending' = pending /\ processed' = processed /\ started' = started
  BY <1>0 DEF Answer, EndHandler, TypeOK
<1>5. \/ hsTxn' = hsTxn /\ awaiting' \in {awaiting, NoReq} /\ awaiting' # r
      \/ /\ hsTxn' = hsTxn + 1 /\ awaiting' = NoReq
         /\ hsTxn \in Txns /\ hsTxn \in KnownTxns /\ hsTxn \in processed
  BY <1>1, TxnAssumption DEF Answer
<1>6. hsTxn \in Nat /\ \A q \in Reqs : txn[q] \in Nat
  BY <1>0 DEF TypeOK
<1>7. RequestInv'
  BY <1>0, <1>4, <1>5, <1>6, TxnAssumption DEF RequestInv
<1>8. DoneInv'
  <2>1. \A t \in Txns : t < hsTxn' => t \in processed'
    BY <1>0, <1>4, <1>5, <1>6 DEF DoneInv
  <2>2. \A t \in Txns : IsCompleted(t)' => t \in processed'
    BY <1>0, <1>2, <1>4 DEF DoneInv
  <2> QED BY <1>0, <1>4, <2>1, <2>2 DEF DoneInv
<1>9. OwnerInv'
  <2>1. \A t \in Txns : pending[t] \in {"running", "hung"} => t = hsTxn'
    BY <1>0, <1>5 DEF OwnerInv, RecordInv, KnownTxns
  <2> QED BY <1>0, <1>4, <2>1 DEF OwnerInv
<1>10. RecordInv'
  <2>1. \A t \in Txns : IsCompleted(t)' => t \in KnownTxns' /\ pending'[t] \in {"none", "done"}
    BY <1>0, <1>2, <1>3, <1>4 DEF RecordInv, KnownTxns
  <2>2. \A q \in Reqs : pc'[q] = "checked" =>
            /\ found'[q] => txn'[q] \in KnownTxns'
            /\ ~found'[q] /\ txn'[q] \in KnownTxns' => pending'[txn'[q]] = "done"
    <3> SUFFICES ASSUME NEW q \in Reqs, pc'[q] = "checked"
                 PROVE  /\ found'[q] => txn'[q] \in KnownTxns'
                        /\ ~found'[q] /\ txn'[q] \in KnownTxns' => pending'[txn'[q]] = "done"
      OBVIOUS
    <3>1. q # r /\ txn'[q] = txn[q] /\ txn[q] \in Txns /\ pc[q] = "checked" /\ found'[q] = found[q]
      BY <1>0, <1>4 DEF RequestInv
    <3>2. /\ found[q] => txn[q] \in KnownTxns
          /\ ~found[q] /\ txn[q] \in KnownTxns => pending[txn[q]] = "done"
      BY <1>0, <3>1 DEF RecordInv
    <3> QED BY <1>3, <1>4, <3>1, <3>2
  <2>3. \A q \in Reqs : pc'[q] \in {"checking", "checked"} /\ txn'[q] < hsTxn' => txn'[q] \in KnownTxns'
    <3> SUFFICES ASSUME NEW q \in Reqs, pc'[q] \in {"checking", "checked"}, txn'[q] < hsTxn'
                 PROVE  txn'[q] \in KnownTxns'
      OBVIOUS
    <3>1. /\ q # r /\ txn'[q] = txn[q] /\ txn[q] \in Txns /\ txn[q] <= hsTxn
          /\ pc[q] \in {"checking", "checked"}
      BY <1>0, <1>4 DEF RequestInv
    <3>2. txn[q] \in KnownTxns
      BY <1>0, <1>5, <1>6, <3>1 DEF RecordInv
    <3> QED BY <1>3, <3>1, <3>2
  <2> QED BY <2>1, <2>2, <2>3 DEF RecordInv, KnownTxns
<1> QED
  BY <1>7, <1>8, <1>9, <1>10 DEF Invs

LEMMA RestartStep == IInv /\ Restart => Invs'
<1> SUFFICES ASSUME IInv, Restart PROVE Invs'
  OBVIOUS
<1>0. TypeOK /\ DoneInv /\ RecordInv
  BY DEF IInv
<1>1. /\ \A r \in Reqs : pc'[r] = "idle"
      /\ \A t \in Txns : pending'[t] = "none"
      /\ awaiting' = NoReq /\ started' = {} /\ hsTxn' = hsTxn /\ processed' = processed
  BY DEF Restart
<1>2. \A t \in Txns : IsCompleted(t)' => Durable /\ IsCompleted(t)
  BY DEF Restart, IsCompleted
<1>3. RequestInv' /\ OwnerInv'
  BY <1>1, TxnAssumption DEF RequestInv, OwnerInv
<1>4. DoneInv'
  BY <1>0, <1>1, <1>2 DEF DoneInv
<1>5. RecordInv'
  BY <1>1, <1>2 DEF RecordInv, KnownTxns
<1> QED BY <1>3, <1>4, <1>5 DEF Invs

LEMMA InvStep == IInv /\ [Next]_vars => Invs'
<1> SUFFICES ASSUME IInv, [Next]_vars PROVE Invs'
  OBVIOUS
<1> USE DEF hs, handlers, history
<1>0. /\ TypeOK /\ RequestInv /\ DoneInv /\ OwnerInv /\ RecordInv
      /\ MaxTxn \in Nat /\ NoReq \notin Reqs
  BY TxnAssumption DEF IInv
<1>t. hsTxn \in Nat /\ \A q \in Reqs : txn[q] \in Nat
  BY <1>0 DEF TypeOK
<1>1. ASSUME NEW r \in Reqs, Send(r) PROVE Invs'
  <2>1. /\ \A q \in Reqs \ {r} : pc'[q] = pc[q] /\ txn'[q] = txn[q] /\ found'[q] = found[q]
        /\ pc'[r] = "checking" /\ txn'[r] = hsTxn /\ hsTxn \in Txns /\ awaiting' = r
        /\ UNCHANGED <<hsTxn, completed, pending, started, processed>>
    BY <1>0, <1>1 DEF Send, TypeOK
  <2>2. KnownTxns' = KnownTxns /\ \A t : IsCompleted(t)' = IsCompleted(t)
    BY <2>1 DEF KnownTxns, IsCompleted
  <2>3. RequestInv'
    BY <1>0, <1>t, <2>1 DEF RequestInv
  <2>4. DoneInv'
    BY <1>0, <2>1, <2>2 DEF DoneInv
  <2>5. OwnerInv'
    BY <1>0, <2>1 DEF OwnerInv
  <2>6. RecordInv'
    BY <1>0, <1>t, <2>1, <2>2 DEF RecordInv
  <2> QED BY <2>3, <2>4, <2>5, <2>6 DEF Invs
<1>2. ASSUME NEW r \in Reqs, CheckCompleted(r) PROVE Invs'
  <2>1. /\ \A q \in Reqs \ {r} : pc'[q] = pc[q] /\ found'[q] = found[q]
        /\ pc[r] = "checking" /\ pc'[r] = "checked" /\ found'[r] = IsCompleted(txn[r])
        /\ UNCHANGED <<hs, txn, completed, pending, started, processed>>
    BY <1>0, <1>2 DEF CheckCompleted, TypeOK
  <2>2. KnownTxns' = KnownTxns /\ \A t : IsCompleted(t)' = IsCompleted(t)
    BY <2>1 DEF KnownTxns, IsCompleted
  <2>3. RequestInv'
    BY <1>0, <1>t, <2>1 DEF RequestInv
  <2>4. DoneInv'
    BY <1>0, <2>1, <2>2 DEF DoneInv, RequestInv
  <2>5. OwnerInv'
    BY <1>0, <2>1 DEF OwnerInv
  <2>6. RecordInv'
    <3>1. txn[r] \in Txns
      BY <1>0, <2>1 DEF RequestInv
    <3>2. ~IsCompleted(txn[r]) /\ txn[r] \in KnownTxns => pending[txn[r]] = "done"
      BY DEF KnownTxns
    <3> QED BY <1>0, <2>1, <2>2, <3>1, <3>2 DEF RecordInv
  <2> QED BY <2>3, <2>4, <2>5, <2>6 DEF Invs
<1>3. ASSUME NEW r \in Reqs, AnswerKnown(r) \/ AnswerJoined(r) PROVE Invs'
  <2>1. /\ Answer(r, TRUE) /\ pc[r] # "idle"
        /\ UNCHANGED <<completed, pending, history>>
    BY <1>3 DEF AnswerKnown, AnswerJoined
  <2>2. txn[r] \in KnownTxns /\ txn[r] \in processed
    BY <1>0, <1>3 DEF AnswerKnown, AnswerJoined, DoneInv, RecordInv, RequestInv, KnownTxns
  <2> QED BY <2>1, <2>2, AnswerStep
<1>4. ASSUME NEW r \in Reqs, MarkCompleted(r) \/ MarkFails(r) PROVE Invs'
  <2>1. pc[r] = "marking" /\ UNCHANGED <<pending, history>>
    BY <1>4 DEF MarkCompleted, MarkFails
  <2>2. /\ pending[txn[r]] = "done"
        /\ txn[r] \in KnownTxns /\ txn[r] \in processed
    BY <1>0, <2>1 DEF DoneInv, RequestInv, KnownTxns
  <2>3. CASE MarkCompleted(r)
    BY <2>1, <2>2, <2>3, AnswerStep DEF MarkCompleted
  <2>4. CASE MarkFails(r)
    BY <2>1, <2>2, <2>4, AnswerStep DEF MarkFails
  <2> QED BY <1>4, <2>3, <2>4
<1>5. ASSUME NEW r \in Reqs, JoinPending(r) PROVE Invs'
  <2>1. /\ \A q \in Reqs \ {r} : pc'[q] = pc[q]
        /\ pc[r] = "checked" /\ pc'[r] = "waiting"
        /\ UNCHANGED <<hs, txn, found, completed, pending, started, processed>>
    BY <1>0, <1>5 DEF JoinPending, GoTo, TypeOK
  <2>2. KnownTxns' = KnownTxns /\ \A t : IsCompleted(t)' = IsCompleted(t)
    BY <2>1 DEF KnownTxns, IsCompleted
  <2>3. RequestInv' /\ OwnerInv'
    BY <1>0, <2>1 DEF RequestInv, OwnerInv
  <2>4. DoneInv' /\ RecordInv'
    BY <1>0, <2>1, <2>2 DEF DoneInv, RecordInv
  <2> QED BY <2>3, <2>4 DEF Invs
<1>6. ASSUME NEW r \in Reqs, StartProcessing(r) PROVE Invs'
  <2>1. /\ \A q \in Reqs \ {r} : pc'[q] = pc[q]
        /\ pc[r] = "checked" /\ ~found[r] /\ pc'[r] = "processing"
        /\ pending[txn[r]] = "none" /\ pending' = [pending EXCEPT ![txn[r]] = "running"]
        /\ started' = started \cup {txn[r]}
        /\ UNCHANGED <<hs, txn, found, completed, processed>>
    BY <1>0, <1>6 DEF StartProcessing, GoTo, TypeOK
  <2>2. txn[r] \in Txns /\ txn[r] \notin KnownTxns
    BY <1>0, <2>1 DEF RequestInv, RecordInv
  <2>3. txn[r] = hsTxn
    BY <1>0, <1>t, <2>1, <2>2 DEF RequestInv, RecordInv
  <2>4. /\ \A t \in Txns \ {txn[r]} : pending'[t] = pending[t]
        /\ pending'[txn[r]] = "running"
    BY <1>0, <2>1, <2>2 DEF TypeOK
  <2>5. KnownTxns' = KnownTxns /\ \A t : IsCompleted(t)' = IsCompleted(t)
    BY <2>1, <2>2, <2>4 DEF KnownTxns, IsCompleted
  <2>6. RequestInv'
    BY <1>0, <2>1 DEF RequestInv
  <2>7. DoneInv'
    BY <1>0, <2>1, <2>4, <2>5 DEF DoneInv, RequestInv
  <2>8. OwnerInv'
    <3>1. \A q \in Reqs \ {r} : pc'[q] = "processing" => txn[q] # txn[r] /\ txn[q] \in Txns
      BY <1>0, <2>1 DEF OwnerInv, RequestInv
    <3>2. \A t \in Txns : pending'[t] # "none" <=> t \in started'
      BY <1>0, <2>1, <2>4 DEF OwnerInv
    <3>3. \A q \in Reqs : pc'[q] = "processing" => pending'[txn[q]] = "running"
      BY <1>0, <2>1, <2>4, <3>1 DEF OwnerInv
    <3>4. \A t \in Txns : pending'[t] \in {"running", "hung"} => t = hsTxn
      BY <1>0, <2>3, <2>4 DEF OwnerInv
    <3> QED BY <1>0, <2>1, <3>1, <3>2, <3>3, <3>4 DEF OwnerInv
  <2>9. RecordInv'
    <3>1. ~IsCompleted(txn[r])
      BY <1>0, <2>2 DEF RecordInv
    <3>2. \A t \in Txns : IsCompleted(t)' => t \in KnownTxns' /\ pending'[t] \in {"none", "done"}
      BY <1>0, <2>4, <2>5, <3>1 DEF RecordInv
    <3>3. \A q \in Reqs \ {r} :
              pc'[q] = "checked" /\ ~found[q] /\ txn[q] \in KnownTxns
                  => pending'[txn[q]] = "done"
      BY <1>0, <2>1, <2>2, <2>4 DEF RecordInv, RequestInv
    <3> QED BY <1>0, <2>1, <2>5, <3>2, <3>3 DEF RecordInv
  <2> QED BY <2>6, <2>7, <2>8, <2>9 DEF Invs
<1>7. ASSUME NEW r \in Reqs, ProcessPart(r) PROVE Invs'
  BY <1>0, <1>7 DEF ProcessPart, Invs, RequestInv, DoneInv, OwnerInv, RecordInv,
                    KnownTxns, IsCompleted
<1>8. ASSUME NEW r \in Reqs,
             \/ FinishProcessing(r)
             \/ PartFails(r) /\ ~DiesOnUnhandled
      PROVE  Invs'
  <2>1. /\ \A q \in Reqs \ {r} : pc'[q] = pc[q]
        /\ pc[r] = "processing"
        /\ UNCHANGED <<hs, txn, found, completed, started>>
        /\ \/ /\ pc'[r] = "marking" /\ pending' = [pending EXCEPT ![txn[r]] = "done"]
              /\ processed' = processed \cup {txn[r]}
           \/ /\ pc'[r] = "lost" /\ pending' = [pending EXCEPT ![txn[r]] = "hung"]
              /\ processed' = processed
    BY <1>0, <1>8 DEF FinishProcessing, PartFails, GoTo, TypeOK
  <2>2. txn[r] \in Txns /\ pending[txn[r]] = "running" /\ txn[r] = hsTxn
    BY <1>0, <2>1 DEF RequestInv, OwnerInv
  <2>3. \A t \in Txns \ {txn[r]} : pending'[t] = pending[t]
    BY <1>0, <2>1, <2>2 DEF TypeOK
  <2>4. \/ pc'[r] = "marking" /\ pending'[txn[r]] = "done" /\ txn[r] \in processed'
        \/ pc'[r] = "lost" /\ pending'[txn[r]] = "hung"
    BY <1>0, <2>1, <2>2 DEF TypeOK
  <2>5. /\ \A t : IsCompleted(t)' = IsCompleted(t)
        /\ ~IsCompleted(txn[r])
        /\ KnownTxns \subseteq KnownTxns'
        /\ \A t \in KnownTxns' : t \in KnownTxns \/ (t = txn[r] /\ pending'[t] = "done")
    <3>1. \A t : IsCompleted(t)' = IsCompleted(t)
      BY <2>1 DEF IsCompleted
    <3>2. ~IsCompleted(txn[r])
      BY <1>0, <2>2 DEF RecordInv
    <3> QED BY <2>2, <2>3, <2>4, <3>1, <3>2 DEF KnownTxns
  <2>6. processed \subseteq processed'
    BY <2>1
  <2>7. RequestInv'
    BY <1>0, <2>1, <2>4 DEF RequestInv
  <2>8. DoneInv'
    BY <1>0, <2>1, <2>2, <2>3, <2>4, <2>5, <2>6 DEF DoneInv, RequestInv
  <2>9. OwnerInv'
    <3>1. \A q \in Reqs \ {r} : pc[q] = "processing" => txn[q] # txn[r] /\ txn[q] \in Txns
      BY <1>0, <2>1 DEF OwnerInv, RequestInv
    <3>2. pc'[r] # "processing"
      BY <2>4
    <3> QED BY <1>0, <2>1, <2>2, <2>3, <2>4, <3>1, <3>2 DEF OwnerInv
  <2>10. RecordInv'
    <3>1. \A t \in Txns : IsCompleted(t)' => t \in KnownTxns' /\ pending'[t] \in {"none", "done"}
      BY <1>0, <2>2, <2>3, <2>5 DEF RecordInv
    <3>2. \A q \in Reqs : pc'[q] = "checked" => q # r /\ txn[q] \in Txns
      BY <1>0, <2>1, <2>4 DEF RequestInv
    <3>3. \A q \in Reqs :
              pc'[q] = "checked" /\ ~found[q] /\ txn[q] \in KnownTxns' => pending'[txn[q]] = "done"
      BY <1>0, <2>1, <2>2, <2>3, <2>4, <2>5, <3>2 DEF RecordInv
    <3>4. \A q \in Reqs : pc'[q] \in {"checking", "checked"} => q # r
      BY <2>4
    <3> QED BY <1>0, <2>1, <2>5, <3>1, <3>2, <3>3, <3>4 DEF RecordInv
  <2> QED BY <2>7, <2>8, <2>9, <2>10 DEF Invs
<1>9. ASSUME NEW r \in Reqs, CheckFails(r), ~DiesOnUnhandled PROVE Invs'
  <2>1. /\ \A q \in Reqs \ {r} : pc'[q] = pc[q]
        /\ pc[r] = "checking" /\ pc'[r] = "lost"
        /\ UNCHANGED <<hs, txn, found, completed, pending, started, processed>>
    BY <1>0, <1>9 DEF CheckFails, GoTo, TypeOK
  <2>2. KnownTxns' = KnownTxns /\ \A t : IsCompleted(t)' = IsCompleted(t)
    BY <2>1 DEF KnownTxns, IsCompleted
  <2>3. RequestInv' /\ OwnerInv'
    BY <1>0, <2>1 DEF RequestInv, OwnerInv
  <2>4. DoneInv' /\ RecordInv'
    BY <1>0, <2>1, <2>2 DEF DoneInv, RecordInv
  <2> QED BY <2>3, <2>4 DEF Invs
<1>10. CASE Restart
  BY <1>10, RestartStep
<1>11. CASE GiveUp
  BY <1>0, <1>11 DEF GiveUp, Invs, RequestInv, DoneInv, OwnerInv, RecordInv,
                     KnownTxns, IsCompleted
<1>12. CASE UNCHANGED vars
  BY <1>0, <1>12 DEF vars, Invs, RequestInv, DoneInv, OwnerInv, RecordInv,
                     KnownTxns, IsCompleted
<1>13. ASSUME NEW r \in Reqs, CheckFails(r) \/ PartFails(r) PROVE Invs'
  <2>1. CASE Restart
    BY <2>1, <1>10
  <2>2. CASE ~DiesOnUnhandled
    BY <1>8, <1>9, <1>13, <2>2
  <2> QED BY <1>13, <2>1, <2>2 DEF CheckFails, PartFails
<1> QED
  BY <1>1, <1>2, <1>3, <1>4, <1>5, <1>6, <1>7, <1>8, <1>10, <1>11, <1>12, <1>13
     DEF Next, Progress, Crash

LEMMA Inductive == IInv /\ [Next]_vars => IInv'
BY TypeStep, InvStep DEF IInv, Invs

-----------------------------------------------------------------------------
(* Theorems                                                                 *)

\* Every reachable state of handlers, record and homeserver is well-formed.
THEOREM TypeCorrect == Spec => []TypeOK
<1>1. IInv => TypeOK
  BY DEF IInv
<1> QED BY InitInv, Inductive, <1>1, PTL DEF Spec

\* Two transactions are never processed at the same time, with any number of
\* overlapping retries: the homeserver gets no 200 for a transaction that is
\* still being processed, so it does not send the next one.
THEOREM NeverInterleaved == Spec => []OneAtATime
<1>1. IInv => OneAtATime
  <2> SUFFICES ASSUME IInv, NEW r \in Reqs, NEW q \in Reqs,
                      pc[r] = "processing", pc[q] = "processing"
               PROVE  r = q
    BY DEF OneAtATime
  <2>1. txn[r] \in Txns /\ txn[q] \in Txns
    BY DEF IInv, RequestInv
  <2>2. txn[r] = hsTxn /\ txn[q] = hsTxn
    BY <2>1 DEF IInv, OwnerInv
  <2> QED BY <2>2 DEF IInv, OwnerInv
<1> QED BY InitInv, Inductive, <1>1, PTL DEF Spec

\* A transaction that hangs is never acknowledged.
THEOREM NeverAckedWhenHung == Spec => []HungIsNotAcked
<1>1. IInv => HungIsNotAcked
  BY DEF IInv, OwnerInv, HungIsNotAcked
<1> QED BY InitInv, Inductive, <1>1, PTL DEF Spec

\* A step that begins the processing of a transaction is StartProcessing.
LEMMA OnlyStartStarts ==
    ASSUME IInv, [Next]_vars, NEW r \in Reqs, Starts(r)
    PROVE  StartProcessing(r)
<1> USE DEF Starts, hs, handlers, history
<1>0. pc \in [Reqs -> HandlerPcs]
  BY DEF IInv, TypeOK
<1>1. ASSUME NEW q \in Reqs, pc' = [pc EXCEPT ![q] = pc'[q]], pc'[q] # "processing"
      PROVE  FALSE
  BY <1>0, <1>1
<1>2. \A q \in Reqs : Send(q) => FALSE
  BY <1>0, <1>1 DEF Send
<1>3. \A q \in Reqs : Progress(q) => q = r /\ StartProcessing(q)
  <2> SUFFICES ASSUME NEW q \in Reqs, Progress(q) PROVE q = r /\ StartProcessing(q)
    OBVIOUS
  <2>1. CASE StartProcessing(q)
    BY <1>0, <2>1 DEF StartProcessing, GoTo
  <2>2. ~ProcessPart(q)
    BY DEF ProcessPart
  <2>3. CASE ~StartProcessing(q)
    BY <1>0, <1>1, <2>2, <2>3
       DEF Progress, CheckCompleted, AnswerKnown, JoinPending, FinishProcessing,
           MarkCompleted, AnswerJoined, Answer, EndHandler, GoTo
  <2> QED BY <2>1, <2>3
<1>4. ~Restart
  BY DEF Restart
<1>5. \A q \in Reqs : ~CheckFails(q) /\ ~PartFails(q) /\ ~MarkFails(q)
  BY <1>0, <1>1, <1>4 DEF CheckFails, PartFails, MarkFails, GoTo, Answer, EndHandler
<1>6. ~GiveUp /\ ~Crash /\ ~UNCHANGED vars
  BY <1>4 DEF GiveUp, Crash, vars
<1> QED
  BY <1>2, <1>3, <1>5, <1>6 DEF Next

\* In one process no transaction is begun twice, although every entry of
\* pendingTransactions may be asked for at any time and the record rotates.
THEOREM BegunOnce == Spec => OncePerProcess
<1>1. IInv /\ [Next]_vars => [\A r \in Reqs : Starts(r) => txn[r] \notin started]_vars
  <2> SUFFICES ASSUME IInv, [Next]_vars, NEW r \in Reqs, Starts(r)
               PROVE  txn[r] \notin started
    OBVIOUS
  <2>1. StartProcessing(r)
    BY OnlyStartStarts
  <2>2. pending[txn[r]] = "none" /\ txn[r] \in Txns
    BY <2>1 DEF StartProcessing, IInv, RequestInv
  <2> QED BY <2>2 DEF IInv, OwnerInv
<1> QED BY InitInv, Inductive, <1>1, PTL DEF Spec, OncePerProcess

\* A recorded transaction is not processed again, in this process or, when the
\* record is on disk, in a later one.
THEOREM NotReplayed == Spec => NoReplay
<1>1. IInv /\ [Next]_vars => [\A r \in Reqs : Starts(r) => ~IsCompleted(txn[r])]_vars
  <2> SUFFICES ASSUME IInv, [Next]_vars, NEW r \in Reqs, Starts(r)
               PROVE  ~IsCompleted(txn[r])
    OBVIOUS
  <2>1. pc[r] = "checked" /\ ~found[r] /\ pending[txn[r]] = "none"
    BY OnlyStartStarts DEF StartProcessing
  <2>2. txn[r] \in Txns
    BY <2>1 DEF IInv, RequestInv
  <2> QED BY <2>1, <2>2 DEF IInv, RecordInv
<1> QED BY InitInv, Inductive, <1>1, PTL DEF Spec, NoReplay

\* The appservice is an at-least-once stream: the homeserver's acknowledged
\* prefix was processed in full, whatever failed, hung, crashed or was retried.
THEOREM RefinesStream == Spec => StreamRefined
<1>1. Init => Stream!Init
  BY DEF Init, Stream!Init
<1>2. ASSUME IInv, IInv', [Next]_vars
      PROVE  [Stream!Next]_(Stream!streamVars)
  <2> USE DEF hs, handlers, history
  <2>0. MaxTxn \in Nat /\ hsTxn \in 1..(MaxTxn + 1) /\ hsTxn' \in 1..(MaxTxn + 1)
    BY <1>2, TxnAssumption DEF IInv, TypeOK
  <2>1. CASE processed' = processed
    <3>1. 1..(hsTxn' - 1) \subseteq processed
      <4>1. \A t \in Txns : t < hsTxn' => t \in processed'
        BY <1>2 DEF IInv, DoneInv
      <4>2. \A n \in 1..(MaxTxn + 1) : \A t \in 1..(n - 1) : t \in Txns /\ t < n
        BY <2>0
      <4>3. \A t \in 1..(hsTxn' - 1) : t \in Txns /\ t < hsTxn'
        BY <2>0, <4>2, Zenon
      <4> QED BY <2>1, <4>1, <4>3, Zenon
    <3>2. Stream!Ack(hsTxn' - 1)
      BY <2>1, <3>1 DEF Stream!Ack
    <3> QED BY <2>0, <3>2 DEF Stream!Next
  <2>2. CASE processed' # processed
    <3>1. PICK r \in Reqs : FinishProcessing(r)
      <4>1. \A r \in Reqs :
                /\ ~Send(r) /\ ~CheckCompleted(r) /\ ~AnswerKnown(r) /\ ~JoinPending(r)
                /\ ~StartProcessing(r) /\ ~ProcessPart(r) /\ ~MarkCompleted(r)
                /\ ~AnswerJoined(r)
        <5> SUFFICES ASSUME NEW r \in Reqs
                     PROVE  /\ ~Send(r) /\ ~CheckCompleted(r) /\ ~AnswerKnown(r)
                            /\ ~JoinPending(r) /\ ~StartProcessing(r) /\ ~ProcessPart(r)
                            /\ ~MarkCompleted(r) /\ ~AnswerJoined(r)
          OBVIOUS
        <5>1. ~Send(r) /\ ~CheckCompleted(r) /\ ~JoinPending(r) /\ ~ProcessPart(r)
          BY <2>2 DEF Send, CheckCompleted, JoinPending, ProcessPart
        <5>2. ~StartProcessing(r)
          BY <2>2 DEF StartProcessing
        <5>3. ~AnswerKnown(r) /\ ~AnswerJoined(r) /\ ~MarkCompleted(r)
          BY <2>2 DEF AnswerKnown, AnswerJoined, MarkCompleted
        <5> QED BY <5>1, <5>2, <5>3
      <4>2. \A r \in Reqs : ~CheckFails(r) /\ ~PartFails(r) /\ ~MarkFails(r)
        BY <2>2 DEF CheckFails, PartFails, MarkFails, Restart
      <4>3. ~GiveUp /\ ~Crash /\ ~UNCHANGED vars
        BY <2>2 DEF GiveUp, Crash, Restart, vars
      <4> QED BY <1>2, <4>1, <4>2, <4>3 DEF Next, Progress
    <3>2. txn[r] \in Txns
      BY <1>2, <3>1 DEF FinishProcessing, IInv, RequestInv
    <3>3. Stream!Deliver(txn[r])
      BY <3>1 DEF FinishProcessing, Stream!Deliver
    <3> QED BY <3>2, <3>3 DEF Stream!Next
  <2> QED BY <2>1, <2>2
<1> QED
  BY InitInv, Inductive, <1>1, <1>2, PTL DEF Spec, StreamRefined, Stream!Spec
=============================================================================
