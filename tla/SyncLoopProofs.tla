---------------------------- MODULE SyncLoopProofs ----------------------------
(***************************************************************************)
(* Theorems about SyncLoop, for every number of slots, stream length, set    *)
(* of filters and set of faults.                                            *)
(***************************************************************************)
EXTENDS SyncLoop, TLAPS

USE DEF Token, AnyFilter, Position

\* Reading a token gives a position of the stream.
LEMMA AtType ==
    /\ \A tok \in Token : At(tok) \in 0..MaxPos
    /\ At(NoToken) = 0
    /\ \A at \in 0..MaxPos, f \in AnyFilter : At([at |-> at, under |-> f]) = at
BY SyncAssumption DEF At

\* The variables of a slot, which TypeOK constrains together
LoopType ==
    /\ pc \in [Slots -> {"idle"} \cup StartPcs \cup LoopPcs]
    /\ want \in [Slots -> AnyFilter]
    /\ token \in [Slots -> Token]
    /\ asked \in [Slots -> AnyFilter]
    /\ cur \in [Slots -> 0..MaxPos]

\* Where a slot goes next keeps the types of its variables.
LEMMA LoopHeadType ==
    ASSUME TypeOK, NEW s \in Slots, NEW tok \in Token, LoopHead(s, tok)
    PROVE  LoopType'
<1>1. CASE stopSyncing
  BY <1>1, SyncAssumption DEF TypeOK, LoopHead, End, LoopType
<1>2. CASE ~stopSyncing
  <2>1. At(tok) \in 0..MaxPos
    BY AtType
  <2> QED
    BY <1>2, <2>1 DEF TypeOK, LoopHead, LoopType, LoopPcs
<1> QED
  BY <1>1, <1>2

LEMMA EndType ==
    ASSUME TypeOK, NEW s \in Slots, End(s)
    PROVE  LoopType'
BY SyncAssumption DEF TypeOK, End, LoopType

LEMMA GoToType ==
    ASSUME TypeOK, NEW s \in Slots, NEW l \in StartPcs \cup LoopPcs, GoTo(s, l)
    PROVE  LoopType'
BY DEF TypeOK, GoTo, LoopType

\* The state is well-formed initially and after every step.
LEMMA TypeInit == Init => TypeOK
<1> SUFFICES ASSUME Init PROVE TypeOK
  OBVIOUS
<1>1. 0 \in 0..MaxPos /\ NoToken \in Token /\ NoFilter \in AnyFilter
  BY SyncAssumption
<1>2. stopSyncing \in BOOLEAN
  BY DEF Init
<1>3. head \in 0..MaxPos /\ stored \in Token /\ storedFilter \in AnyFilter /\ filterId \in AnyFilter
  BY <1>1 DEF Init
<1>4. LoopType
  BY <1>1 DEF Init, LoopType
<1> QED
  BY <1>2, <1>3, <1>4 DEF Init, TypeOK, LoopType

LEMMA TypeStep == TypeOK /\ [Next]_vars => TypeOK'
<1> SUFFICES ASSUME TypeOK, [Next]_vars
             PROVE  TypeOK'
  OBVIOUS
<1> USE DEF storage, loopVars, history
<1>a. ASSUME NEW s \in Slots, NEW f \in Filters, Start(s, f) PROVE TypeOK'
  BY <1>a DEF TypeOK, Start, StartPcs
<1>b. ASSUME NEW s \in Slots, ClearStop(s) PROVE TypeOK'
  <2>1. LoopType' BY <1>b, GoToType DEF ClearStop, StartPcs
  <2> QED BY <1>b, <2>1 DEF TypeOK, ClearStop, LoopType
<1>c. ASSUME NEW s \in Slots, CompareFilter(s) PROVE TypeOK'
  <2>1. LoopType' BY <1>c, GoToType DEF CompareFilter, StartPcs
  <2> QED BY <1>c, <2>1 DEF TypeOK, CompareFilter, LoopType
<1>d. ASSUME NEW s \in Slots, CreateFilter(s) PROVE TypeOK'
  <2>1. LoopType' BY <1>d, GoToType DEF CreateFilter, StartPcs
  <2> QED BY <1>d, <2>1 DEF TypeOK, CreateFilter, LoopType
<1>e. ASSUME NEW s \in Slots, ResetToken(s) PROVE TypeOK'
  <2>1. LoopType' BY <1>e, GoToType DEF ResetToken, StartPcs
  <2> QED BY <1>e, <2>1 DEF TypeOK, ResetToken, LoopType
<1>f. ASSUME NEW s \in Slots, RecordFilter(s) PROVE TypeOK'
  <2>1. LoopType' BY <1>f, GoToType DEF RecordFilter, StartPcs
  <2> QED BY <1>f, <2>1 DEF TypeOK, RecordFilter, LoopType
<1>g. ASSUME NEW s \in Slots, ReadToken(s) PROVE TypeOK'
  <2>1. LoopType' BY <1>g, LoopHeadType DEF ReadToken, TypeOK
  <2> QED BY <1>g, <2>1 DEF TypeOK, ReadToken, LoopType
<1>h. ASSUME NEW s \in Slots, StartFails(s) PROVE TypeOK'
  <2>1. LoopType' BY <1>h, EndType DEF StartFails
  <2> QED BY <1>h, <2>1 DEF TypeOK, StartFails, LoopType
<1>i. ASSUME NEW s \in Slots, NEW to \in 0..MaxPos, Respond(s, to) PROVE TypeOK'
  BY <1>i DEF TypeOK, Respond, LoopPcs
<1>j. ASSUME NEW s \in Slots, Save(s) PROVE TypeOK'
  <2>1. LoopType' BY <1>j, LoopHeadType, GoToType DEF Save, TypeOK, LoopPcs
  <2> QED BY <1>j, <2>1 DEF TypeOK, Save, LoopType
<1>k. ASSUME NEW s \in Slots, Dispatch(s) PROVE TypeOK'
  <2>1. At(token[s]) \in 0..MaxPos /\ cur[s] \in 0..MaxPos
    BY AtType DEF TypeOK
  <2>2. cur[s] + 1 \in 1..MaxPos
    BY <1>k, <2>1, SyncAssumption DEF Dispatch
  <2>3. cur' \in [Slots -> 0..MaxPos]
    BY <1>k, <2>2, SyncAssumption DEF TypeOK, Dispatch
  <2>4. emitted' \subseteq Position /\ since' \subseteq Position
    BY <1>k, <2>2 DEF TypeOK, Dispatch
  <2> QED BY <1>k, <2>3, <2>4 DEF TypeOK, Dispatch
<1>l. ASSUME NEW s \in Slots, Processed(s) PROVE TypeOK'
  <2>1. LoopType' BY <1>l, LoopHeadType, GoToType DEF Processed, TypeOK, LoopPcs
  <2> QED BY <1>l, <2>1 DEF TypeOK, Processed, LoopType
<1>m. ASSUME NEW s \in Slots, LoopFails(s) PROVE TypeOK'
  <2>1. LoopType' BY <1>m, EndType, GoToType DEF LoopFails, LoopPcs
  <2> QED BY <1>m, <2>1 DEF TypeOK, LoopFails, LoopType
<1>n. ASSUME NEW s \in Slots, Retry(s) PROVE TypeOK'
  <2>1. LoopType' BY <1>n, LoopHeadType DEF Retry, TypeOK
  <2> QED BY <1>n, <2>1 DEF TypeOK, Retry, LoopType
<1>o. CASE Stop
  BY <1>o DEF TypeOK, Stop
<1>p. CASE Crash
  <2>1. 0 \in 0..MaxPos /\ NoToken \in Token /\ NoFilter \in AnyFilter
    BY SyncAssumption
  <2>2. LoopType'
    BY <1>p, <2>1 DEF Crash, LoopType
  <2> QED
    BY <1>p, <2>1, <2>2 DEF TypeOK, LoopType, Crash
<1>q. CASE NewEvent
  BY <1>q, SyncAssumption DEF TypeOK, NewEvent
<1>r. CASE UNCHANGED vars
  BY <1>r DEF TypeOK, vars
<1> QED
  BY <1>a, <1>b, <1>c, <1>d, <1>e, <1>f, <1>g, <1>h, <1>i, <1>j, <1>k, <1>l,
     <1>m, <1>n, <1>o, <1>p, <1>q, <1>r DEF Next, Proceed

\* Every reachable state of the client, the storage and the stream is
\* well-formed: no position beyond the stream, no await point the code lacks.
THEOREM TypeCorrect == Spec => []TypeOK
BY TypeInit, TypeStep, PTL DEF Spec

-----------------------------------------------------------------------------
(* persistTokenAfterSync: at-least-once delivery                            *)

\* What a slot still holds is covered: everything up to its token was
\* dispatched, or up to cur while the response is being processed.
SlotCovered(s) ==
    /\ pc[s] \in {"syncing", "saving", "backoff"} => 1..At(token[s]) \subseteq emitted
    /\ pc[s] = "syncing" => cur[s] = At(token[s])
    /\ pc[s] = "processing" =>
           1..cur[s] \subseteq emitted /\ cur[s] <= At(token[s])

Covered == AckedIsDelivered /\ \A s \in Slots : SlotCovered(s)

AtLeastOnceMode == PersistAfter /\ "handler" \notin Faults

LEMMA CoveredInit == Init => Covered
<1> SUFFICES ASSUME Init PROVE Covered
  OBVIOUS
<1>1. At(stored) = 0
  BY AtType DEF Init
<1>2. \A s \in Slots : pc[s] = "idle"
  BY DEF Init
<1> QED
  BY <1>1, <1>2 DEF Covered, AckedIsDelivered, SlotCovered

\* A loop that goes back to its head with a covered token stays covered.
LEMMA LoopHeadCovered ==
    ASSUME TypeOK, NEW s \in Slots, NEW tok \in Token, LoopHead(s, tok),
           1..At(tok) \subseteq emitted, emitted' = emitted
    PROVE  SlotCovered(s)'
<1>1. CASE stopSyncing
  BY <1>1 DEF TypeOK, LoopHead, End, SlotCovered
<1>2. CASE ~stopSyncing
  <2>1. pc'[s] = "syncing" /\ token'[s] = tok /\ cur'[s] = At(tok)
    BY <1>2, AtType DEF TypeOK, LoopHead
  <2> QED
    BY <2>1 DEF SlotCovered, At
<1> QED
  BY <1>1, <1>2

\* A slot that does not move stays covered: emitted only grows.
LEMMA OtherCovered ==
    ASSUME NEW s \in Slots, SlotCovered(s), emitted \subseteq emitted',
           pc'[s] = pc[s], token'[s] = token[s], cur'[s] = cur[s]
    PROVE  SlotCovered(s)'
BY DEF SlotCovered, At

\* A step of slot s leaves the others where they are.
LEMMA OneSlot ==
    ASSUME TypeOK, NEW s \in Slots,
           Proceed(s) \/ StartFails(s) \/ LoopFails(s) \/ \E f \in Filters : Start(s, f)
    PROVE  \A q \in Slots \ {s} :
               pc'[q] = pc[q] /\ token'[q] = token[q] /\ cur'[q] = cur[q]
BY DEF TypeOK, Proceed, StartFails, LoopFails, Start, ClearStop, CompareFilter,
       CreateFilter, ResetToken, RecordFilter, ReadToken, Respond, Save, Dispatch,
       Processed, Retry, LoopHead, End, GoTo

LEMMA CoveredStep ==
    ASSUME AtLeastOnceMode, TypeOK, TypeOK', Covered, [Next]_vars
    PROVE  Covered'
<1> USE DEF storage, loopVars, history
\* It is enough to look at the slot that moves and at the stored token.
<1>0. ASSUME NEW s \in Slots,
             Proceed(s) \/ StartFails(s) \/ LoopFails(s) \/ (\E f \in Filters : Start(s, f)),
             SlotCovered(s)', emitted \subseteq emitted', AckedIsDelivered'
      PROVE  Covered'
  BY <1>0, OneSlot, OtherCovered DEF Covered
<1>1. ASSUME NEW s \in Slots, NEW f \in Filters, Start(s, f) PROVE Covered'
  <2>1. SlotCovered(s)'
    BY <1>1 DEF Start, TypeOK, SlotCovered
  <2> QED BY <1>1, <1>0, <2>1 DEF Start, Covered, AckedIsDelivered, At
<1>2. ASSUME NEW s \in Slots,
             \/ ClearStop(s) \/ CompareFilter(s) \/ CreateFilter(s)
             \/ ResetToken(s) \/ RecordFilter(s)
      PROVE  Covered'
  <2>1. pc'[s] \in StartPcs /\ emitted' = emitted /\ Proceed(s)
    BY <1>2 DEF ClearStop, CompareFilter, CreateFilter, ResetToken, RecordFilter,
                GoTo, TypeOK, StartPcs, Proceed
  <2>2. SlotCovered(s)'
    BY <2>1 DEF StartPcs, SlotCovered
  <2>3. stored' = stored \/ stored' = NoToken
    BY <1>2 DEF ClearStop, CompareFilter, CreateFilter, ResetToken, RecordFilter
  <2>4. AckedIsDelivered'
    BY <2>1, <2>3, AtType DEF Covered, AckedIsDelivered, At
  <2> QED BY <1>0, <2>1, <2>2, <2>4
<1>3. ASSUME NEW s \in Slots, ReadToken(s) PROVE Covered'
  <2>1. SlotCovered(s)'
    BY <1>3, LoopHeadCovered DEF ReadToken, TypeOK, Covered, AckedIsDelivered
  <2> QED BY <1>3, <1>0, <2>1 DEF ReadToken, Proceed, Covered, AckedIsDelivered, At
<1>4. ASSUME NEW s \in Slots, StartFails(s) \/ LoopFails(s) PROVE Covered'
  <2>1. \/ pc'[s] = "idle"
        \/ pc[s] \in {"syncing", "saving"} /\ pc'[s] = "backoff" /\ token'[s] = token[s]
    BY <1>4 DEF StartFails, LoopFails, End, GoTo, TypeOK, AtLeastOnceMode
  <2>2. emitted' = emitted /\ stored' = stored
    BY <1>4 DEF StartFails, LoopFails
  <2>3. SlotCovered(s)'
    BY <2>1, <2>2 DEF SlotCovered, Covered, At
  <2> QED BY <1>4, <1>0, <2>2, <2>3 DEF Covered, AckedIsDelivered, At
<1>5. ASSUME NEW s \in Slots, NEW to \in 0..MaxPos, Respond(s, to) PROVE Covered'
  <2>1. /\ pc'[s] = "processing" /\ cur'[s] = cur[s]
        /\ token'[s] = [at |-> to, under |-> asked[s]]
        /\ emitted' = emitted /\ stored' = stored
    BY <1>5 DEF Respond, TypeOK, AtLeastOnceMode
  <2>2. At(token[s]) \in 0..MaxPos /\ cur[s] = At(token[s]) /\ At(token[s]) <= to
    BY <1>5, AtType, SyncAssumption DEF Respond, TypeOK, Covered, SlotCovered
  <2>3. asked[s] \in AnyFilter
    BY DEF TypeOK
  <2>4. At(token[s])' = to
    BY <2>1, <2>3, AtType DEF At
  <2>5. 1..cur[s] \subseteq emitted
    BY <1>5, <2>2 DEF Respond, Covered, SlotCovered
  <2>6. SlotCovered(s)'
    BY <2>1, <2>2, <2>4, <2>5 DEF SlotCovered
  <2> QED BY <1>5, <1>0, <2>1, <2>6 DEF Proceed, Covered, AckedIsDelivered, At
<1>6. ASSUME NEW s \in Slots, Save(s) PROVE Covered'
  <2>1. LoopHead(s, token[s]) /\ token[s] \in Token /\ stored' = token[s] /\ emitted' = emitted
    BY <1>6 DEF Save, TypeOK, AtLeastOnceMode
  <2>2. 1..At(token[s]) \subseteq emitted
    BY <1>6 DEF Save, Covered, SlotCovered
  <2>3. SlotCovered(s)'
    BY <2>1, <2>2, LoopHeadCovered
  <2> QED BY <1>6, <1>0, <2>1, <2>2, <2>3 DEF Proceed, AckedIsDelivered, At
<1>7. ASSUME NEW s \in Slots, Dispatch(s) PROVE Covered'
  <2>1. /\ pc'[s] = "processing" /\ cur'[s] = cur[s] + 1 /\ token'[s] = token[s]
        /\ emitted' = emitted \cup {cur[s] + 1} /\ stored' = stored
    BY <1>7 DEF Dispatch, TypeOK
  <2>2. cur[s] \in 0..MaxPos /\ At(token[s]) \in 0..MaxPos /\ cur[s] < At(token[s])
    BY <1>7, AtType DEF Dispatch, TypeOK
  <2>3. 1..cur[s] \subseteq emitted
    BY <1>7 DEF Dispatch, Covered, SlotCovered
  <2>4. 1..(cur[s] + 1) \subseteq emitted \cup {cur[s] + 1} /\ cur[s] + 1 <= At(token[s])
    BY <2>2, <2>3, SyncAssumption
  <2>5. SlotCovered(s)'
    BY <2>1, <2>4 DEF SlotCovered, At
  <2> QED BY <1>7, <1>0, <2>1, <2>5 DEF Proceed, Covered, AckedIsDelivered, At
<1>8. ASSUME NEW s \in Slots, Processed(s) PROVE Covered'
  <2>1. /\ pc'[s] = "saving" /\ token'[s] = token[s] /\ cur[s] = At(token[s])
        /\ emitted' = emitted /\ stored' = stored
    BY <1>8 DEF Processed, GoTo, TypeOK, AtLeastOnceMode
  <2>2. 1..At(token[s]) \subseteq emitted
    BY <1>8, <2>1 DEF Processed, Covered, SlotCovered
  <2>3. SlotCovered(s)'
    BY <2>1, <2>2 DEF SlotCovered, At
  <2> QED BY <1>8, <1>0, <2>1, <2>3 DEF Proceed, Covered, AckedIsDelivered, At
<1>9. ASSUME NEW s \in Slots, Retry(s) PROVE Covered'
  <2>1. SlotCovered(s)'
    BY <1>9, LoopHeadCovered DEF Retry, TypeOK, Covered, SlotCovered
  <2> QED BY <1>9, <1>0, <2>1 DEF Retry, Proceed, Covered, AckedIsDelivered, At
<1>10. CASE Stop \/ NewEvent \/ UNCHANGED vars
  <2>1. emitted' = emitted /\ stored' = stored /\ UNCHANGED <<pc, token, cur>>
    BY <1>10 DEF Stop, NewEvent, vars
  <2> QED BY <2>1, OtherCovered DEF Covered, AckedIsDelivered, At
<1>11. CASE Crash
  <2>1. emitted' = emitted /\ stored' = stored /\ \A s \in Slots : pc'[s] = "idle"
    BY <1>11 DEF Crash
  <2> QED BY <2>1 DEF Covered, AckedIsDelivered, SlotCovered, At
<1> QED
  BY <1>1, <1>2, <1>3, <1>4, <1>5, <1>6, <1>7, <1>8, <1>9, <1>10, <1>11
     DEF Next, Proceed

\* persistTokenAfterSync loses nothing: with any number of overlapping loops,
\* crashes, failed requests and failed writes, the persisted token covers only
\* what was dispatched - provided that processSync itself does not throw.
THEOREM AtLeastOnce ==
    ASSUME AtLeastOnceMode
    PROVE  Spec => []AckedIsDelivered
<1>1. Init => TypeOK /\ Covered
  BY TypeInit, CoveredInit
<1>2. TypeOK /\ Covered /\ [Next]_vars => (TypeOK /\ Covered)'
  BY TypeStep, CoveredStep
<1>3. Covered => AckedIsDelivered
  BY DEF Covered
<1> QED
  BY <1>1, <1>2, <1>3, PTL DEF Spec

\* The same as a refinement: with persistTokenAfterSync every step of the
\* client is a delivery, an acknowledgement of what was delivered, or a reset.
LEMMA AfterRefinesStep ==
    ASSUME AtLeastOnceMode, TypeOK, TypeOK', Covered, [Next]_vars
    PROVE  [Stream!Next]_(Stream!streamVars)
<1> USE DEF storage, loopVars, history
<1>a. PersistAfter
  BY DEF AtLeastOnceMode
<1>1. ASSUME UNCHANGED <<emitted, stored>> PROVE UNCHANGED Stream!streamVars
  BY <1>1, <1>a DEF Stream!streamVars, At
<1>2. ASSUME NEW s \in Slots, ResetToken(s) PROVE Stream!Next
  <2>1. At(stored)' = 0 /\ emitted' = emitted
    BY <1>2, AtType DEF ResetToken, At
  <2>2. Stream!Reset
    BY <2>1, <1>a DEF Stream!Reset
  <2> QED BY <2>2 DEF Stream!Next
<1>3. ASSUME NEW s \in Slots, Save(s) PROVE Stream!Next
  <2>1. At(stored)' = At(token[s]) /\ emitted' = emitted
    BY <1>3 DEF Save, At
  <2>2. At(token[s]) \in 0..MaxPos
    BY AtType DEF TypeOK
  <2>3. 1..At(token[s]) \subseteq emitted
    BY <1>3 DEF Save, Covered, SlotCovered
  <2>4. Stream!Ack(At(token[s]))
    BY <2>1, <2>3, <1>a DEF Stream!Ack
  <2> QED BY <2>2, <2>4 DEF Stream!Next
<1>4. ASSUME NEW s \in Slots, Dispatch(s) PROVE Stream!Next
  <2>1. cur[s] \in 0..MaxPos /\ At(token[s]) \in 0..MaxPos /\ cur[s] < At(token[s])
    BY <1>4, AtType DEF Dispatch, TypeOK
  <2>2. cur[s] + 1 \in 1..MaxPos
    BY <2>1, SyncAssumption
  <2>3. Stream!Deliver(cur[s] + 1)
    BY <1>4, <1>a DEF Stream!Deliver, Dispatch, At
  <2> QED BY <2>2, <2>3 DEF Stream!Next
<1>5. ASSUME NEW s \in Slots,
             \/ \E f \in Filters : Start(s, f)
             \/ ClearStop(s) \/ CompareFilter(s) \/ CreateFilter(s)
             \/ RecordFilter(s) \/ ReadToken(s) \/ StartFails(s)
             \/ \E to \in 0..MaxPos : Respond(s, to)
             \/ Processed(s) \/ LoopFails(s) \/ Retry(s)
      PROVE  UNCHANGED <<emitted, stored>>
  BY <1>5 DEF Start, ClearStop, CompareFilter, CreateFilter, RecordFilter, ReadToken,
              StartFails, Respond, Processed, LoopFails, Retry
<1>6. ASSUME Stop \/ Crash \/ NewEvent \/ UNCHANGED vars
      PROVE  UNCHANGED <<emitted, stored>>
  BY <1>6 DEF Stop, Crash, NewEvent, vars
<1> QED
  BY <1>1, <1>2, <1>3, <1>4, <1>5, <1>6 DEF Next, Proceed

\* With persistTokenAfterSync the client implements the at-least-once stream.
THEOREM RefinesAtLeastOnce ==
    ASSUME AtLeastOnceMode
    PROVE  Spec => StreamRefined
<1>1. Init => Stream!Init
  BY AtType DEF Init, Stream!Init, AtLeastOnceMode
<1>2. Init => TypeOK /\ Covered
  BY TypeInit, CoveredInit
<1>3. TypeOK /\ Covered /\ [Next]_vars => (TypeOK /\ Covered)'
  BY TypeStep, CoveredStep
<1>4. TypeOK /\ TypeOK' /\ Covered /\ [Next]_vars => [Stream!Next]_(Stream!streamVars)
  BY AfterRefinesStep
<1> QED
  BY <1>1, <1>2, <1>3, <1>4, PTL DEF Spec, StreamRefined, Stream!Spec

-----------------------------------------------------------------------------
(* The default mode, one loop at a time: at-most-once delivery              *)

\* What the only slot holds is ahead of everything dispatched since the token
\* was reset, and the storage is not ahead of it.
SlotAhead(s) ==
    /\ pc[s] \in {"syncing", "saving"} =>
           /\ cur[s] <= At(token[s]) /\ At(stored) <= At(token[s])
           /\ since \subseteq 1..cur[s]
    /\ pc[s] = "syncing" => cur[s] = At(token[s])
    /\ pc[s] = "processing" =>
           /\ cur[s] <= At(token[s]) /\ At(stored) = At(token[s])
           /\ since \subseteq 1..cur[s]
    /\ pc[s] = "backoff" =>
           At(stored) <= At(token[s]) /\ since \subseteq 1..At(token[s])

Ahead == since \subseteq 1..At(stored) /\ \A s \in Slots : SlotAhead(s)

AtMostOnceMode == ~PersistAfter /\ \A s, q \in Slots : s = q

LEMMA AheadInit == Init => Ahead
BY DEF Init, Ahead, SlotAhead

\* A loop that goes back to its head with a token that everything dispatched
\* is below of stays ahead.
LEMMA LoopHeadAhead ==
    ASSUME TypeOK, NEW s \in Slots, NEW tok \in Token, LoopHead(s, tok),
           since \subseteq 1..At(tok), At(stored)' <= At(tok), since' = since
    PROVE  SlotAhead(s)'
<1>1. CASE stopSyncing
  BY <1>1 DEF TypeOK, LoopHead, End, SlotAhead
<1>2. CASE ~stopSyncing
  <2>1. pc'[s] = "syncing" /\ token'[s] = tok /\ cur'[s] = At(tok)
    BY <1>2, AtType DEF TypeOK, LoopHead
  <2>2. At(token[s])' = At(tok) /\ At(tok) \in 0..MaxPos
    BY <2>1, AtType DEF At
  <2> QED
    BY <2>1, <2>2 DEF SlotAhead
<1> QED
  BY <1>1, <1>2

LEMMA AheadStep ==
    ASSUME AtMostOnceMode, TypeOK, TypeOK', Ahead, [Next]_vars
    PROVE  Ahead'
<1> USE DEF storage, loopVars, history
<1>0. /\ At(stored) \in 0..MaxPos
      /\ \A s \in Slots : /\ token[s] \in Token /\ At(token[s]) \in 0..MaxPos
                          /\ cur[s] \in 0..MaxPos /\ SlotAhead(s)
      /\ ~PersistAfter /\ MaxPos \in Nat
  BY AtType, SyncAssumption DEF TypeOK, Ahead, AtMostOnceMode
\* There is only one slot to look at.
<1>a. ASSUME NEW s \in Slots, SlotAhead(s)', since' \subseteq 1..At(stored)'
      PROVE  Ahead'
  BY <1>a DEF Ahead, AtMostOnceMode
<1>1. ASSUME NEW s \in Slots,
             \/ \E f \in Filters : Start(s, f)
             \/ ClearStop(s) \/ CompareFilter(s) \/ CreateFilter(s)
             \/ RecordFilter(s) \/ StartFails(s)
      PROVE  Ahead'
  <2>1. pc'[s] \in StartPcs \cup {"idle"} /\ since' = since /\ stored' = stored
    BY <1>1 DEF Start, ClearStop, CompareFilter, CreateFilter, RecordFilter,
                StartFails, End, GoTo, TypeOK, StartPcs
  <2>2. SlotAhead(s)'
    BY <2>1 DEF StartPcs, SlotAhead
  <2> QED BY <1>a, <2>1, <2>2 DEF Ahead, At
<1>2. ASSUME NEW s \in Slots, ResetToken(s) PROVE Ahead'
  BY <1>2, <1>a DEF ResetToken, GoTo, TypeOK, SlotAhead
<1>3. ASSUME NEW s \in Slots, ReadToken(s) PROVE Ahead'
  <2>1. LoopHead(s, stored) /\ stored \in Token /\ since' = since /\ stored' = stored
    BY <1>3 DEF ReadToken, TypeOK
  <2>2. SlotAhead(s)'
    BY <1>0, <2>1, LoopHeadAhead DEF Ahead, At
  <2> QED BY <1>a, <2>1, <2>2 DEF Ahead, At
<1>4. ASSUME NEW s \in Slots, NEW to \in 0..MaxPos, Respond(s, to) PROVE Ahead'
  <2>1. /\ pc'[s] = "saving" /\ cur'[s] = cur[s]
        /\ token'[s] = [at |-> to, under |-> asked[s]]
        /\ since' = since /\ stored' = stored
    BY <1>0, <1>4 DEF Respond, TypeOK
  <2>2. asked[s] \in AnyFilter
    BY DEF TypeOK
  <2>3. At(token[s])' = to /\ At(stored)' = At(stored)
    BY <2>1, <2>2, AtType DEF At
  <2>4. At(token[s]) <= to
    BY <1>0, <1>4, SyncAssumption DEF Respond, TypeOK
  <2>5. /\ cur[s] = At(token[s]) /\ At(stored) <= At(token[s])
        /\ since \subseteq 1..cur[s]
    BY <1>0, <1>4 DEF Respond, SlotAhead
  <2>6. SlotAhead(s)'
    BY <1>0, <2>1, <2>3, <2>4, <2>5 DEF SlotAhead
  <2> QED BY <1>a, <2>1, <2>3, <2>6 DEF Ahead
<1>5. ASSUME NEW s \in Slots, Save(s) PROVE Ahead'
  <2>1. /\ pc'[s] = "processing" /\ cur'[s] = cur[s] /\ token'[s] = token[s]
        /\ since' = since /\ stored' = token[s]
    BY <1>0, <1>5 DEF Save, GoTo, TypeOK
  <2>2. At(token[s])' = At(token[s]) /\ At(stored)' = At(token[s])
    BY <2>1 DEF At
  <2>3. cur[s] <= At(token[s]) /\ since \subseteq 1..cur[s]
    BY <1>0, <1>5 DEF Save, SlotAhead
  <2>4. SlotAhead(s)' /\ since \subseteq 1..At(token[s])
    BY <1>0, <2>1, <2>2, <2>3 DEF SlotAhead
  <2> QED BY <1>a, <2>1, <2>2, <2>4
<1>6. ASSUME NEW s \in Slots, Dispatch(s) PROVE Ahead'
  <2>1. /\ pc'[s] = "processing" /\ cur'[s] = cur[s] + 1 /\ token'[s] = token[s]
        /\ since' = since \cup {cur[s] + 1} /\ stored' = stored /\ cur[s] < At(token[s])
    BY <1>6 DEF Dispatch, TypeOK
  <2>2. At(token[s])' = At(token[s]) /\ At(stored)' = At(stored)
    BY <2>1 DEF At
  <2>3. At(stored) = At(token[s]) /\ since \subseteq 1..cur[s]
    BY <1>0, <1>6 DEF Dispatch, SlotAhead
  <2>4. since' \subseteq 1..(cur[s] + 1) /\ cur[s] + 1 <= At(token[s])
    <3>1. cur[s] \in Nat /\ At(token[s]) \in Nat
      BY <1>0
    <3>2. \A p \in since : p \in 1..(cur[s] + 1)
      BY <3>1, <2>3
    <3>3. cur[s] + 1 \in 1..(cur[s] + 1)
      BY <3>1
    <3> QED BY <2>1, <3>1, <3>2, <3>3
  <2>5. SlotAhead(s)'
    <3>1. /\ cur'[s] <= At(token[s])' /\ At(stored)' = At(token[s])'
          /\ since' \subseteq 1..cur'[s]
      BY <2>1, <2>2, <2>3, <2>4
    <3> QED BY <2>1, <3>1, Zenon DEF SlotAhead
  <2>6. since' \subseteq 1..At(stored)'
    BY <1>0, <2>1, <2>2, <2>3, <2>4
  <2> QED BY <1>a, <2>5, <2>6
<1>7. ASSUME NEW s \in Slots, Processed(s) PROVE Ahead'
  <2>1. LoopHead(s, token[s]) /\ since' = since /\ stored' = stored
    BY <1>0, <1>7 DEF Processed
  <2>2. since \subseteq 1..At(token[s]) /\ At(stored) = At(token[s])
    BY <1>0, <1>7 DEF Processed, SlotAhead
  <2>3. At(stored)' = At(stored)
    BY <2>1 DEF At
  <2>4. SlotAhead(s)'
    BY <1>0, <2>1, <2>2, <2>3, LoopHeadAhead
  <2> QED BY <1>a, <2>1, <2>3, <2>4 DEF Ahead
<1>8. ASSUME NEW s \in Slots, LoopFails(s) PROVE Ahead'
  <2>1. /\ since' = since /\ stored' = stored
        /\ \/ pc'[s] = "idle"
           \/ /\ pc[s] \in {"syncing", "saving", "processing"} /\ pc'[s] = "backoff"
              /\ token'[s] = token[s]
    BY <1>8 DEF LoopFails, End, GoTo, TypeOK
  <2>2. At(stored)' = At(stored)
    BY <2>1 DEF At
  <2>3. CASE pc'[s] = "idle"
    <3>1. SlotAhead(s)' BY <2>3 DEF SlotAhead
    <3> QED BY <1>a, <2>1, <2>2, <3>1 DEF Ahead
  <2>4. CASE /\ pc[s] \in {"syncing", "saving", "processing"} /\ pc'[s] = "backoff"
             /\ token'[s] = token[s]
    <3>1. At(token[s])' = At(token[s])
      BY <2>4 DEF At
    <3>2. cur[s] <= At(token[s]) /\ At(stored) <= At(token[s]) /\ since \subseteq 1..cur[s]
      BY <1>0, <2>4 DEF SlotAhead
    <3>3. since \subseteq 1..At(token[s])
      BY <1>0, <3>2
    <3>4. SlotAhead(s)'
      BY <2>1, <2>2, <2>4, <3>1, <3>2, <3>3 DEF SlotAhead
    <3> QED BY <1>a, <2>1, <2>2, <3>4 DEF Ahead
  <2> QED BY <2>1, <2>3, <2>4
<1>9. ASSUME NEW s \in Slots, Retry(s) PROVE Ahead'
  <2>1. LoopHead(s, token[s]) /\ since' = since /\ stored' = stored
    BY <1>9 DEF Retry
  <2>2. since \subseteq 1..At(token[s]) /\ At(stored) <= At(token[s])
    BY <1>0, <1>9 DEF Retry, SlotAhead
  <2>3. At(stored)' = At(stored)
    BY <2>1 DEF At
  <2>4. SlotAhead(s)'
    BY <1>0, <2>1, <2>2, <2>3, LoopHeadAhead
  <2> QED BY <1>a, <2>1, <2>3, <2>4 DEF Ahead
<1>10. CASE Stop \/ NewEvent \/ UNCHANGED vars
  BY <1>10 DEF Stop, NewEvent, vars, Ahead, SlotAhead, At
<1>11. CASE Crash
  BY <1>11 DEF Crash, Ahead, SlotAhead, At
<1> QED
  BY <1>1, <1>2, <1>3, <1>4, <1>5, <1>6, <1>7, <1>8, <1>9, <1>10, <1>11
     DEF Next, Proceed

\* The default mode never dispatches an event twice, whatever fails or crashes
\* and wherever a filter change is cut off - provided that start() is called
\* only when the previous loop has ended.
THEOREM AtMostOnce ==
    ASSUME AtMostOnceMode
    PROVE  Spec => []NotTwice
<1>1. Init => TypeOK /\ Ahead
  BY TypeInit, AheadInit
<1>2. TypeOK /\ Ahead /\ [Next]_vars => (TypeOK /\ Ahead)'
  BY TypeStep, AheadStep
<1>3. TypeOK /\ Ahead => NotTwice
  <2> SUFFICES ASSUME TypeOK, Ahead, NEW s \in Slots, pc[s] = "processing"
               PROVE  cur[s] + 1 \notin since
    BY DEF NotTwice
  <2>1. since \subseteq 1..cur[s] /\ cur[s] \in 0..MaxPos
    BY DEF Ahead, SlotAhead, TypeOK
  <2> QED
    BY <2>1, SyncAssumption
<1> QED
  BY <1>1, <1>2, <1>3, PTL DEF Spec
-----------------------------------------------------------------------------
(* A change of the filter, one loop at a time                               *)

\* The token in the storage belongs to the filter in the storage, and the loop
\* runs under both; on the way there, start() has passed the writes it has.
SlotFits(s) ==
    /\ pc[s] \in StartPcs => want[s] # NoFilter
    /\ pc[s] \in {"resetting", "recording"} => filterId = want[s]
    /\ pc[s] = "recording" => stored = NoToken
    /\ pc[s] \in {"reading"} \cup LoopPcs => filterId = storedFilter
    /\ pc[s] \in LoopPcs /\ token[s] # NoToken => token[s].under = filterId
    /\ pc[s] = "syncing" => asked[s] = filterId

Fits ==
    /\ stored # NoToken => stored.under = storedFilter
    /\ \A s \in Slots : SlotFits(s)

\* Callers wait for a loop to end, and always pass a filter.
FilterMode == NoFilter \notin Filters /\ \A s, q \in Slots : s = q

\* A loop that goes back to its head with a token of its filter.
LEMMA LoopHeadFits ==
    ASSUME TypeOK, NEW s \in Slots, NEW tok \in Token, LoopHead(s, tok),
           tok # NoToken => tok.under = filterId, filterId = storedFilter,
           UNCHANGED <<filterId, storedFilter>>
    PROVE  SlotFits(s)'
<1>1. CASE stopSyncing
  BY <1>1 DEF TypeOK, LoopHead, End, SlotFits, StartPcs, LoopPcs
<1>2. CASE ~stopSyncing
  BY <1>2 DEF TypeOK, LoopHead, SlotFits, StartPcs, LoopPcs
<1> QED BY <1>1, <1>2

LEMMA FitsStep ==
    ASSUME FilterMode, TypeOK, Fits, [Next]_vars
    PROVE  Fits'
<1> USE DEF storage, loopVars, history
\* There is only one slot to look at.
<1>a. ASSUME NEW s \in Slots, SlotFits(s)', (stored # NoToken => stored.under = storedFilter)'
      PROVE  Fits'
  BY <1>a DEF Fits, FilterMode
<1>b. ASSUME UNCHANGED <<stored, storedFilter>>
      PROVE  (stored # NoToken => stored.under = storedFilter)'
  BY <1>b DEF Fits
<1>1. ASSUME NEW s \in Slots, NEW f \in Filters, Start(s, f) PROVE Fits'
  <2>1. f # NoFilter
    BY DEF FilterMode
  <2>2. SlotFits(s)'
    BY <1>1, <2>1 DEF Start, TypeOK, SlotFits, StartPcs, LoopPcs
  <2> QED BY <1>1, <1>a, <1>b, <2>2 DEF Start
<1>2. ASSUME NEW s \in Slots, ClearStop(s) \/ CompareFilter(s) \/ CreateFilter(s) PROVE Fits'
  <2>1. SlotFits(s)'
    BY <1>2 DEF ClearStop, CompareFilter, CreateFilter, GoTo, TypeOK, Fits, SlotFits, StartPcs, LoopPcs
  <2> QED BY <1>2, <1>a, <1>b, <2>1 DEF ClearStop, CompareFilter, CreateFilter
<1>3. ASSUME NEW s \in Slots, ResetToken(s) PROVE Fits'
  <2>1. SlotFits(s)' /\ stored' = NoToken
    BY <1>3 DEF ResetToken, GoTo, TypeOK, Fits, SlotFits, StartPcs, LoopPcs
  <2> QED BY <1>a, <2>1
<1>4. ASSUME NEW s \in Slots, RecordFilter(s) PROVE Fits'
  <2>1. SlotFits(s)' /\ stored' = NoToken
    BY <1>4 DEF RecordFilter, GoTo, TypeOK, Fits, SlotFits, StartPcs, LoopPcs
  <2> QED BY <1>a, <2>1
<1>5. ASSUME NEW s \in Slots, ReadToken(s) PROVE Fits'
  <2>1. stored \in Token /\ filterId = storedFilter /\ (stored # NoToken => stored.under = filterId)
    BY <1>5 DEF ReadToken, TypeOK, Fits, SlotFits
  <2>2. SlotFits(s)'
    BY <1>5, <2>1, LoopHeadFits DEF ReadToken
  <2> QED BY <1>5, <1>a, <1>b, <2>2 DEF ReadToken
<1>6. ASSUME NEW s \in Slots, StartFails(s) \/ LoopFails(s) PROVE Fits'
  <2>1. SlotFits(s)'
    BY <1>6 DEF StartFails, LoopFails, End, GoTo, TypeOK, Fits, SlotFits, StartPcs, LoopPcs
  <2> QED BY <1>6, <1>a, <1>b, <2>1 DEF StartFails, LoopFails
<1>7. ASSUME NEW s \in Slots, NEW to \in 0..MaxPos, Respond(s, to) PROVE Fits'
  <2>1. /\ pc[s] = "syncing" /\ pc'[s] \in {"saving", "processing"}
        /\ token'[s] = [at |-> to, under |-> asked[s]]
        /\ UNCHANGED <<filterId, stored, storedFilter>>
    BY <1>7 DEF Respond, TypeOK
  <2>2. asked[s] = filterId /\ filterId = storedFilter
    BY <2>1 DEF Fits, SlotFits, LoopPcs
  <2>3. SlotFits(s)'
    BY <2>1, <2>2 DEF SlotFits, StartPcs, LoopPcs
  <2> QED BY <1>a, <1>b, <2>1, <2>3
<1>8. ASSUME NEW s \in Slots, Save(s) \/ Processed(s) \/ Retry(s) PROVE Fits'
  <2>1. /\ token[s] \in Token /\ filterId = storedFilter
        /\ token[s] # NoToken => token[s].under = filterId
    BY <1>8 DEF Save, Processed, Retry, TypeOK, Fits, SlotFits, LoopPcs
  <2>2. UNCHANGED <<filterId, storedFilter>> /\ stored' \in {stored, token[s]}
    BY <1>8 DEF Save, Processed, Retry
  <2>3. CASE LoopHead(s, token[s])
    <3>1. SlotFits(s)'
      BY <2>1, <2>2, <2>3, LoopHeadFits
    <3> QED BY <1>a, <2>1, <2>2, <3>1 DEF Fits
  <2>4. CASE GoTo(s, "saving") \/ GoTo(s, "processing")
    <3>1. SlotFits(s)'
      BY <2>1, <2>2, <2>4 DEF GoTo, TypeOK, SlotFits, StartPcs, LoopPcs
    <3> QED BY <1>a, <2>1, <2>2, <3>1 DEF Fits
  <2> QED BY <1>8, <2>3, <2>4 DEF Save, Processed, Retry
<1>9. ASSUME NEW s \in Slots, Dispatch(s) PROVE Fits'
  <2>1. SlotFits(s)'
    BY <1>9 DEF Dispatch, TypeOK, Fits, SlotFits, StartPcs, LoopPcs
  <2> QED BY <1>9, <1>a, <1>b, <2>1 DEF Dispatch
<1>10. CASE Stop \/ NewEvent \/ UNCHANGED vars
  BY <1>10 DEF Stop, NewEvent, vars, Fits, SlotFits
<1>11. CASE Crash
  BY <1>11 DEF Crash, Fits, SlotFits, StartPcs, LoopPcs
<1> QED
  BY <1>1, <1>2, <1>3, <1>4, <1>5, <1>6, <1>7, <1>8, <1>9, <1>10, <1>11
     DEF Next, Proceed

\* A request continues from a token only under the filter it was obtained under,
\* wherever failures and crashes cut a change of the filter - provided that
\* start() is called only when the previous loop has ended, and with a filter.
THEOREM FiltersMatch ==
    ASSUME FilterMode
    PROVE  Spec => []TokenMatchesFilter
<1>1. Init => TypeOK /\ Fits
  <2>1. Init => Fits
    BY DEF Init, Fits, SlotFits, StartPcs, LoopPcs
  <2> QED BY <2>1, TypeInit
<1>2. TypeOK /\ Fits /\ [Next]_vars => (TypeOK /\ Fits)'
  BY TypeStep, FitsStep
<1>3. Fits => TokenMatchesFilter
  BY DEF Fits, SlotFits, TokenMatchesFilter, LoopPcs
<1> QED
  BY <1>1, <1>2, <1>3, PTL DEF Spec

-----------------------------------------------------------------------------
(* The default mode, one loop at a time, implements the at-most-once stream *)

LEMMA BeforeRefinesStep ==
    ASSUME AtMostOnceMode, TypeOK, Ahead, [Next]_vars
    PROVE  [Stream!Next]_(Stream!streamVars)
<1> USE DEF storage, loopVars, history
<1>a. ~PersistAfter
  BY DEF AtMostOnceMode
<1>b. /\ At(stored) \in 0..MaxPos /\ MaxPos \in Nat
      /\ \A s \in Slots : At(token[s]) \in 0..MaxPos /\ cur[s] \in 0..MaxPos /\ SlotAhead(s)
  BY AtType, SyncAssumption DEF TypeOK, Ahead
<1>1. ASSUME UNCHANGED <<since, stored>> PROVE UNCHANGED Stream!streamVars
  BY <1>1, <1>a DEF Stream!streamVars, At
<1>2. ASSUME NEW s \in Slots, ResetToken(s) PROVE Stream!Next
  <2>1. At(stored)' = 0 /\ since' = {}
    BY <1>2, AtType DEF ResetToken, At
  <2>2. Stream!Reset
    BY <2>1, <1>a DEF Stream!Reset
  <2> QED BY <2>2 DEF Stream!Next
<1>3. ASSUME NEW s \in Slots, Save(s) PROVE Stream!Next
  <2>1. At(stored)' = At(token[s]) /\ since' = since
    BY <1>3 DEF Save, At
  <2>2. At(token[s]) >= At(stored)
    BY <1>3, <1>b DEF Save, SlotAhead
  <2>3. Stream!Ack(At(token[s]))
    BY <2>1, <2>2, <1>a DEF Stream!Ack
  <2> QED BY <1>b, <2>3 DEF Stream!Next
<1>4. ASSUME NEW s \in Slots, Dispatch(s) PROVE Stream!Next
  <2>1. /\ cur[s] < At(token[s]) /\ At(stored) = At(token[s]) /\ since \subseteq 1..cur[s]
        /\ since' = since \cup {cur[s] + 1} /\ stored' = stored
    BY <1>4, <1>b DEF Dispatch, SlotAhead
  <2>2. cur[s] + 1 \in 1..MaxPos /\ cur[s] + 1 <= At(stored) /\ cur[s] + 1 \notin since
    BY <1>b, <2>1
  <2>3. Stream!Deliver(cur[s] + 1)
    BY <1>a, <2>1, <2>2 DEF Stream!Deliver, At
  <2> QED BY <2>2, <2>3 DEF Stream!Next
<1>5. ASSUME NEW s \in Slots,
             \/ \E f \in Filters : Start(s, f)
             \/ ClearStop(s) \/ CompareFilter(s) \/ CreateFilter(s)
             \/ RecordFilter(s) \/ ReadToken(s) \/ StartFails(s)
             \/ \E to \in 0..MaxPos : Respond(s, to)
             \/ Processed(s) \/ LoopFails(s) \/ Retry(s)
      PROVE  UNCHANGED <<since, stored>>
  BY <1>5 DEF Start, ClearStop, CompareFilter, CreateFilter, RecordFilter, ReadToken,
              StartFails, Respond, Processed, LoopFails, Retry
<1>6. ASSUME Stop \/ Crash \/ NewEvent \/ UNCHANGED vars
      PROVE  UNCHANGED <<since, stored>>
  BY <1>6 DEF Stop, Crash, NewEvent, vars
<1> QED
  BY <1>1, <1>2, <1>3, <1>4, <1>5, <1>6 DEF Next, Proceed

\* Without persistTokenAfterSync every step of the client is a delivery of what
\* was acknowledged and not delivered yet, an acknowledgement that moves on, or a
\* reset - provided that start() is called only when the previous loop has ended.
THEOREM RefinesAtMostOnce ==
    ASSUME AtMostOnceMode
    PROVE  Spec => StreamRefined
<1>1. Init => Stream!Init
  BY AtType DEF Init, Stream!Init, AtMostOnceMode
<1>2. Init => TypeOK /\ Ahead
  BY TypeInit, AheadInit
<1>3. TypeOK /\ Ahead /\ [Next]_vars => (TypeOK /\ Ahead)'
  BY TypeStep, AheadStep
<1>4. TypeOK /\ Ahead /\ [Next]_vars => [Stream!Next]_(Stream!streamVars)
  BY BeforeRefinesStep
<1> QED
  BY <1>1, <1>2, <1>3, <1>4, PTL DEF Spec, StreamRefined, Stream!Spec
=============================================================================
