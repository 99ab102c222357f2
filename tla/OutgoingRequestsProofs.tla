----------------------- MODULE OutgoingRequestsProofs -----------------------
(***************************************************************************)
(* Theorems about OutgoingRequests, for any users, any number of calls and *)
(* messages, and any faults.                                               *)
(***************************************************************************)
EXTENDS OutgoingRequests, TLAPS

-----------------------------------------------------------------------------
(* The inductive invariant *)

Pcs == {"new", "sync", "query", "claim", "room", "share", "encrypt", "run",
        "deliver", "mark", "done"}

TaskRecords ==
    [pc : Pcs, kind : Kinds, members : SUBSET Users, queue : SUBSET Messages,
     next : Messages \cup {Nobody}, keyless : SUBSET Users, overtaken : BOOLEAN]

TypeInv ==
    /\ member \in SUBSET Users
    /\ delivered \in [Messages -> Nat]
    /\ tracked \in SUBSET Users /\ known \in SUBSET Users /\ session \in SUBSET Users
    /\ keyed \in SUBSET Users /\ toShare \in SUBSET Users
    /\ outgoing \in SUBSET Messages /\ excused \in SUBSET Messages /\ wanted \in SUBSET Messages
    /\ syncLock \in Tasks \cup {Nobody} /\ roomLock \in Tasks \cup {Nobody}
    /\ task \in [Tasks -> TaskRecords]

\* Up to the claim a call has the sync lock, so what the machine was told of its
\* members holds; afterwards they have sessions, or no keys. The room's lock
\* covers the share, and the key is kept until somebody overtakes the call.
Keys(t) ==
    /\ task[t].pc \in {"query", "claim"} => syncLock = t
    /\ task[t].pc \in {"query", "claim"} /\ task[t].kind = "encrypt" =>
           task[t].members \subseteq tracked
    /\ task[t].pc = "claim" /\ task[t].kind = "encrypt" => task[t].members \subseteq known
    /\ task[t].pc \in {"room", "share", "encrypt"} =>
           task[t].members \subseteq session \cup task[t].keyless
    /\ task[t].pc = "share" =>
           /\ roomLock = t
           /\ task[t].members \subseteq keyed \cup toShare \cup task[t].keyless
    /\ task[t].pc = "encrypt" /\ ~task[t].overtaken =>
           task[t].members \subseteq keyed \cup task[t].keyless

\* A message in the queue of a run that is excused of nothing has not been sent
\* yet, and no other run has it: that one run has the sync lock.
Queue(t) ==
    /\ task[t].pc \notin {"deliver", "mark"} => task[t].queue = {}
    /\ \A m \in task[t].queue : m \notin excused => syncLock = t /\ delivered[m] = 0
    /\ task[t].pc = "mark" => task[t].next \in Messages /\ delivered[task[t].next] > 0

\* A message that was sent and is still with the machine is about to be marked,
\* by the run that has the sync lock.
Marking(m) ==
    m \in outgoing /\ m \notin excused /\ delivered[m] > 0 =>
        /\ syncLock \in Tasks
        /\ task[syncLock].pc = "mark" /\ task[syncLock].next = m

Sent(m) ==
    /\ delivered[m] > 1 => m \in excused
    /\ m \in wanted /\ m \notin outgoing => delivered[m] > 0

KeyInv     == \A t \in Tasks : Keys(t)
MessageInv ==
    /\ \A t \in Tasks : Queue(t)
    /\ \A m \in Messages : Marking(m) /\ Sent(m)

IInv == TypeInv /\ KeyInv /\ MessageInv

-----------------------------------------------------------------------------
(* What a step does to the call that takes it, and to the others *)

\* The place a call goes to, if nothing else of it changes.
Moves(t, label) ==
    /\ task' \in [Tasks -> TaskRecords]
    /\ task'[t].pc = label /\ task'[t].kind = task[t].kind
    /\ task'[t].members = task[t].members /\ task'[t].queue = task[t].queue
    /\ task'[t].next = task[t].next /\ task'[t].keyless = task[t].keyless
    /\ task'[t].overtaken = task[t].overtaken
    /\ \A u \in Tasks : u # t => task'[u] = task[u]

LEMMA GoToMoves ==
    ASSUME TypeInv, NEW t \in Tasks, NEW label \in Pcs, GoTo(t, label)
    PROVE  Moves(t, label)
  <1>1. task \in [Tasks -> TaskRecords] BY DEF TypeInv
  <1>2. task' = [task EXCEPT ![t].pc = label] BY DEF GoTo
  <1> QED BY <1>1, <1>2 DEF Moves, TaskRecords

\* A call that is over has no queue.
Ends(t) ==
    /\ task' \in [Tasks -> TaskRecords]
    /\ task'[t].pc = "done" /\ task'[t].queue = {}
    /\ \A u \in Tasks : u # t => task'[u] = task[u]
    /\ syncLock' \in {syncLock, Nobody} /\ (syncLock # t => syncLock' = syncLock)
    /\ roomLock' \in {roomLock, Nobody} /\ (roomLock # t => roomLock' = roomLock)

LEMMA EndEnds ==
    ASSUME TypeInv, NEW t \in Tasks, End(t)
    PROVE  Ends(t)
  <1>1. task \in [Tasks -> TaskRecords] BY DEF TypeInv
  <1>2. task' = [task EXCEPT ![t] = [New EXCEPT !.pc = "done"]] BY DEF End
  <1>3. [New EXCEPT !.pc = "done"] \in TaskRecords BY DEF New, TaskRecords, Pcs, Kinds
  <1>4. task' \in [Tasks -> TaskRecords] /\ task'[t] = [New EXCEPT !.pc = "done"]
        /\ \A u \in Tasks : u # t => task'[u] = task[u] BY <1>1, <1>2, <1>3
  <1>5. task'[t].pc = "done" /\ task'[t].queue = {} BY <1>4 DEF New
  <1> QED BY <1>4, <1>5 DEF Ends, End

\* A call that begins.
Begins(t) ==
    /\ task' \in [Tasks -> TaskRecords]
    /\ task'[t].pc = "sync" /\ task'[t].queue = {}
    /\ \A u \in Tasks : u # t => task'[u] = task[u]

LEMMA NewTask ==
    ASSUME TypeInv, NEW t \in Tasks, NEW new \in TaskRecords, new.pc = "sync", new.queue = {},
           task' = [task EXCEPT ![t] = new]
    PROVE  Begins(t)
  <1>1. task \in [Tasks -> TaskRecords] BY DEF TypeInv
  <1> QED BY <1>1 DEF Begins

\* Where a call that is neither reading nor sharing keys stands, and whether it
\* drops its locks, is nothing to the keys.
LEMMA KeysStay ==
    ASSUME TypeInv, KeyInv, NEW t \in Tasks, UNCHANGED machine,
           \A u \in Tasks : u # t => task'[u] = task[u],
           task'[t].pc \in {"new", "sync", "run", "deliver", "mark", "done"},
           syncLock # t => syncLock' = syncLock, roomLock # t => roomLock' = roomLock
    PROVE  KeyInv'
  <1> SUFFICES ASSUME NEW u \in Tasks PROVE Keys(u)' BY DEF KeyInv
  <1>1. CASE u = t BY <1>1 DEF Keys
  <1>2. CASE u # t
    <2>1. task'[u] = task[u] /\ Keys(u) BY <1>2 DEF KeyInv
    <2>2. /\ tracked' = tracked /\ known' = known /\ session' = session
          /\ keyed' = keyed /\ toShare' = toShare BY DEF machine
    <2> QED BY <1>2, <2>1, <2>2 DEF Keys
  <1> QED BY <1>1, <1>2

\* A step that sends and marks nothing leaves the messages as they are, if the
\* call that takes it gives up its queue.
LEMMA MessagesStay ==
    ASSUME TypeInv, MessageInv, NEW t \in Tasks, UNCHANGED <<delivered, outgoing, wanted>>,
           \A u \in Tasks : u # t => task'[u] = task[u],
           task'[t].pc \notin {"deliver", "mark"}, task'[t].queue = {},
           syncLock # t => syncLock' = syncLock,
           excused \subseteq excused',
           task[t].pc = "mark" => task[t].next \in excused'
    PROVE  MessageInv'
  <1>1. ASSUME NEW u \in Tasks PROVE Queue(u)'
    <2>1. CASE u = t BY <2>1 DEF Queue
    <2>2. CASE u # t
      <3>1. task'[u] = task[u] /\ Queue(u) BY <2>2 DEF MessageInv
      <3> QED BY <2>2, <3>1 DEF Queue
    <2> QED BY <2>1, <2>2
  <1>2. ASSUME NEW m \in Messages PROVE Marking(m)'
    <2> SUFFICES ASSUME m \in outgoing, m \notin excused', delivered[m] > 0
                 PROVE  /\ syncLock' \in Tasks
                        /\ task'[syncLock'].pc = "mark" /\ task'[syncLock'].next = m
      BY DEF Marking
    <2>1. syncLock \in Tasks /\ task[syncLock].pc = "mark" /\ task[syncLock].next = m
      BY DEF MessageInv, Marking
    <2>2. syncLock # t BY <2>1
    <2> QED BY <2>1, <2>2
  <1>3. ASSUME NEW m \in Messages PROVE Sent(m)'
    <2>1. Sent(m) BY DEF MessageInv
    <2> QED BY <2>1 DEF Sent
  <1> QED BY <1>1, <1>2, <1>3 DEF MessageInv

\* A call that ends, with or without success.
LEMMA EndKeeps ==
    ASSUME IInv, NEW t \in Tasks, End(t), excused' \in SUBSET Messages, excused \subseteq excused',
           task[t].pc = "mark" => task[t].next \in excused',
           UNCHANGED <<member, delivered, outgoing, machine, wanted>>
    PROVE  IInv'
  <1>1. TypeInv /\ KeyInv /\ MessageInv BY DEF IInv
  <1>2. Ends(t) BY <1>1, EndEnds
  <1>3. TypeInv' BY <1>1, <1>2 DEF TypeInv, Ends, machine
  <1>4. KeyInv' BY <1>1, <1>2, KeysStay DEF Ends
  <1>5. MessageInv' BY <1>1, <1>2, MessagesStay DEF Ends
  <1> QED BY <1>3, <1>4, <1>5 DEF IInv

-----------------------------------------------------------------------------
(* Calls begin and take the sync lock *)

LEMMA BeginKeeps ==
    ASSUME IInv, NEW t \in Tasks, GetMembers(t) \/ Call(t)
    PROVE  IInv'
  <1>1. TypeInv /\ KeyInv /\ MessageInv BY DEF IInv
  <1>2. UNCHANGED <<member, delivered, outgoing, machine, locks, excused, wanted>>
    BY DEF GetMembers, Call
  <1>3. task[t].pc = "new" BY DEF GetMembers, Call, At
  <1>4. Begins(t)
    <2>1. CASE GetMembers(t)
      <3> DEFINE new == [New EXCEPT !.pc = "sync", !.kind = "encrypt", !.members = member]
      <3>1. new \in TaskRecords /\ new.pc = "sync" /\ new.queue = {}
        BY <1>1 DEF New, TaskRecords, Pcs, Kinds, TypeInv
      <3>2. task' = [task EXCEPT ![t] = new] BY <2>1 DEF GetMembers
      <3> QED BY <1>1, <3>1, <3>2, NewTask
    <2>2. CASE task' = [task EXCEPT ![t] = [New EXCEPT !.pc = "sync"]]
      <3> DEFINE new == [New EXCEPT !.pc = "sync"]
      <3>1. new \in TaskRecords /\ new.pc = "sync" /\ new.queue = {}
        BY DEF New, TaskRecords, Pcs, Kinds
      <3> QED BY <1>1, <2>2, <3>1, NewTask
    <2>3. ASSUME NEW u \in SUBSET Users,
                 task' = [task EXCEPT ![t] = [New EXCEPT !.pc = "sync", !.kind = "track", !.members = u]]
          PROVE  Begins(t)
      <3> DEFINE new == [New EXCEPT !.pc = "sync", !.kind = "track", !.members = u]
      <3>1. new \in TaskRecords /\ new.pc = "sync" /\ new.queue = {}
        BY DEF New, TaskRecords, Pcs, Kinds
      <3> QED BY <1>1, <2>3, <3>1, NewTask
    <2> QED BY <2>1, <2>2, <2>3 DEF Call
  <1>5. /\ task' \in [Tasks -> TaskRecords]
        /\ task'[t].pc = "sync" /\ task'[t].queue = {}
        /\ \A u \in Tasks : u # t => task'[u] = task[u]
    BY <1>4 DEF Begins
  <1>6. TypeInv' BY <1>1, <1>2, <1>5 DEF TypeInv, machine, locks
  <1>7. KeyInv' BY <1>1, <1>2, <1>5, KeysStay DEF locks
  <1>8. MessageInv' BY <1>1, <1>2, <1>3, <1>5, MessagesStay DEF locks
  <1> QED BY <1>6, <1>7, <1>8 DEF IInv

LEMMA AcquireSyncKeeps ==
    ASSUME Nobody \notin Tasks, IInv, NEW t \in Tasks, AcquireSync(t)
    PROVE  IInv'
  <1>1. TypeInv /\ KeyInv /\ MessageInv BY DEF IInv
  <1>2. /\ task[t].pc = "sync" /\ syncLock = Nobody /\ syncLock' = t
        /\ UNCHANGED <<member, delivered, known, session, keyed, toShare, roomLock, excused>>
    BY DEF AcquireSync, At
  <1>3. PICK label \in {"run", "query", "claim"} :
           /\ GoTo(t, label)
           /\ label # "run" => tracked' = tracked \cup task[t].members
           /\ label = "run" => tracked' = tracked
           /\ label = "claim" => task[t].kind # "encrypt"
    BY DEF AcquireSync
  <1>4. Moves(t, label) BY <1>1, <1>3, GoToMoves DEF Pcs
  <1>5. \E new \in SUBSET Messages :
           /\ \A m \in new : delivered[m] = 0
           /\ outgoing' = outgoing \cup new /\ wanted' = wanted \cup new
    <2>1. CASE task[t].kind = "sync" BY <2>1 DEF AcquireSync
    <2>2. CASE task[t].kind # "sync"
      <3>1. outgoing' = outgoing \cup {} /\ wanted' = wanted \cup {} BY <2>2 DEF AcquireSync
      <3> QED BY <3>1
    <2> QED BY <2>1, <2>2
  <1>6. task[t] \in TaskRecords BY <1>1 DEF TypeInv
  <1>7. TypeInv'
    <2>1. tracked' \in SUBSET Users BY <1>1, <1>3, <1>6 DEF TypeInv, TaskRecords
    <2>2. outgoing' \in SUBSET Messages /\ wanted' \in SUBSET Messages BY <1>1, <1>5 DEF TypeInv
    <2> QED BY <1>1, <1>2, <1>4, <2>1, <2>2 DEF TypeInv, Moves
  <1>8. KeyInv'
    <2> SUFFICES ASSUME NEW u \in Tasks PROVE Keys(u)' BY DEF KeyInv
    <2>1. tracked \subseteq tracked' BY <1>3
    <2>2. CASE u = t BY <1>2, <1>3, <1>4, <2>2 DEF Keys, Moves
    <2>3. CASE u # t
      <3>1. Keys(u) /\ task'[u] = task[u] /\ syncLock # u
        BY <1>1, <1>2, <1>4, <2>3 DEF KeyInv, Moves
      <3> QED BY <1>2, <2>1, <3>1 DEF Keys
    <2> QED BY <2>2, <2>3
  <1>9. MessageInv'
    <2>1. ASSUME NEW u \in Tasks PROVE Queue(u)'
      <3>1. Queue(u) /\ syncLock # u BY <1>1, <1>2 DEF MessageInv
      <3>2. CASE u = t BY <1>2, <1>4, <3>1, <3>2 DEF Queue, Moves
      <3>3. CASE u # t
        <4>1. task'[u] = task[u] BY <1>4, <3>3 DEF Moves
        <4> QED BY <1>2, <3>1, <4>1 DEF Queue
      <3> QED BY <3>2, <3>3
    <2>2. ASSUME NEW m \in Messages PROVE Marking(m)' /\ Sent(m)'
      <3>1. Marking(m) /\ Sent(m) /\ delivered[m] \in Nat BY <1>1 DEF MessageInv, TypeInv
      <3>2. ~(m \in outgoing /\ m \notin excused /\ delivered[m] > 0)
        BY <1>2, <3>1 DEF Marking
      <3>3. ~(m \in outgoing' /\ m \notin excused /\ delivered[m] > 0)
        BY <1>5, <3>2
      <3>4. m \in wanted' /\ m \notin outgoing' => m \in wanted /\ m \notin outgoing BY <1>5
      <3> QED BY <1>2, <3>1, <3>3, <3>4 DEF Marking, Sent
    <2> QED BY <2>1, <2>2 DEF MessageInv
  <1> QED BY <1>7, <1>8, <1>9 DEF IInv

-----------------------------------------------------------------------------
(* Keys are read, claimed and shared *)

LEMMA KeysQueryKeeps ==
    ASSUME IInv, NEW t \in Tasks, KeysQuery(t)
    PROVE  IInv'
  <1>1. TypeInv /\ KeyInv /\ MessageInv BY DEF IInv
  <1>2. /\ task[t].pc = "query" /\ known' = known \cup tracked
        /\ UNCHANGED <<member, delivered, outgoing, tracked, session, keyed, toShare, locks, excused, wanted>>
    BY DEF KeysQuery, At
  <1>3. Moves(t, "claim") BY <1>1, GoToMoves DEF KeysQuery, Pcs
  <1>4. TypeInv' BY <1>1, <1>2, <1>3 DEF TypeInv, Moves, locks
  <1>5. KeyInv'
    <2> SUFFICES ASSUME NEW u \in Tasks PROVE Keys(u)' BY DEF KeyInv
    <2>1. Keys(u) BY <1>1 DEF KeyInv
    <2>2. CASE u = t BY <1>2, <1>3, <2>1, <2>2 DEF Keys, Moves, locks
    <2>3. CASE u # t
      <3>1. task'[u] = task[u] BY <1>3, <2>3 DEF Moves
      <3> QED BY <1>2, <2>1, <3>1 DEF Keys, locks
    <2> QED BY <2>2, <2>3
  <1>6. task[t].queue = {} BY <1>1, <1>2 DEF MessageInv, Queue
  <1>7. MessageInv' BY <1>1, <1>2, <1>3, <1>6, MessagesStay DEF Moves, locks
  <1> QED BY <1>4, <1>5, <1>7 DEF IInv

LEMMA KeysClaimKeeps ==
    ASSUME Nobody \notin Tasks, IInv, NEW t \in Tasks, KeysClaim(t)
    PROVE  IInv'
  <1>1. TypeInv /\ KeyInv /\ MessageInv BY DEF IInv
  <1>2. /\ task[t].pc = "claim" /\ task \in [Tasks -> TaskRecords] /\ task[t] \in TaskRecords
        /\ UNCHANGED <<member, delivered, outgoing, tracked, known, keyed, toShare, excused, wanted>>
    BY <1>1 DEF KeysClaim, At, TypeInv
  <1>3. syncLock = t /\ task[t].queue = {}
    BY <1>1, <1>2 DEF KeyInv, Keys, MessageInv, Queue
  <1>4. PICK none \in SUBSET ((task[t].members \cap known) \ session) :
           /\ session' = session \cup ((task[t].members \cap known) \ none)
           /\ IF task[t].kind = "encrypt"
              THEN /\ task' = [task EXCEPT ![t].pc = "room", ![t].keyless = none]
                   /\ syncLock' = Nobody
                   /\ UNCHANGED roomLock
              ELSE End(t)
    BY DEF KeysClaim
  <1>5. none \in SUBSET Users /\ session' \in SUBSET Users
    BY <1>1, <1>4 DEF TypeInv
  <1>6. /\ task' \in [Tasks -> TaskRecords]
        /\ \A u \in Tasks : u # t => task'[u] = task[u]
        /\ task'[t].pc \in {"room", "done"} /\ task'[t].queue = {}
        /\ task'[t].pc = "room" => /\ task'[t].members \subseteq known
                                   /\ task'[t].members = task[t].members
                                   /\ task'[t].keyless = none
        /\ syncLock' = Nobody
        /\ roomLock' \in {roomLock, Nobody} /\ (roomLock # t => roomLock' = roomLock)
    <2>1. CASE task[t].kind = "encrypt"
      <3>1. task' = [task EXCEPT ![t].pc = "room", ![t].keyless = none]
            /\ syncLock' = Nobody /\ roomLock' = roomLock BY <1>4, <2>1
      <3>2. task[t].members \subseteq known BY <1>1, <1>2, <2>1 DEF KeyInv, Keys
      <3>3. /\ task' \in [Tasks -> TaskRecords]
            /\ \A u \in Tasks : u # t => task'[u] = task[u]
        BY <1>2, <1>5, <3>1 DEF TaskRecords, Pcs
      <3>4. /\ task'[t].pc = "room" /\ task'[t].queue = task[t].queue
            /\ task'[t].members = task[t].members /\ task'[t].keyless = none
        BY <1>2, <3>1 DEF TaskRecords
      <3> QED BY <1>3, <3>1, <3>2, <3>3, <3>4
    <2>2. CASE task[t].kind # "encrypt"
      <3>1. End(t) BY <1>4, <2>2
      <3>2. Ends(t) BY <1>1, <3>1, EndEnds
      <3>3. syncLock' = Nobody BY <1>3, <3>1 DEF End
      <3> QED BY <3>2, <3>3 DEF Ends
    <2> QED BY <2>1, <2>2
  <1>7. TypeInv' BY <1>1, <1>2, <1>5, <1>6 DEF TypeInv
  <1>8. KeyInv'
    <2> SUFFICES ASSUME NEW u \in Tasks PROVE Keys(u)' BY DEF KeyInv
    <2>1. Keys(u) /\ session \subseteq session' BY <1>1, <1>4 DEF KeyInv
    <2>2. CASE u = t BY <1>4, <1>6, <2>2 DEF Keys
    <2>3. CASE u # t
      <3>1. task'[u] = task[u] /\ syncLock # u BY <1>3, <1>6, <2>3
      <3> QED BY <1>2, <1>6, <2>1, <2>3, <3>1 DEF Keys
    <2> QED BY <2>2, <2>3
  <1>9. MessageInv'
    BY <1>1, <1>2, <1>3, <1>6, MessagesStay
  <1> QED BY <1>7, <1>8, <1>9 DEF IInv

LEMMA AcquireRoomKeeps ==
    ASSUME Nobody \notin Tasks, IInv, NEW t \in Tasks, AcquireRoom(t)
    PROVE  IInv'
  <1> DEFINE rotates == (keyed \cup toShare) \ task[t].members # {}
             kept    == IF rotates THEN {} ELSE keyed
  <1>1. TypeInv /\ KeyInv /\ MessageInv BY DEF IInv
  <1>2. /\ task[t].pc = "room" /\ roomLock = Nobody /\ roomLock' = t
        /\ keyed' = kept /\ toShare' = (task[t].members \cap session) \ kept
        /\ UNCHANGED <<member, delivered, outgoing, tracked, known, session, syncLock, excused, wanted>>
    BY DEF AcquireRoom, At
  <1>3. task \in [Tasks -> TaskRecords] BY <1>1 DEF TypeInv
  <1>4. task' = [u \in Tasks |->
                    IF u = t THEN [task[u] EXCEPT !.pc = "share"]
                    ELSE [task[u] EXCEPT !.overtaken = @ \/ (rotates /\ task[u].pc = "encrypt")]]
    BY DEF AcquireRoom
  <1>5. ASSUME NEW u \in Tasks
        PROVE  /\ task'[u] \in TaskRecords
               /\ u # t => task'[u].pc = task[u].pc
               /\ u = t => task'[u].pc = "share"
               /\ task'[u].members = task[u].members /\ task'[u].keyless = task[u].keyless
               /\ task'[u].queue = task[u].queue /\ task'[u].next = task[u].next
               /\ task'[u].kind = task[u].kind
               /\ task[u].overtaken => task'[u].overtaken
               /\ u # t /\ rotates /\ task[u].pc = "encrypt" => task'[u].overtaken
    <2> HIDE DEF rotates
    <2>1. task[u] \in TaskRecords BY <1>3
    <2>2. CASE u = t
      <3>1. task'[u] = [task[u] EXCEPT !.pc = "share"] BY <1>4, <2>2
      <3> QED BY <2>1, <2>2, <3>1 DEF TaskRecords, Pcs
    <2>3. CASE u # t
      <3>1. task'[u] = [task[u] EXCEPT !.overtaken = task[u].overtaken \/ (rotates /\ task[u].pc = "encrypt")]
        BY <1>4, <2>3
      <3>2. (task[u].overtaken \/ (rotates /\ task[u].pc = "encrypt")) \in BOOLEAN OBVIOUS
      <3> QED BY <2>1, <2>3, <3>1, <3>2 DEF TaskRecords
    <2> QED BY <2>2, <2>3
  <1>6. task' \in [Tasks -> TaskRecords] BY <1>4, <1>5
  <1>7. kept \in SUBSET Users BY <1>1 DEF TypeInv
  <1>8. task[t].members \in SUBSET Users BY <1>3 DEF TaskRecords
  <1>9. TypeInv'
    <2> HIDE DEF kept
    <2> QED BY <1>1, <1>2, <1>6, <1>7, <1>8 DEF TypeInv
  <1>10. KeyInv'
    <2> SUFFICES ASSUME NEW u \in Tasks PROVE Keys(u)' BY DEF KeyInv
    <2>1. Keys(u) BY <1>1 DEF KeyInv
    <2>2. CASE u = t
      <3>1. task[u].members \subseteq session \cup task[u].keyless BY <1>2, <2>1, <2>2 DEF Keys
      <3>2. task[u].members \subseteq keyed' \cup toShare' \cup task[u].keyless
        BY <1>2, <2>2, <3>1
      <3> QED BY <1>2, <1>5, <2>2, <3>1, <3>2 DEF Keys
    <2>3. CASE u # t
      <3>1. roomLock # u /\ task[u].pc # "share" BY <1>2, <2>1 DEF Keys
      <3>2. task[u].pc = "encrypt" /\ ~task'[u].overtaken => keyed' = keyed
        BY <1>2, <1>5, <2>3
      <3> HIDE DEF kept, rotates
      <3> QED BY <1>2, <1>5, <2>1, <2>3, <3>1, <3>2 DEF Keys
    <2> QED BY <2>2, <2>3
  <1>11. MessageInv'
    <2> HIDE DEF kept, rotates
    <2>1. ASSUME NEW u \in Tasks PROVE Queue(u)'
      <3>1. Queue(u) BY <1>1 DEF MessageInv
      <3>2. task'[u].pc = task[u].pc \/ (u = t /\ task'[u].pc = "share") BY <1>5
      <3> QED BY <1>2, <1>5, <3>1, <3>2 DEF Queue
    <2>2. ASSUME NEW m \in Messages PROVE Marking(m)' /\ Sent(m)'
      <3>1. Marking(m) /\ Sent(m) BY <1>1 DEF MessageInv
      <3> QED BY <1>2, <1>5, <3>1 DEF Marking, Sent
    <2> QED BY <2>1, <2>2 DEF MessageInv
  <1> QED BY <1>9, <1>10, <1>11 DEF IInv

LEMMA ShareKeyKeeps ==
    ASSUME Nobody \notin Tasks, IInv, NEW t \in Tasks, ShareKey(t)
    PROVE  IInv'
  <1>1. TypeInv /\ KeyInv /\ MessageInv BY DEF IInv
  <1>2. UNCHANGED <<member, delivered, outgoing, tracked, known, session, locks, task, excused, wanted>>
    BY DEF ShareKey
  <1>3. keyed' \cup toShare' = keyed \cup toShare /\ keyed \subseteq keyed' BY DEF ShareKey
  <1>4. TypeInv' BY <1>1, <1>2, <1>3 DEF TypeInv, locks
  <1>5. KeyInv' BY <1>1, <1>2, <1>3 DEF KeyInv, Keys, locks
  <1>6. MessageInv' BY <1>1, <1>2 DEF MessageInv, Queue, Marking, Sent, locks
  <1> QED BY <1>4, <1>5, <1>6 DEF IInv

LEMMA SharedKeeps ==
    ASSUME Nobody \notin Tasks, IInv, NEW t \in Tasks, Shared(t)
    PROVE  IInv'
  <1>1. TypeInv /\ KeyInv /\ MessageInv BY DEF IInv
  <1>2. /\ task[t].pc = "share" /\ toShare = {} /\ roomLock' = Nobody
        /\ UNCHANGED <<member, delivered, outgoing, machine, syncLock, excused, wanted>>
    BY DEF Shared, At
  <1>3. Moves(t, "encrypt") BY <1>1, GoToMoves DEF Shared, Pcs
  <1>4. TypeInv' BY <1>1, <1>2, <1>3 DEF TypeInv, Moves, machine
  <1>5. KeyInv'
    <2> SUFFICES ASSUME NEW u \in Tasks PROVE Keys(u)' BY DEF KeyInv
    <2>1. Keys(u) /\ roomLock = t BY <1>1, <1>2 DEF KeyInv, Keys
    <2>2. CASE u = t BY <1>2, <1>3, <2>1, <2>2 DEF Keys, Moves, machine
    <2>3. CASE u # t
      <3>1. task'[u] = task[u] BY <1>3, <2>3 DEF Moves
      <3> QED BY <1>2, <2>1, <2>3, <3>1 DEF Keys, machine
    <2> QED BY <2>2, <2>3
  <1>6. task[t].queue = {} BY <1>1, <1>2 DEF MessageInv, Queue
  <1>7. MessageInv' BY <1>1, <1>2, <1>3, <1>6, MessagesStay DEF Moves
  <1> QED BY <1>4, <1>5, <1>7 DEF IInv

LEMMA EncryptKeeps ==
    ASSUME IInv, NEW t \in Tasks, Encrypt(t)
    PROVE  IInv'
  <1>1. TypeInv /\ KeyInv /\ MessageInv BY DEF IInv
  <1>2. /\ task[t].pc = "encrypt"
        /\ UNCHANGED <<member, delivered, outgoing, machine, locks, excused, wanted>>
    BY DEF Encrypt, At
  <1>3. Moves(t, "run") BY <1>1, GoToMoves DEF Encrypt, Pcs
  <1>4. TypeInv' BY <1>1, <1>2, <1>3 DEF TypeInv, Moves, machine, locks
  <1>5. KeyInv' BY <1>1, <1>2, <1>3, KeysStay DEF Moves, locks
  <1>6. task[t].queue = {} BY <1>1, <1>2 DEF MessageInv, Queue
  <1>7. MessageInv' BY <1>1, <1>2, <1>3, <1>6, MessagesStay DEF Moves, locks
  <1> QED BY <1>4, <1>5, <1>7 DEF IInv

-----------------------------------------------------------------------------
(* The machine's own messages are sent and marked *)

LEMMA OutgoingKeeps ==
    ASSUME IInv, NEW t \in Tasks, Outgoing(t)
    PROVE  IInv'
  <1>1. TypeInv /\ KeyInv /\ MessageInv BY DEF IInv
  <1>2. /\ task[t].pc = "run" /\ task \in [Tasks -> TaskRecords] /\ task[t] \in TaskRecords
        /\ task' = [task EXCEPT ![t].pc = "deliver", ![t].queue = outgoing]
        /\ excused' = IF syncLock = t THEN excused ELSE excused \cup outgoing
        /\ UNCHANGED <<member, delivered, outgoing, machine, locks, wanted>>
    BY <1>1 DEF Outgoing, At, TypeInv
  <1>3. outgoing \in SUBSET Messages BY <1>1 DEF TypeInv
  <1>4. /\ task' \in [Tasks -> TaskRecords]
        /\ task'[t].pc = "deliver" /\ task'[t].queue = outgoing
        /\ \A u \in Tasks : u # t => task'[u] = task[u]
    BY <1>2, <1>3 DEF TaskRecords, Pcs
  <1>5. TypeInv' BY <1>1, <1>2, <1>4 DEF TypeInv, machine, locks
  <1>6. KeyInv' BY <1>1, <1>2, <1>4, KeysStay DEF locks
  <1>7. MessageInv'
    <2>1. syncLock' = syncLock /\ delivered' = delivered BY <1>2 DEF locks
    <2>2. ASSUME NEW m \in outgoing, m \notin excused' PROVE syncLock = t /\ delivered[m] = 0
      <3>1. syncLock = t /\ m \notin excused BY <1>2, <2>2
      <3>2. Marking(m) /\ m \in Messages BY <1>1, <1>3 DEF MessageInv
      <3>3. ~(delivered[m] > 0) BY <1>2, <3>1, <3>2 DEF Marking
      <3>4. delivered[m] \in Nat BY <1>1, <3>2 DEF TypeInv
      <3> QED BY <3>1, <3>3, <3>4
    <2>3. ASSUME NEW u \in Tasks PROVE Queue(u)'
      <3>1. CASE u = t BY <1>4, <2>1, <2>2, <3>1 DEF Queue
      <3>2. CASE u # t
        <4>1. Queue(u) /\ task'[u] = task[u] BY <1>1, <1>4, <3>2 DEF MessageInv
        <4> QED BY <1>2, <2>1, <4>1 DEF Queue
      <3> QED BY <3>1, <3>2
    <2>4. ASSUME NEW m \in Messages PROVE Marking(m)' /\ Sent(m)'
      <3>1. Marking(m) /\ Sent(m) BY <1>1 DEF MessageInv
      <3>2. Marking(m)'
        <4>1. syncLock \in Tasks /\ task[syncLock].pc = "mark" => task'[syncLock] = task[syncLock]
          BY <1>2, <1>4
        <4> QED BY <1>2, <2>1, <3>1, <4>1 DEF Marking
      <3>3. Sent(m)' BY <1>2, <3>1 DEF Sent
      <3> QED BY <3>2, <3>3
    <2> QED BY <2>3, <2>4 DEF MessageInv
  <1> QED BY <1>5, <1>6, <1>7 DEF IInv

LEMMA DeliverKeeps ==
    ASSUME IInv, NEW t \in Tasks, Deliver(t)
    PROVE  IInv'
  <1>1. TypeInv /\ KeyInv /\ MessageInv BY DEF IInv
  <1>2. /\ task[t].pc = "deliver" /\ task \in [Tasks -> TaskRecords] /\ task[t] \in TaskRecords
        /\ delivered \in [Messages -> Nat]
        /\ UNCHANGED <<member, outgoing, machine, locks, excused, wanted>>
    BY <1>1 DEF Deliver, At, TypeInv
  <1>3. PICK n \in task[t].queue :
           /\ task' = [task EXCEPT ![t].pc = "mark", ![t].next = n, ![t].queue = @ \ {n}]
           /\ delivered' = [delivered EXCEPT ![n] = @ + 1]
    BY DEF Deliver
  <1>4. n \in Messages BY <1>2 DEF TaskRecords
  <1>5. /\ task' \in [Tasks -> TaskRecords]
        /\ \A u \in Tasks : u # t => task'[u] = task[u]
    BY <1>2, <1>3, <1>4 DEF TaskRecords, Pcs
  <1>6. task'[t].pc = "mark" /\ task'[t].next = n /\ task'[t].queue = task[t].queue \ {n}
    BY <1>2, <1>3 DEF TaskRecords
  <1>7. /\ delivered' \in [Messages -> Nat] /\ delivered'[n] = delivered[n] + 1
        /\ \A m \in Messages : m # n => delivered'[m] = delivered[m]
    BY <1>2, <1>3, <1>4
  <1>8. TypeInv' BY <1>1, <1>2, <1>5, <1>7 DEF TypeInv, machine, locks
  <1>9. KeyInv' BY <1>1, <1>2, <1>5, <1>6, KeysStay DEF locks
  <1>10. n \notin excused => syncLock = t /\ delivered[n] = 0
    BY <1>1 DEF MessageInv, Queue
  <1>11. syncLock' = syncLock /\ excused' = excused /\ outgoing' = outgoing /\ wanted' = wanted
    BY <1>2 DEF locks
  <1>12. MessageInv'
    <2>1. ASSUME NEW u \in Tasks PROVE Queue(u)'
      <3>1. Queue(u) BY <1>1 DEF MessageInv
      <3>2. task[u].queue \in SUBSET Messages BY <1>2 DEF TaskRecords
      <3>3. CASE u = t
        <4>1. delivered'[n] > 0 BY <1>2, <1>4, <1>7
        <4>2. \A m \in task'[u].queue : m \notin excused => syncLock = t /\ delivered'[m] = 0
          BY <1>6, <1>7, <3>1, <3>2, <3>3 DEF Queue
        <4> QED BY <1>4, <1>6, <1>11, <3>3, <4>1, <4>2 DEF Queue
      <3>4. CASE u # t
        <4>1. task'[u] = task[u] BY <1>5, <3>4
        <4>2. ASSUME NEW m \in task[u].queue, m \notin excused PROVE syncLock = u /\ delivered'[m] = 0
          <5>1. syncLock = u /\ delivered[m] = 0 BY <3>1, <4>2 DEF Queue
          <5>2. m # n BY <1>10, <3>4, <4>2, <5>1
          <5> QED BY <1>7, <3>2, <5>1, <5>2
        <4>3. task[u].pc = "mark" => task[u].next \in Messages /\ delivered'[task[u].next] > 0
          BY <1>2, <1>4, <1>7, <3>1 DEF Queue
        <4> QED BY <1>11, <3>1, <4>1, <4>2, <4>3 DEF Queue
      <3> QED BY <3>3, <3>4
    <2>2. ASSUME NEW m \in Messages PROVE Marking(m)' /\ Sent(m)'
      <3>1. Marking(m) /\ Sent(m) BY <1>1 DEF MessageInv
      <3>2. CASE m = n
        <4>1. Marking(m)' BY <1>6, <1>10, <1>11, <3>2 DEF Marking
        <4>2. delivered'[m] > 1 => m \in excused BY <1>2, <1>4, <1>7, <1>10, <3>2
        <4>3. delivered'[m] > 0 BY <1>2, <1>4, <1>7, <3>2
        <4> QED BY <1>11, <4>1, <4>2, <4>3 DEF Sent
      <3>3. CASE m # n
        <4>1. delivered'[m] = delivered[m] BY <1>7, <3>3
        <4>2. syncLock \in Tasks /\ task[syncLock].pc = "mark" => task'[syncLock] = task[syncLock]
          BY <1>2, <1>5
        <4> QED BY <1>11, <3>1, <4>1, <4>2 DEF Marking, Sent
      <3> QED BY <3>2, <3>3
    <2> QED BY <2>1, <2>2 DEF MessageInv
  <1> QED BY <1>8, <1>9, <1>12 DEF IInv

LEMMA MarkAsSentKeeps ==
    ASSUME IInv, NEW t \in Tasks, MarkAsSent(t)
    PROVE  IInv'
  <1>1. TypeInv /\ KeyInv /\ MessageInv BY DEF IInv
  <1>2. /\ task[t].pc = "mark" /\ task \in [Tasks -> TaskRecords] /\ task[t] \in TaskRecords
        /\ outgoing' = outgoing \ {task[t].next}
        /\ task' = [task EXCEPT ![t].pc = "deliver", ![t].next = Nobody]
        /\ UNCHANGED <<member, delivered, machine, locks, excused, wanted>>
    BY <1>1 DEF MarkAsSent, At, TypeInv
  <1>3. /\ task' \in [Tasks -> TaskRecords]
        /\ \A u \in Tasks : u # t => task'[u] = task[u]
    BY <1>2 DEF TaskRecords, Pcs
  <1>4. task'[t].pc = "deliver" /\ task'[t].queue = task[t].queue BY <1>2 DEF TaskRecords
  <1>5. TypeInv' BY <1>1, <1>2, <1>3 DEF TypeInv, machine, locks
  <1>6. KeyInv' BY <1>1, <1>2, <1>3, <1>4, KeysStay DEF locks
  <1>7. syncLock' = syncLock BY <1>2 DEF locks
  <1>8. MessageInv'
    <2>1. ASSUME NEW u \in Tasks PROVE Queue(u)'
      <3>1. Queue(u) BY <1>1 DEF MessageInv
      <3>2. task'[u].queue = task[u].queue /\ (u # t => task'[u] = task[u]) BY <1>3, <1>4
      <3> QED BY <1>2, <1>4, <1>7, <3>1, <3>2 DEF Queue
    <2>2. ASSUME NEW m \in Messages PROVE Marking(m)' /\ Sent(m)'
      <3>1. Marking(m) /\ Sent(m) /\ Queue(t) BY <1>1 DEF MessageInv
      <3>2. Marking(m)'
        <4> SUFFICES ASSUME m \in outgoing', m \notin excused, delivered[m] > 0
                     PROVE  /\ syncLock \in Tasks
                            /\ task'[syncLock].pc = "mark" /\ task'[syncLock].next = m
          BY <1>2, <1>7 DEF Marking
        <4>1. /\ m # task[t].next /\ syncLock \in Tasks
              /\ task[syncLock].pc = "mark" /\ task[syncLock].next = m
          BY <1>2, <3>1 DEF Marking
        <4> QED BY <1>3, <4>1
      <3>3. Sent(m)' BY <1>2, <3>1 DEF Sent, Queue
      <3> QED BY <3>2, <3>3
    <2> QED BY <2>1, <2>2 DEF MessageInv
  <1> QED BY <1>5, <1>6, <1>8 DEF IInv

-----------------------------------------------------------------------------
(* Every step *)

LEMMA InitHolds ==
    ASSUME Init
    PROVE  IInv
  <1>1. New \in TaskRecords /\ New.pc = "new" /\ New.queue = {}
    BY DEF New, TaskRecords, Pcs, Kinds
  <1>2. \A t \in Tasks : task[t] = New BY DEF Init
  <1>3. TypeInv BY <1>1 DEF Init, TypeInv
  <1>4. KeyInv BY <1>1, <1>2 DEF KeyInv, Keys
  <1>5. MessageInv BY <1>1, <1>2 DEF Init, MessageInv, Queue, Marking, Sent
  <1> QED BY <1>3, <1>4, <1>5 DEF IInv

LEMMA NextKeeps ==
    ASSUME Nobody \notin Tasks, IInv, [Next]_engineVars
    PROVE  IInv'
  <1>1. ASSUME NEW t \in Tasks, TaskStep(t) PROVE IInv'
    <2>1. CASE GetMembers(t) \/ Call(t) BY <2>1, BeginKeeps
    <2>2. CASE AcquireSync(t) BY <2>2, AcquireSyncKeeps
    <2>3. CASE KeysQuery(t) BY <2>3, KeysQueryKeeps
    <2>4. CASE KeysClaim(t) BY <2>4, KeysClaimKeeps
    <2>5. CASE RequestFails(t) \/ RunEnds(t)
      <3>1. /\ End(t) /\ UNCHANGED <<member, delivered, outgoing, machine, excused, wanted>>
            /\ task[t].pc # "mark"
        BY <2>5 DEF RequestFails, RunEnds, At
      <3>2. excused \in SUBSET Messages BY DEF IInv, TypeInv
      <3> QED BY <3>1, <3>2, EndKeeps
    <2>6. CASE AcquireRoom(t) BY <2>6, AcquireRoomKeeps
    <2>7. CASE ShareKey(t) BY <2>7, ShareKeyKeeps
    <2>8. CASE Shared(t) BY <2>8, SharedKeeps
    <2>9. CASE Encrypt(t) BY <2>9, EncryptKeeps
    <2>10. CASE Outgoing(t) BY <2>10, OutgoingKeeps
    <2>11. CASE Deliver(t) BY <2>11, DeliverKeeps
    <2>12. CASE AnswerLost(t)
      <3>1. /\ End(t) /\ UNCHANGED <<member, delivered, outgoing, machine, wanted>>
            /\ task[t].pc = "mark" /\ excused' = excused \cup {task[t].next}
        BY <2>12 DEF AnswerLost, At
      <3>2. excused \in SUBSET Messages /\ task[t].next \in Messages
        BY <3>1 DEF IInv, TypeInv, MessageInv, Queue
      <3> QED BY <3>1, <3>2, EndKeeps
    <2>13. CASE MarkAsSent(t) BY <2>13, MarkAsSentKeeps
    <2> QED BY <1>1, <2>1, <2>2, <2>3, <2>4, <2>5, <2>6, <2>7, <2>8, <2>9,
               <2>10, <2>11, <2>12, <2>13 DEF TaskStep
  <1>2. ASSUME NEW u \in Users, JoinOrLeave(u) PROVE IInv'
    <2>1. /\ member' \in {member \ {u}, member \cup {u}}
          /\ UNCHANGED <<delivered, outgoing, machine, locks, task, excused, wanted>>
      BY <1>2 DEF JoinOrLeave
    <2>2. TypeInv' BY <2>1 DEF IInv, TypeInv, machine, locks
    <2>3. KeyInv' BY <2>1 DEF IInv, KeyInv, Keys, machine, locks
    <2>4. MessageInv' BY <2>1 DEF IInv, MessageInv, Queue, Marking, Sent, locks
    <2> QED BY <2>2, <2>3, <2>4 DEF IInv
  <1>3. CASE UNCHANGED engineVars
    <2>1. TypeInv' BY <1>3 DEF IInv, TypeInv, engineVars, machine, locks
    <2>2. KeyInv' BY <1>3 DEF IInv, KeyInv, Keys, engineVars, machine, locks
    <2>3. MessageInv' BY <1>3 DEF IInv, MessageInv, Queue, Marking, Sent, engineVars, locks
    <2> QED BY <2>1, <2>2, <2>3 DEF IInv
  <1> QED BY <1>1, <1>2, <1>3 DEF Next

LEMMA Inductive ==
    ASSUME Nobody \notin Tasks
    PROVE  Spec => []IInv
  <1>1. Init => IInv BY InitHolds
  <1>2. IInv /\ [Next]_engineVars => IInv' BY NextKeeps
  <1> QED BY <1>1, <1>2, PTL DEF Spec

-----------------------------------------------------------------------------
(* Theorems *)

\* The variables of run(), prepareEncrypt() and the machine have their types,
\* and the sync lock is held by whoever reads devices or claims keys.
THEOREM EngineTypes ==
    ASSUME Nobody \notin Tasks
    PROVE  Spec => [](TypeInv /\ KeyInv)
  <1>1. IInv => TypeInv /\ KeyInv BY DEF IInv
  <1> QED BY <1>1, Inductive, PTL

\* Room keys are with the members before a message is encrypted, and the
\* machine's own messages arrive, once, but for the exceptions MessagesHaveKeys
\* names: whatever runs of RustEngine overlap, and whatever fails.
THEOREM KeysAndMessages ==
    ASSUME Nobody \notin Tasks
    PROVE  Spec => []MessagesHaveKeys
  <1>1. IInv => MessagesHaveKeys
    <2> SUFFICES ASSUME IInv PROVE MessagesHaveKeys OBVIOUS
    <2>1. KeyBeforeMessage BY DEF IInv, KeyInv, Keys, KeyBeforeMessage, At
    <2>2. SentForSure BY DEF IInv, MessageInv, Sent, SentForSure
    <2> QED BY <2>1, <2>2 DEF MessagesHaveKeys
  <1> QED BY <1>1, Inductive, PTL

=============================================================================
