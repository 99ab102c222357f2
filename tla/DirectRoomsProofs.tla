-------------------------- MODULE DirectRoomsProofs --------------------------
(***************************************************************************)
(* Theorems about DirectRooms, for every number of users, rooms, calls and  *)
(* reads in flight, and every set of faults.                               *)
(***************************************************************************)
EXTENDS DirectRooms, SequenceTheorems, WellFoundedInduction, TLAPS

(* Sequences                                                                *)

\* A set of numbers has a least one: induction over data without an operator.
LEMMA Least ==
    ASSUME NEW T, T \subseteq Nat, T # {}
    PROVE  \E x \in T : \A y \in T : x <= y
<1> DEFINE R == {ss \in Nat \X Nat : ss[1] < ss[2]}
<1>1. IsWellFoundedOn(R, Nat)
  BY NatLessThanWellFounded DEF OpToRel
<1>2. \E x \in T : \A y \in T : <<y, x>> \notin R
  <2> HIDE DEF R
  <2> QED BY <1>1, WFMin
<1>3. \A x, y \in T : <<y, x>> \notin R => x <= y
  OBVIOUS
<1> QED BY <1>2, <1>3

\* What the recursion of Without computes of the first n rooms.
KeptSteps(f, rooms, dropped, n) ==
    /\ f = [i \in 0..n |-> f[i]]
    /\ f[0] = <<>>
    /\ \A i \in 1..n :
           f[i] = IF rooms[i] \in dropped THEN f[i - 1] ELSE Append(f[i - 1], rooms[i])

\* There is a function that the recursion of Without defines, for every length.
LEMMA KeptExists ==
    ASSUME NEW rooms, NEW dropped, NEW len \in Nat
    PROVE  \E f : KeptSteps(f, rooms, dropped, len)
<1> DEFINE Has(n) == \E f : KeptSteps(f, rooms, dropped, n)
           T == {k \in Nat : ~Has(k)}
<1>1. Has(0)
  <2>1. KeptSteps([i \in 0..0 |-> <<>>], rooms, dropped, 0)
    BY DEF KeptSteps
  <2> QED BY <2>1
<1>2. ASSUME NEW n \in Nat, Has(n)
      PROVE  Has(n + 1)
  <2>1. PICK f : KeptSteps(f, rooms, dropped, n)
    BY <1>2
  <2> DEFINE next == IF rooms[n + 1] \in dropped THEN f[n] ELSE Append(f[n], rooms[n + 1])
             g == [i \in 0..(n + 1) |-> IF i = n + 1 THEN next ELSE f[i]]
  <2>2. g = [i \in 0..(n + 1) |-> g[i]] /\ g[0] = <<>> /\ g[n + 1] = next
    BY <2>1 DEF KeptSteps
  <2>3. \A i \in 0..n : g[i] = f[i]
    OBVIOUS
  <2>4. ASSUME NEW i \in 1..(n + 1)
        PROVE  g[i] = IF rooms[i] \in dropped THEN g[i - 1] ELSE Append(g[i - 1], rooms[i])
    <3> HIDE DEF g
    <3>1. CASE i = n + 1
      <4>1. g[i - 1] = f[n]
        BY <2>3, <3>1
      <4> QED BY <2>2, <3>1, <4>1
    <3>2. CASE i # n + 1
      <4>1. i \in 1..n /\ i \in 0..n /\ i - 1 \in 0..n
        BY <3>2
      <4>2. g[i] = f[i] /\ g[i - 1] = f[i - 1]
        BY <2>3, <4>1
      <4>3. f[i] = IF rooms[i] \in dropped THEN f[i - 1] ELSE Append(f[i - 1], rooms[i])
        BY <2>1, <4>1 DEF KeptSteps
      <4> QED BY <4>2, <4>3
    <3> QED BY <3>1, <3>2
  <2>5. KeptSteps(g, rooms, dropped, n + 1)
    <3> HIDE DEF g
    <3> QED BY <2>2, <2>4 DEF KeptSteps
  <2> QED BY <2>5
<1>3. T = {}
  <2> SUFFICES ASSUME T # {} PROVE FALSE
    OBVIOUS
  <2>1. PICK n \in T : \A y \in T : n <= y
    <3>1. T \subseteq Nat
      OBVIOUS
    <3> HIDE DEF T
    <3> QED BY <3>1, Least
  <2> HIDE DEF Has
  <2>2. n \in Nat /\ ~Has(n)
    OBVIOUS
  <2>3. n # 0
    BY <1>1, <2>2
  <2>4. n - 1 \in Nat /\ n - 1 \notin T
    BY <2>1, <2>2, <2>3
  <2>5. Has(n - 1)
    BY <2>4
  <2>6. Has((n - 1) + 1)
    BY <1>2, <2>4, <2>5
  <2>7. (n - 1) + 1 = n
    BY <2>2
  <2> QED BY <2>2, <2>6, <2>7
<1>4. Has(len)
  <2> HIDE DEF Has
  <2> QED BY <1>3
<1> QED BY <1>4

\* What is left of a sequence of rooms is a sequence of rooms.
LEMMA WithoutType ==
    ASSUME NEW rooms \in Seq(Rooms), NEW dropped
    PROVE  Without(rooms, dropped) \in Seq(Rooms)
<1> DEFINE len == Len(rooms)
           Def(f) == [n \in 0..len |->
                         IF n = 0 THEN <<>>
                         ELSE IF rooms[n] \in dropped THEN f[n - 1]
                         ELSE Append(f[n - 1], rooms[n])]
           kept == CHOOSE f : f = Def(f)
<1>1. len \in Nat /\ \A i \in 1..len : rooms[i] \in Rooms
  BY ElementOfSeq
<1>2. PICK f : KeptSteps(f, rooms, dropped, len)
  BY <1>1, KeptExists
<1>3. \E g : g = Def(g)
  <2>1. f = Def(f)
    <3>1. f = [n \in 0..len |-> f[n]]
      BY <1>2 DEF KeptSteps
    <3>2. ASSUME NEW n \in 0..len
          PROVE  f[n] = IF n = 0 THEN <<>>
                        ELSE IF rooms[n] \in dropped THEN f[n - 1]
                        ELSE Append(f[n - 1], rooms[n])
      <4>1. CASE n = 0
        BY <1>2, <4>1 DEF KeptSteps
      <4>2. CASE n # 0
        <5>1. n \in 1..len
          BY <1>1, <4>2
        <5> QED BY <1>2, <4>2, <5>1 DEF KeptSteps
      <4> QED BY <4>1, <4>2
    <3> QED BY <3>1, <3>2
  <2> HIDE DEF Def
  <2> QED BY <2>1
<1>4. kept = Def(kept)
  BY <1>3
<1>5. Without(rooms, dropped) = kept[len]
  BY DEF Without
<1>6. /\ kept[0] = <<>>
      /\ \A n \in 1..len : kept[n] = kept[n - 1] \/ kept[n] = Append(kept[n - 1], rooms[n])
  <2>1. \A n \in 0..len : kept[n] = IF n = 0 THEN <<>>
                                   ELSE IF rooms[n] \in dropped THEN kept[n - 1]
                                   ELSE Append(kept[n - 1], rooms[n])
    <3> HIDE DEF kept
    <3> QED BY <1>4
  <2> HIDE DEF kept
  <2>2. 0 \in 0..len /\ \A n \in 1..len : n \in 0..len /\ n # 0
    BY <1>1
  <2> QED BY <2>1, <2>2
<1> HIDE DEF kept
<1> DEFINE T == {k \in 0..len : kept[k] \notin Seq(Rooms)}
<1>7. T = {}
  <2> SUFFICES ASSUME T # {} PROVE FALSE
    OBVIOUS
  <2>1. PICK n \in T : \A y \in T : n <= y
    <3>1. T \subseteq Nat
      BY <1>1
    <3> HIDE DEF T
    <3> QED BY <3>1, Least
  <2>2. n \in 0..len /\ kept[n] \notin Seq(Rooms)
    OBVIOUS
  <2>3. n # 0
    <3>1. <<>> \in Seq(Rooms)
      BY EmptySeq
    <3> QED BY <1>6, <2>2, <3>1
  <2>4. n \in 1..len /\ n - 1 \in 0..len /\ n - 1 \notin T
    BY <1>1, <2>1, <2>2, <2>3
  <2>5. kept[n - 1] \in Seq(Rooms) /\ rooms[n] \in Rooms
    BY <1>1, <2>4
  <2>6. Append(kept[n - 1], rooms[n]) \in Seq(Rooms)
    BY <2>5, AppendProperties
  <2> QED BY <1>6, <2>2, <2>4, <2>5, <2>6
<1> QED
  BY <1>1, <1>5, <1>7

-----------------------------------------------------------------------------
(* The inductive invariant                                                  *)

\* Reads in flight are distinct, and only they have answers and are known to
\* come from an event.
ReadsInv ==
    /\ \A i, j \in 1..Len(sent) : sent[i] = sent[j] => i = j
    /\ \A g \in Gets : g \in byEvent \/ answer[g] # None =>
           \E i \in 1..Len(sent) : sent[i] = g

\* Only a call that has not gone on waits for a GET, and until one has come back a
\* call that awaited a GET cannot have gone on.
AwaitInv ==
    /\ ~loaded => ready # None
    /\ \A c \in Calls :
           /\ awaits[c] \in Gets => pc[c] \in {"update", "start", "starting", "get"}
           /\ ~loaded /\ pc[c] \in {"get", "checking", "fixing", "fixed"} => awaits[c] # None

\* A map is on its way to the homeserver only in the calls that wait for it.
PutInv == \A c \in Calls : put[c] # None <=> pc[c] \in {"saving", "fixing"}

\* With no change to report, the reads from the last one that an event caused on
\* are answered with what the account data is.
AnswersInv ==
    ~dirty =>
        \A i \in 1..Len(sent) :
            (\A j \in 1..Len(sent) : j > i => sent[j] \notin byEvent)
                => answer[sent[i]] \in {None, account}

\* Once a GET has come back, with no change to report or to be read and none on
\* its way, the cache is what the account data is.
CacheInv ==
    ~dirty /\ ~spoiled /\ loaded /\ byEvent = {} /\ (\A c \in Calls : put[c] = None)
        => cached = account

\* A call about a user knows which.
UserInv ==
    \A c \in Calls :
        pc[c] \notin {"idle", "update", "start", "starting"} => user[c] \in Users

IInv == TypeOK /\ UserInv /\ ReadsInv /\ AwaitInv /\ PutInv /\ AnswersInv /\ CacheInv

-----------------------------------------------------------------------------
(* The steps, by whose they are                                             *)

\* A GET is sent for an event, answered, or comes back.
ReadStep(g) == AnswerGet(g) \/ Load(g) \/ LoadFails(g) \/ AccountDataEvent(g)

\* A call goes on.
CallStep(c) ==
    \/ CallUpdate(c)
    \/ \E g \in Gets : Update(c, g)
    \/ BeginSync(c)
    \/ StorePut(c) \/ PutFails(c) \/ Saved(c)
    \/ \E u \in Users : CallGet(c, u)
    \/ Fix(c)
    \/ \E unread \in SUBSET Rooms : Checked(c, unread)
    \/ Fixed(c)
    \/ \E r \in Rooms : Create(c, r)
    \/ CreateFails(c)
    \/ \E u \in Users, r \in Rooms : Invite(c, u, r)

\* Another client writes, or a user leaves.
OutsideStep == \E u \in Users, r \in Rooms : ExternalWrite(u, r) \/ Leave(u, r)

LEMMA NextSteps ==
    Next <=> (\E g \in Gets : ReadStep(g)) \/ (\E c \in Calls : CallStep(c)) \/ OutsideStep
  BY DEF Next, ReadStep, CallStep, OutsideStep

-----------------------------------------------------------------------------
(* Type correctness                                                         *)

LEMMA WithType ==
    ASSUME NEW map \in Map, NEW u, NEW r \in Rooms
    PROVE  With(map, u, r) \in Map
<1>1. \A q \in Seq(Rooms) : <<r>> \o q \in Seq(Rooms)
  <2>1. <<r>> \in Seq(Rooms)
    OBVIOUS
  <2> QED BY <2>1, ConcatProperties
<1> QED BY <1>1 DEF With, Map

\* A read is settled: it is taken out of those in flight.
LEMMA SettleType ==
    ASSUME TypeOK, NEW g \in Gets, Settle(g)
    PROVE  /\ loaded' \in BOOLEAN
           /\ sent' \in Seq(Gets)
           /\ answer' \in [Gets -> Map \cup {None}]
           /\ byEvent' \subseteq Gets
           /\ ready' \in Gets \cup {None, Undefined}
           /\ awaits' \in [Calls -> Gets \cup {None, Undefined}]
<1>1. PICK i \in 1..Len(sent) : sent[i] = g /\ sent' = RemoveAt(sent, i)
  BY DEF Settle
<1>2. sent \in Seq(Gets) /\ Len(sent) \in Nat
  BY DEF TypeOK
<1>3. /\ SubSeq(sent, 1, i - 1) \in Seq(Gets)
      /\ SubSeq(sent, i + 1, Len(sent)) \in Seq(Gets)
  BY <1>2
<1>4. sent' \in Seq(Gets)
  BY <1>1, <1>3, ConcatProperties DEF RemoveAt
<1> QED BY <1>4 DEF Settle, TypeOK

LEMMA EndType ==
    ASSUME TypeOK, NEW c \in Calls, End(c)
    PROVE  /\ pc' \in [Calls -> CallPcs]
           /\ user' \in [Calls -> Users \cup {None}]
           /\ awaits' \in [Calls -> Gets \cup {None, Undefined}]
           /\ current' \in [Calls -> Seq(Rooms)]
<1>1. <<>> \in Seq(Rooms)
  OBVIOUS
<1> QED BY <1>1 DEF End, TypeOK, CallPcs

LEMMA ChooseType ==
    ASSUME TypeOK, NEW c \in Calls, Choose(c)
    PROVE  /\ pc' \in [Calls -> CallPcs]
           /\ user' \in [Calls -> Users \cup {None}]
           /\ awaits' \in [Calls -> Gets \cup {None, Undefined}]
           /\ current' \in [Calls -> Seq(Rooms)]
<1>1. CASE End(c)
  BY <1>1, EndType
<1>2. CASE ~End(c)
  <2>1. /\ pc' = [pc EXCEPT ![c] = "creating"] /\ user' = user
        /\ awaits' = [awaits EXCEPT ![c] = None]
        /\ current' = [current EXCEPT ![c] = <<>>]
    BY <1>2 DEF Choose
  <2>2. <<>> \in Seq(Rooms) /\ "creating" \in CallPcs
    BY DEF CallPcs
  <2> QED BY <2>1, <2>2 DEF TypeOK
<1> QED BY <1>1, <1>2

LEMMA PersistType ==
    ASSUME TypeOK, NEW c \in Calls, NEW map \in Map, Persist(c, map)
    PROVE  /\ cached' \in Map
           /\ put' \in [Calls -> Map \cup {None}]
  BY DEF Persist, TypeOK

LEMMA SendGetType ==
    ASSUME TypeOK, NEW g \in Gets, SendGet(g)
    PROVE  sent' \in Seq(Gets) /\ answer' = answer
  BY AppendProperties DEF SendGet, TypeOK

LEMMA InitType == Init => TypeOK
<1> SUFFICES ASSUME Init PROVE TypeOK
  OBVIOUS
<1>1. <<>> \in Seq(Rooms) /\ Empty \in Map
  BY DEF Empty, Map
<1>2. account \in Map /\ members \in [Rooms -> SUBSET Users]
  <2>1. PICK u \in Users, r \in Rooms :
            /\ account \in {Empty, With(Empty, u, r)}
            /\ members = [q \in Rooms |-> IF q = r THEN {u} ELSE {}]
    BY DEF Init
  <2> QED BY <1>1, <2>1, WithType
<1>3. ready \in Gets \cup {None, Undefined} /\ sent \in Seq(Gets)
  BY DEF Init
<1> QED BY <1>1, <1>2, <1>3 DEF Init, TypeOK, CallPcs

LEMMA ReadTypes ==
    ASSUME TypeOK, NEW g \in Gets,
           ReadStep(g)
    PROVE  TypeOK'
<1>1. CASE AnswerGet(g)
  BY <1>1 DEF AnswerGet, TypeOK, server, calls
<1>2. CASE Load(g)
  <2>1. cached' \in Map
    BY <1>2 DEF Load, TypeOK
  <2> QED BY <1>2, <2>1, SettleType DEF Load, TypeOK, server
<1>3. CASE LoadFails(g)
  <2>1. cached' \in Map
    BY <1>3 DEF LoadFails, Empty, Map
  <2> QED BY <1>3, <2>1, SettleType DEF LoadFails, TypeOK, server
<1>4. CASE AccountDataEvent(g)
  BY <1>4, SendGetType DEF AccountDataEvent, TypeOK, server, calls
<1> QED BY <1>1, <1>2, <1>3, <1>4 DEF ReadStep

LEMMA CallTypes ==
    ASSUME TypeOK, UserInv, NEW c \in Calls,
           CallStep(c)
    PROVE  TypeOK'
<1> USE DEF server, reads
<1>1. CASE CallUpdate(c)
  BY <1>1 DEF CallUpdate, TypeOK, CallPcs
<1>2. ASSUME NEW g \in Gets, Update(c, g) PROVE TypeOK'
  <2>1. /\ pc' \in [Calls -> CallPcs]
        /\ user' \in [Calls -> Users \cup {None}]
        /\ awaits' \in [Calls -> Gets \cup {None, Undefined}]
        /\ current' \in [Calls -> Seq(Rooms)]
    <3>1. CASE pc[c] = "update" /\ End(c)
      BY <3>1, EndType
    <3>2. CASE ~(pc[c] = "update" /\ End(c))
      BY <1>2, <3>2 DEF Update, TypeOK, CallPcs
    <3> QED BY <3>1, <3>2
  <2>2. sent' \in Seq(Gets) /\ answer' = answer /\ ready' = g
    BY <1>2, SendGetType DEF Update
  <2> QED BY <1>2, <2>1, <2>2 DEF Update, TypeOK
<1>13. CASE BeginSync(c)
  BY <1>13, EndType DEF BeginSync, TypeOK
<1>3. CASE StorePut(c)
  BY <1>3 DEF StorePut, TypeOK, CallPcs
<1>4. CASE PutFails(c)
  BY <1>4, EndType DEF PutFails, TypeOK
<1>5. CASE Saved(c)
  BY <1>5, EndType DEF Saved, TypeOK
<1>6. ASSUME NEW u \in Users, CallGet(c, u) PROVE TypeOK'
  BY <1>6 DEF CallGet, TypeOK, CallPcs
<1>7. CASE Fix(c)
  <2>1. /\ pc' \in [Calls -> CallPcs]
        /\ user' \in [Calls -> Users \cup {None}]
        /\ awaits' \in [Calls -> Gets \cup {None, Undefined}]
        /\ current' \in [Calls -> Seq(Rooms)]
    <3>1. CASE cached[user[c]] = <<>>
      BY <1>7, <3>1, ChooseType DEF Fix
    <3>2. CASE cached[user[c]] # <<>>
      <4>1. user[c] \in Users /\ cached[user[c]] \in Seq(Rooms)
        BY <1>7 DEF Fix, TypeOK, Map, UserInv
      <4> QED BY <1>7, <3>2, <4>1 DEF Fix, TypeOK, CallPcs
    <3> QED BY <3>1, <3>2
  <2> QED BY <1>7, <2>1 DEF Fix, TypeOK
<1>8. ASSUME NEW unread \in SUBSET Rooms, Checked(c, unread) PROVE TypeOK'
  <2> DEFINE toKeep == Without(current[c], unread \cup {r \in Rooms : user[c] \notin members[r]})
  <2>1. toKeep \in Seq(Rooms)
    BY WithoutType DEF TypeOK
  <2>2. [cached EXCEPT ![user[c]] = toKeep] \in Map
    BY <2>1 DEF TypeOK, Map
  <2>3. \/ Choose(c) /\ UNCHANGED <<cached, put>>
        \/ /\ Persist(c, [cached EXCEPT ![user[c]] = toKeep])
           /\ pc' = [pc EXCEPT ![c] = "fixing"]
           /\ UNCHANGED <<user, awaits, current>>
    BY <1>8 DEF Checked
  <2>4. spoiled' \in BOOLEAN
    BY <1>8 DEF Checked, TypeOK
  <2>5. UNCHANGED <<server, dirty, reads>>
    BY <1>8 DEF Checked
  <2> HIDE DEF toKeep
  <2>6. CASE Choose(c) /\ UNCHANGED <<cached, put>>
    BY <2>4, <2>5, <2>6, ChooseType DEF TypeOK
  <2>7. CASE /\ Persist(c, [cached EXCEPT ![user[c]] = toKeep])
             /\ pc' = [pc EXCEPT ![c] = "fixing"]
             /\ UNCHANGED <<user, awaits, current>>
    <3>1. cached' \in Map /\ put' \in [Calls -> Map \cup {None}]
      BY <2>2, <2>7, PersistType
    <3> QED BY <2>4, <2>5, <2>7, <3>1 DEF TypeOK, CallPcs
  <2> QED BY <2>3, <2>6, <2>7
<1>9. CASE Fixed(c)
  BY <1>9, ChooseType DEF Fixed, TypeOK
<1>10. ASSUME NEW r \in Rooms, Create(c, r) PROVE TypeOK'
  <2>1. cached' \in Map /\ put' \in [Calls -> Map \cup {None}]
    <3>1. With(cached, user[c], r) \in Map
      BY WithType DEF TypeOK
    <3> QED BY <1>10, <3>1, PersistType DEF Create
  <2>2. members' \in [Rooms -> SUBSET Users]
    <3>1. user[c] \in Users
      BY <1>10 DEF Create, UserInv
    <3> QED BY <1>10, <3>1 DEF Create, TypeOK
  <2> QED BY <1>10, <2>1, <2>2 DEF Create, TypeOK, CallPcs
<1>11. CASE CreateFails(c)
  BY <1>11, EndType DEF CreateFails, TypeOK
<1>12. ASSUME NEW u \in Users, NEW r \in Rooms, Invite(c, u, r) PROVE TypeOK'
  <2>1. cached' \in Map /\ put' \in [Calls -> Map \cup {None}]
    <3>1. With(cached, u, r) \in Map
      BY WithType DEF TypeOK
    <3> QED BY <1>12, <3>1, PersistType DEF Invite
  <2>2. /\ members' \in [Rooms -> SUBSET Users]
        /\ pc' \in [Calls -> CallPcs] /\ user' \in [Calls -> Users \cup {None}]
    BY <1>12 DEF Invite, TypeOK, CallPcs
  <2>3. UNCHANGED <<account, dirty, reads, awaits, current, spoiled>>
    BY <1>12 DEF Invite
  <2> QED BY <2>1, <2>2, <2>3 DEF TypeOK
<1> QED
  BY <1>1, <1>2, <1>3, <1>4, <1>5, <1>6, <1>7, <1>8, <1>9, <1>10, <1>11, <1>12,
     <1>13
     DEF CallStep

LEMMA OutsideTypes == TypeOK /\ OutsideStep => TypeOK'
<1> SUFFICES ASSUME TypeOK, NEW u \in Users, NEW r \in Rooms,
                    ExternalWrite(u, r) \/ Leave(u, r)
             PROVE  TypeOK'
  BY DEF OutsideStep
<1> USE DEF reads, calls
<1>1. CASE ExternalWrite(u, r)
  <2>1. account' \in Map
    BY <1>1, WithType DEF ExternalWrite, TypeOK
  <2> QED BY <1>1, <2>1 DEF ExternalWrite, TypeOK
<1>2. CASE Leave(u, r)
  BY <1>2 DEF Leave, TypeOK
<1> QED BY <1>1, <1>2

-----------------------------------------------------------------------------
(* The calls                                                                *)

LEMMA NotMap == None \notin Map /\ None \notin Gets
  BY DirectAssumption DEF Map

\* Only the steps of a call change where it waits, whom it is about and what it
\* has on its way, and each leaves the three together.
LEMMA CallsKeep ==
    ASSUME TypeOK, UserInv, PutInv, NEW c \in Calls, CallStep(c)
    PROVE  UserInv' /\ PutInv'
<1> USE DEF TypeOK
<1>1. ASSUME /\ \A d \in Calls \ {c} :
                    pc'[d] = pc[d] /\ user'[d] = user[d] /\ put'[d] = put[d]
             /\ pc'[c] \notin {"idle", "update", "start", "starting"} => user'[c] \in Users
             /\ put'[c] # None <=> pc'[c] \in {"saving", "fixing"}
      PROVE  UserInv' /\ PutInv'
  BY <1>1 DEF UserInv, PutInv
<1>2. CASE CallUpdate(c)
  BY <1>1, <1>2 DEF CallUpdate, PutInv
<1>3. ASSUME NEW g \in Gets, Update(c, g) PROVE UserInv' /\ PutInv'
  BY <1>1, <1>3 DEF Update, End, PutInv
<1>15. CASE BeginSync(c)
  BY <1>1, <1>15 DEF BeginSync, End, PutInv
<1>4. CASE StorePut(c)
  BY <1>1, <1>4 DEF StorePut, PutInv, UserInv
<1>5. CASE PutFails(c)
  BY <1>1, <1>5 DEF PutFails, End
<1>6. CASE Saved(c)
  BY <1>1, <1>6 DEF Saved, End, PutInv
<1>7. ASSUME NEW u \in Users, CallGet(c, u) PROVE UserInv' /\ PutInv'
  BY <1>1, <1>7 DEF CallGet, PutInv
<1>8. ASSUME Choose(c), put' = put, pc[c] \in {"get", "checking", "fixed"}
      PROVE  UserInv' /\ PutInv'
  BY <1>1, <1>8 DEF Choose, End, PutInv, UserInv
<1>9. CASE Fix(c)
  <2>1. CASE cached[user[c]] = <<>>
    BY <1>8, <1>9, <2>1 DEF Fix
  <2>2. CASE cached[user[c]] # <<>>
    BY <1>1, <1>9, <2>2 DEF Fix, PutInv, UserInv
  <2> QED BY <2>1, <2>2
<1>10. ASSUME NEW unread \in SUBSET Rooms, Checked(c, unread) PROVE UserInv' /\ PutInv'
  <2> DEFINE toKeep == Without(current[c], unread \cup {r \in Rooms : user[c] \notin members[r]})
             map == [cached EXCEPT ![user[c]] = toKeep]
  <2>1. toKeep \in Seq(Rooms)
    BY WithoutType
  <2>2. map # None
    <3>1. map \in Map
      BY <2>1 DEF Map
    <3> QED BY <3>1, NotMap
  <2>3. \/ Choose(c) /\ put' = put
        \/ put' = [put EXCEPT ![c] = map] /\ pc' = [pc EXCEPT ![c] = "fixing"] /\ user' = user
    BY <1>10 DEF Checked, Persist
  <2>4. pc[c] = "checking"
    BY <1>10 DEF Checked
  <2> HIDE DEF map
  <2> QED BY <1>1, <1>8, <2>2, <2>3, <2>4 DEF UserInv
<1>11. CASE Fixed(c)
  BY <1>8, <1>11 DEF Fixed
<1>12. ASSUME NEW r \in Rooms, Create(c, r) PROVE UserInv' /\ PutInv'
  <2>1. With(cached, user[c], r) # None
    BY WithType, NotMap
  <2> QED BY <1>1, <1>12, <2>1 DEF Create, Persist, UserInv
<1>13. CASE CreateFails(c)
  BY <1>1, <1>13 DEF CreateFails, End, PutInv
<1>14. ASSUME NEW u \in Users, NEW r \in Rooms, Invite(c, u, r) PROVE UserInv' /\ PutInv'
  <2>1. With(cached, u, r) # None
    BY WithType, NotMap
  <2> QED BY <1>1, <1>14, <2>1 DEF Invite, Persist
<1> QED
  BY <1>2, <1>3, <1>4, <1>5, <1>6, <1>7, <1>9, <1>10, <1>11, <1>12, <1>13, <1>14,
     <1>15
     DEF CallStep

\* What a call leaves of the account data, the cache and what is on its way: if
\* it changes one of them, a change is to be reported, a request failed, or a map
\* is on its way.
LEMMA CallEffect ==
    ASSUME TypeOK, PutInv, NEW c \in Calls, CallStep(c)
    PROVE  /\ dirty' \/ (dirty' = dirty /\ account' = account)
           /\ spoiled => spoiled'
           /\ \/ cached' = cached /\ put' = put
              \/ dirty' \/ spoiled'
              \/ \E d \in Calls : put'[d] # None
<1> USE DEF server, TypeOK
<1>1. ASSUME NEW map \in Map, Persist(c, map) PROVE \E d \in Calls : put'[d] # None
  BY <1>1, NotMap DEF Persist
<1>2. CASE \/ CallUpdate(c) \/ (\E g \in Gets : Update(c, g)) \/ BeginSync(c)
           \/ StorePut(c) \/ PutFails(c) \/ Saved(c) \/ \E u \in Users : CallGet(c, u)
           \/ Fix(c) \/ Fixed(c) \/ CreateFails(c)
  BY <1>2 DEF CallUpdate, Update, BeginSync, StorePut, PutFails, Saved, CallGet, Fix,
              Fixed, CreateFails
<1>3. ASSUME NEW unread \in SUBSET Rooms, Checked(c, unread)
      PROVE  /\ dirty' = dirty /\ account' = account
             /\ spoiled => spoiled'
             /\ (cached' = cached /\ put' = put) \/ \E d \in Calls : put'[d] # None
  <2> DEFINE toKeep == Without(current[c], unread \cup {r \in Rooms : user[c] \notin members[r]})
             map == [cached EXCEPT ![user[c]] = toKeep]
  <2>1. toKeep \in Seq(Rooms)
    BY WithoutType
  <2>2. map \in Map
    BY <2>1 DEF Map
  <2>3. (cached' = cached /\ put' = put) \/ Persist(c, map)
    BY <1>3 DEF Checked
  <2> HIDE DEF map
  <2> QED BY <1>1, <1>3, <2>2, <2>3 DEF Checked
<1>4. ASSUME NEW r \in Rooms, Create(c, r) \/ \E u \in Users : Invite(c, u, r)
      PROVE  /\ dirty' = dirty /\ account' = account /\ spoiled' = spoiled
             /\ \E d \in Calls : put'[d] # None
  <2>1. PICK u : Persist(c, With(cached, u, r))
    BY <1>4 DEF Create, Invite
  <2>2. With(cached, u, r) \in Map
    BY WithType
  <2> QED BY <1>1, <1>4, <2>1, <2>2 DEF Create, Invite
<1> QED BY <1>2, <1>3, <1>4 DEF CallStep

\* A call goes on only when it waits for no GET.
LEMMA CallAwaits ==
    ASSUME TypeOK, AwaitInv, PutInv, NEW c \in Calls, CallStep(c)
    PROVE  AwaitInv'
<1> USE DEF TypeOK
<1> DEFINE Late(p) == p \in {"get", "checking", "fixing", "fixed"}
<1>1. ASSUME loaded' = loaded, ready' = ready \/ ready' \in Gets,
             \A d \in Calls \ {c} : pc'[d] = pc[d] /\ awaits'[d] = awaits[d],
             awaits'[c] \in Gets => pc'[c] \in {"update", "start", "starting", "get"},
             ~loaded /\ Late(pc'[c]) => awaits'[c] # None
      PROVE  AwaitInv'
  <2>1. ~loaded' => ready' # None
    BY <1>1, NotMap DEF AwaitInv
  <2> QED BY <1>1, <2>1 DEF AwaitInv
<1>2. ASSUME End(c), loaded' = loaded, ready' = ready \/ ready' \in Gets PROVE AwaitInv'
  BY <1>1, <1>2, NotMap DEF End
<1>3. CASE CallUpdate(c)
  BY <1>1, <1>3 DEF CallUpdate, reads
<1>4. ASSUME NEW g \in Gets, Update(c, g) PROVE AwaitInv'
  <2>1. CASE End(c)
    BY <1>2, <1>4, <2>1 DEF Update
  <2>2. CASE ~End(c)
    BY <1>1, <1>4, <2>2 DEF Update
  <2> QED BY <2>1, <2>2
<1>5. CASE BeginSync(c)
  BY <1>2, <1>5 DEF BeginSync
<1>6. CASE StorePut(c)
  BY <1>1, <1>6 DEF StorePut, AwaitInv, PutInv, reads
<1>7. CASE PutFails(c) \/ Saved(c) \/ CreateFails(c)
  BY <1>2, <1>7 DEF PutFails, Saved, CreateFails, reads
<1>8. ASSUME NEW u \in Users, CallGet(c, u) PROVE AwaitInv'
  BY <1>1, <1>8 DEF CallGet, AwaitInv, reads
<1>9. ASSUME Choose(c), UNCHANGED reads PROVE AwaitInv'
  <2>1. CASE End(c)
    BY <1>2, <1>9, <2>1 DEF reads
  <2>2. CASE ~End(c)
    BY <1>1, <1>9, <2>2, NotMap DEF Choose, reads
  <2> QED BY <2>1, <2>2
<1>10. CASE Fix(c)
  <2>1. CASE cached[user[c]] = <<>>
    BY <1>9, <1>10, <2>1 DEF Fix
  <2>2. CASE cached[user[c]] # <<>>
    BY <1>1, <1>10, <2>2 DEF Fix, Ready, AwaitInv, reads
  <2> QED BY <2>1, <2>2
<1>11. ASSUME NEW unread \in SUBSET Rooms, Checked(c, unread) PROVE AwaitInv'
  <2>1. CASE Choose(c)
    BY <1>9, <1>11, <2>1 DEF Checked
  <2>2. CASE ~Choose(c)
    <3>1. pc[c] = "checking" /\ pc' = [pc EXCEPT ![c] = "fixing"] /\ UNCHANGED <<reads, awaits>>
      BY <1>11, <2>2 DEF Checked
    <3> QED BY <1>1, <3>1 DEF AwaitInv, reads
  <2> QED BY <2>1, <2>2
<1>12. CASE Fixed(c)
  BY <1>9, <1>12 DEF Fixed
<1>13. CASE (\E r \in Rooms : Create(c, r)) \/ \E u \in Users, r \in Rooms : Invite(c, u, r)
  <2>1. pc[c] \in {"idle", "creating"} /\ pc' = [pc EXCEPT ![c] = "saving"] /\ UNCHANGED <<reads, awaits>>
    BY <1>13 DEF Create, Invite
  <2> QED BY <1>1, <2>1 DEF AwaitInv, reads
<1> QED
  BY <1>3, <1>4, <1>5, <1>6, <1>7, <1>8, <1>10, <1>11, <1>12, <1>13 DEF CallStep

-----------------------------------------------------------------------------
(* The reads                                                                *)

\* A GET is sent behind those in flight.
LEMMA SendGetEffect ==
    ASSUME TypeOK, ReadsInv, NEW g \in Gets, SendGet(g)
    PROVE  /\ Len(sent) \in Nat /\ Len(sent') = Len(sent) + 1
           /\ \A i \in 1..Len(sent) : sent'[i] = sent[i] /\ sent[i] \in Gets /\ sent[i] # g
           /\ sent'[Len(sent')] = g
           /\ answer' = answer /\ answer[g] = None /\ g \notin byEvent
<1>1. sent \in Seq(Gets) /\ Len(sent) \in Nat /\ \A i \in 1..Len(sent) : sent[i] \in Gets
  BY ElementOfSeq DEF TypeOK
<1>2. sent' = Append(sent, g) /\ answer' = answer
  BY DEF SendGet
<1>3. Len(sent') = Len(sent) + 1 /\ sent'[Len(sent) + 1] = g
      /\ \A i \in 1..Len(sent) : sent'[i] = sent[i]
  BY <1>1, <1>2, AppendProperties
<1>4. \A i \in 1..Len(sent) : sent[i] # g
  BY <1>1 DEF SendGet, ToSet
<1> QED BY <1>1, <1>2, <1>3, <1>4 DEF ReadsInv

\* The GET that has been in flight longest is over.
LEMMA SettleEffect ==
    ASSUME TypeOK, ReadsInv, NEW g \in Gets, Settle(g), g = Head(sent)
    PROVE  /\ Len(sent) \in Nat /\ Len(sent) >= 1 /\ sent[1] = g
           /\ Len(sent') = Len(sent) - 1
           /\ \A i \in 1..Len(sent') : sent'[i] = sent[i + 1] /\ sent[i + 1] \in Gets /\ sent[i + 1] # g
           /\ byEvent' = byEvent \ {g}
           /\ answer' = [answer EXCEPT ![g] = None]
<1>1. sent \in Seq(Gets) /\ Len(sent) \in Nat /\ \A i \in 1..Len(sent) : sent[i] \in Gets
  BY ElementOfSeq DEF TypeOK
<1>2. PICK k \in 1..Len(sent) : sent[k] = g /\ sent' = RemoveAt(sent, k)
  BY DEF Settle
<1>3. 1 \in 1..Len(sent) /\ sent[1] = g /\ k = 1
  BY <1>1, <1>2 DEF ReadsInv
<1>4. sent' = SubSeq(sent, 1, 0) \o SubSeq(sent, 2, Len(sent))
  BY <1>2, <1>3 DEF RemoveAt
<1>5. Len(sent') = Len(sent) - 1 /\ \A i \in 1..(Len(sent) - 1) : sent'[i] = sent[i + 1]
  <2>1. SubSeq(sent, 1, 0) = <<>>
    BY <1>1
  <2>2. /\ SubSeq(sent, 2, Len(sent)) \in Seq(Gets)
        /\ Len(SubSeq(sent, 2, Len(sent))) = Len(sent) - 1
        /\ \A i \in 1..(Len(sent) - 1) : SubSeq(sent, 2, Len(sent))[i] = sent[i + 1]
    <3> DEFINE n == Len(sent)
    <3>1. n \in Nat /\ n >= 1 /\ 2 \in Int /\ \A i \in 2..n : sent[i] \in Gets
      BY <1>1, <1>3
    <3>2. CASE n = 1
      BY <1>1, <3>2
    <3>3. CASE n # 1
      <4>1. 2 \in 1..(n + 1) /\ n \in 1..n
        BY <3>1, <3>3
      <4>2. /\ SubSeq(sent, 2, n) \in Seq(Gets)
            /\ Len(SubSeq(sent, 2, n)) = n - 2 + 1
            /\ \A i \in 1..(n - 2 + 1) : SubSeq(sent, 2, n)[i] = sent[2 + i - 1]
        <5> HIDE DEF n
        <5> QED BY <3>1, <4>1, SubSeqProperties
      <4>3. n - 2 + 1 = n - 1 /\ \A i \in 1..(n - 1) : 2 + i - 1 = i + 1
        BY <3>1
      <4> QED BY <4>2, <4>3
    <3> QED BY <3>2, <3>3
  <2>3. sent' = SubSeq(sent, 2, Len(sent))
    BY <1>4, <2>1, <2>2, ConcatEmptySeq
  <2> QED BY <2>2, <2>3
<1>6. \A i \in 1..(Len(sent) - 1) : sent[i + 1] \in Gets /\ sent[i + 1] # g
  BY <1>1, <1>3 DEF ReadsInv
<1> QED BY <1>1, <1>3, <1>5, <1>6 DEF Settle

\* The part of the invariant that is about reads
ReadsPart == ReadsInv /\ AnswersInv /\ CacheInv

\* A GET is sent, for an event with nothing more to report or by update().
LEMMA SendKeeps ==
    ASSUME TypeOK, ReadsInv, AnswersInv, CacheInv, NEW g \in Gets, SendGet(g),
           UNCHANGED <<account, cached, loaded, spoiled, put>>,
           \/ dirty' = dirty /\ byEvent' = byEvent
           \/ dirty' = FALSE /\ byEvent' = byEvent \cup {g}
    PROVE  ReadsPart'
<1>1. /\ Len(sent) \in Nat /\ Len(sent') = Len(sent) + 1
      /\ \A i \in 1..Len(sent) : sent'[i] = sent[i] /\ sent[i] \in Gets /\ sent[i] # g
      /\ sent'[Len(sent')] = g
      /\ answer' = answer /\ answer[g] = None /\ g \notin byEvent
  BY SendGetEffect
<1>2. \A i \in 1..Len(sent') : i \in 1..Len(sent) \/ i = Len(sent')
  BY <1>1
<1>3. 1..Len(sent) \subseteq 1..Len(sent') /\ Len(sent') \in 1..Len(sent')
      /\ Len(sent') \notin 1..Len(sent)
  BY <1>1
<1>4. ReadsInv'
  <2>1. \A i, j \in 1..Len(sent') : sent'[i] = sent'[j] => i = j
    BY <1>1, <1>2 DEF ReadsInv
  <2>2. \A h \in Gets : h \in byEvent' \/ answer'[h] # None =>
            \E i \in 1..Len(sent') : sent'[i] = h
    BY <1>1, <1>3 DEF ReadsInv
  <2> QED BY <2>1, <2>2 DEF ReadsInv
<1>6. AnswersInv'
  <2> SUFFICES ASSUME ~dirty', NEW i \in 1..Len(sent'),
                      \A j \in 1..Len(sent') : j > i => sent'[j] \notin byEvent'
               PROVE  answer'[sent'[i]] \in {None, account'}
    BY DEF AnswersInv
  <2>1. CASE i = Len(sent')
    BY <1>1, <2>1
  <2>2. CASE i # Len(sent')
    <3>1. i \in 1..Len(sent) /\ Len(sent') > i
      BY <1>1, <2>2
    <3>2. g \notin byEvent'
      BY <1>1, <1>3, <3>1
    <3>3. ~dirty /\ byEvent' = byEvent
      BY <3>2
    <3>4. \A j \in 1..Len(sent) : j > i => sent[j] \notin byEvent
      BY <1>1, <1>3, <3>3
    <3> QED BY <1>1, <3>1, <3>3, <3>4 DEF AnswersInv
  <2> QED BY <2>1, <2>2
<1>7. CacheInv'
  BY DEF CacheInv
<1> QED BY <1>4, <1>6, <1>7 DEF ReadsPart

\* The GET that has been in flight longest comes back, and the cache is what it
\* says, or a failure is noted.
LEMMA SettleKeeps ==
    ASSUME TypeOK, ReadsInv, AnswersInv, NEW g \in Gets, Settle(g), g = Head(sent),
           UNCHANGED <<account, dirty>>,
           spoiled' \/ (answer[g] # None /\ cached' = answer[g])
    PROVE  ReadsPart'
<1>1. /\ Len(sent) \in Nat /\ Len(sent) >= 1 /\ sent[1] = g
      /\ Len(sent') = Len(sent) - 1
      /\ \A i \in 1..Len(sent') : sent'[i] = sent[i + 1] /\ sent[i + 1] \in Gets /\ sent[i + 1] # g
      /\ byEvent' = byEvent \ {g}
      /\ answer' = [answer EXCEPT ![g] = None]
  BY SettleEffect
<1>2. answer'[g] = None /\ \A h \in Gets : h # g => answer'[h] = answer[h]
  BY <1>1 DEF TypeOK
<1>3. \A i \in 1..Len(sent') : i + 1 \in 1..Len(sent)
  BY <1>1
<1>4. \A j \in 1..Len(sent) : j = 1 \/ (j - 1 \in 1..Len(sent') /\ sent'[j - 1] = sent[j])
  BY <1>1
<1>5. ReadsInv'
  <2>1. \A i, j \in 1..Len(sent') : sent'[i] = sent'[j] => i = j
    <3> SUFFICES ASSUME NEW i \in 1..Len(sent'), NEW j \in 1..Len(sent'), sent'[i] = sent'[j]
                 PROVE  i = j
      OBVIOUS
    <3>1. sent[i + 1] = sent[j + 1] /\ i + 1 \in 1..Len(sent) /\ j + 1 \in 1..Len(sent)
      BY <1>1, <1>3
    <3>2. i + 1 = j + 1
      BY <3>1 DEF ReadsInv
    <3> QED BY <3>2
  <2>2. ASSUME NEW h \in Gets, h \in byEvent' \/ answer'[h] # None
        PROVE  \E i \in 1..Len(sent') : sent'[i] = h
    <3>1. h # g /\ (h \in byEvent \/ answer[h] # None)
      BY <1>1, <1>2, <2>2
    <3>2. PICK j \in 1..Len(sent) : sent[j] = h
      BY <3>1 DEF ReadsInv
    <3>3. j # 1
      BY <1>1, <3>1, <3>2
    <3> QED BY <1>4, <3>2, <3>3
  <2> QED BY <2>1, <2>2 DEF ReadsInv
<1>7. AnswersInv'
  <2> SUFFICES ASSUME ~dirty', NEW i \in 1..Len(sent'),
                      \A j \in 1..Len(sent') : j > i => sent'[j] \notin byEvent'
               PROVE  answer'[sent'[i]] \in {None, account'}
    BY DEF AnswersInv
  <2>1. ASSUME NEW j \in 1..Len(sent), j > i + 1 PROVE sent[j] \notin byEvent
    <3>1. j - 1 \in 1..Len(sent') /\ j - 1 > i /\ sent'[j - 1] = sent[j]
      BY <1>1, <1>4, <2>1
    <3>2. sent[j] # g
      BY <1>1, <2>1 DEF ReadsInv
    <3> QED BY <1>1, <3>1, <3>2
  <2>2. answer[sent[i + 1]] \in {None, account}
    BY <1>3, <2>1 DEF AnswersInv
  <2> QED BY <1>1, <1>2, <2>2
<1>8. CacheInv'
  <2> SUFFICES ASSUME ~dirty, ~spoiled', byEvent' = {}
               PROVE  cached' = account
    BY DEF CacheInv
  <2>1. \A j \in 1..Len(sent) : j > 1 => sent[j] \notin byEvent
    BY <1>1 DEF ReadsInv
  <2>2. answer[sent[1]] \in {None, account}
    BY <1>1, <2>1 DEF AnswersInv
  <2> QED BY <1>1, <2>2
<1> QED BY <1>5, <1>7, <1>8 DEF ReadsPart

LEMMA AnswerKeeps ==
    ASSUME TypeOK, ReadsPart, NEW g \in Gets, AnswerGet(g)
    PROVE  ReadsPart'
<1> USE DEF ReadsPart
<1>1. /\ answer' = [answer EXCEPT ![g] = account] /\ \E i \in 1..Len(sent) : sent[i] = g
      /\ UNCHANGED <<server, dirty, cached, sent, byEvent, calls, loaded, spoiled>>
  <2>1. sent \in Seq(Gets)
    BY DEF TypeOK
  <2> QED BY <2>1 DEF AnswerGet, ToSet
<1>2. answer'[g] = account /\ \A h \in Gets : h # g => answer'[h] = answer[h]
  BY <1>1 DEF TypeOK
<1>3. \A i \in 1..Len(sent) : sent[i] \in Gets
  BY ElementOfSeq DEF TypeOK
<1>4. ReadsInv'
  BY <1>1, <1>2 DEF ReadsInv
<1>6. AnswersInv'
  BY <1>1, <1>2, <1>3 DEF AnswersInv, server
<1>7. CacheInv'
  BY <1>1 DEF CacheInv, server, calls
<1> QED BY <1>4, <1>6, <1>7

-----------------------------------------------------------------------------
(* The invariant holds                                                      *)

LEMMA InitInv == Init => IInv
<1> SUFFICES ASSUME Init PROVE IInv
  OBVIOUS
<1>1. Len(sent) = 0
  BY DEF Init
<1>2. ReadsInv /\ AnswersInv
  BY <1>1 DEF Init, ReadsInv, AnswersInv
<1>3. AwaitInv
  BY DirectAssumption DEF Init, AwaitInv
<1>4. CacheInv /\ UserInv /\ PutInv
  BY DEF Init, CacheInv, UserInv, PutInv
<1> QED BY <1>2, <1>3, <1>4, InitType DEF IInv

LEMMA ReadKeeps ==
    ASSUME InOrder, IInv, NEW g \in Gets, ReadStep(g)
    PROVE  IInv'
<1> USE DEF IInv
<1>1. TypeOK'
  BY ReadTypes
<1>2. UserInv' /\ PutInv'
  BY DEF ReadStep, AnswerGet, Load, LoadFails, AccountDataEvent, UserInv, PutInv, calls
<1>3. ReadsPart'
  <2>1. CASE AnswerGet(g)
    BY <2>1, AnswerKeeps DEF ReadsPart
  <2>2. CASE Load(g)
    BY <2>2, SettleKeeps DEF Load, server
  <2>3. CASE LoadFails(g)
    BY <2>3, SettleKeeps DEF LoadFails, server
  <2>4. CASE AccountDataEvent(g)
    BY <2>4, SendKeeps DEF AccountDataEvent, server, calls
  <2> QED BY <2>1, <2>2, <2>3, <2>4 DEF ReadStep
<1>4. AwaitInv'
  <2>1. CASE AnswerGet(g) \/ AccountDataEvent(g)
    BY <2>1 DEF AnswerGet, AccountDataEvent, AwaitInv, calls
  <2>2. CASE Load(g) \/ LoadFails(g)
    <3>1. /\ loaded' /\ pc' = pc
          /\ awaits' = [c \in Calls |-> IF awaits[c] = g THEN None ELSE awaits[c]]
      BY <2>2 DEF Load, LoadFails, Settle
    <3> QED BY <3>1, NotMap DEF AwaitInv
  <2> QED BY <2>1, <2>2 DEF ReadStep
<1> QED BY <1>1, <1>2, <1>3, <1>4 DEF ReadsPart

LEMMA CallKeeps ==
    ASSUME IInv, NEW c \in Calls, CallStep(c)
    PROVE  IInv'
<1> USE DEF IInv
<1>1. TypeOK' /\ UserInv' /\ PutInv' /\ AwaitInv'
  BY CallTypes, CallsKeep, CallAwaits
<1>2. CASE \E g \in Gets : Update(c, g)
  BY <1>1, <1>2, SendKeeps DEF Update, ReadsPart, server
<1>3. CASE ~ \E g \in Gets : Update(c, g)
  <2>1. UNCHANGED <<sent, answer, byEvent, loaded>>
    BY <1>3 DEF CallStep, CallUpdate, BeginSync, StorePut, PutFails, Saved, CallGet, Fix,
                Checked, Fixed, Create, CreateFails, Invite, reads
  <2>2. /\ dirty' \/ (dirty' = dirty /\ account' = account)
        /\ spoiled => spoiled'
        /\ \/ cached' = cached /\ put' = put
           \/ dirty' \/ spoiled'
           \/ \E d \in Calls : put'[d] # None
    BY CallEffect
  <2>3. ReadsInv' /\ AnswersInv' /\ CacheInv'
    BY <2>1, <2>2 DEF ReadsInv, AnswersInv, CacheInv
  <2> QED BY <1>1, <2>3
<1> QED BY <1>2, <1>3

LEMMA OutsideKeeps ==
    ASSUME IInv, OutsideStep
    PROVE  IInv'
<1> USE DEF IInv
<1>1. TypeOK'
  BY OutsideTypes
<1>2. /\ UNCHANGED <<cached, reads, calls, spoiled>>
      /\ dirty' \/ (dirty' = dirty /\ account' = account)
  BY DEF OutsideStep, ExternalWrite, Leave
<1>3. UserInv' /\ PutInv' /\ ReadsInv' /\ AwaitInv' /\ AnswersInv' /\ CacheInv'
  BY <1>2 DEF UserInv, PutInv, ReadsInv, AwaitInv, AnswersInv, CacheInv, reads, calls
<1> QED BY <1>1, <1>3

LEMMA NextInv == InOrder /\ IInv /\ [Next]_vars => IInv'
<1> SUFFICES ASSUME InOrder, IInv, [Next]_vars PROVE IInv'
  OBVIOUS
<1>1. CASE Next
  BY <1>1, NextSteps, ReadKeeps, CallKeeps, OutsideKeeps
<1>2. CASE UNCHANGED vars
  BY <1>2 DEF vars, server, reads, calls, IInv, TypeOK, UserInv, ReadsInv, AwaitInv,
              PutInv, AnswersInv, CacheInv
<1> QED BY <1>1, <1>2

LEMMA Invariant == ASSUME InOrder PROVE Spec => []IInv
<1>1. IInv /\ [Next]_vars => IInv'
  BY NextInv
<1> QED BY <1>1, InitInv, PTL DEF Spec

-----------------------------------------------------------------------------
(* Theorems                                                                 *)

\* Every variable has its type (src/src/DMs.ts), whatever order reads return in.
THEOREM TypeCorrect == Spec => [](TypeOK /\ UserInv /\ PutInv)
<1>1. Init => TypeOK /\ UserInv /\ PutInv
  BY InitInv DEF IInv
<1>2. TypeOK /\ UserInv /\ PutInv /\ [Next]_vars => TypeOK' /\ UserInv' /\ PutInv'
  <2> SUFFICES ASSUME TypeOK, UserInv, PutInv, [Next]_vars
               PROVE  TypeOK' /\ UserInv' /\ PutInv'
    OBVIOUS
  <2>1. ASSUME NEW g \in Gets, ReadStep(g) PROVE TypeOK' /\ UserInv' /\ PutInv'
    <3>1. UserInv' /\ PutInv'
      BY <2>1 DEF ReadStep, AnswerGet, Load, LoadFails, AccountDataEvent, UserInv,
                  PutInv, calls
    <3> QED BY <2>1, <3>1, ReadTypes
  <2>2. ASSUME NEW c \in Calls, CallStep(c) PROVE TypeOK' /\ UserInv' /\ PutInv'
    BY <2>2, CallTypes, CallsKeep
  <2>3. CASE OutsideStep
    <3>1. UserInv' /\ PutInv'
      BY <2>3 DEF OutsideStep, ExternalWrite, Leave, UserInv, PutInv, calls
    <3> QED BY <2>3, <3>1, OutsideTypes
  <2>4. CASE UNCHANGED vars
    BY <2>4 DEF vars, server, reads, calls, TypeOK, UserInv, PutInv
  <2> QED BY <2>1, <2>2, <2>3, <2>4, NextSteps
<1> QED BY <1>1, <1>2, PTL DEF Spec

\* If reads return in the order they were sent, the cache is the account data
\* whenever nothing is in flight and nothing failed since it was last loaded,
\* however calls, events and other clients overlapped before
\* (updateFromAccountData and persistCache, src/src/DMs.ts).
THEOREM ReflectedHolds == ASSUME InOrder PROVE Spec => []Reflected
<1>1. IInv => Reflected
  <2> SUFFICES ASSUME IInv, Quiet, loaded, ~spoiled PROVE cached = account
    BY DEF Reflected
  <2>1. Len(sent) = 0
    BY DEF Quiet
  <2>2. byEvent = {}
    BY <2>1 DEF IInv, ReadsInv, TypeOK
  <2> QED BY <2>2 DEF IInv, CacheInv, Quiet
<1> QED BY <1>1, Invariant, PTL

\* A call made after update() takes the step to create a room only for a user the
\* account data has no chat with, unless something else is under way or failed
\* (getOrCreateDm and fixDms, src/src/DMs.ts): before it, the cache it looks at is
\* the account data.
THEOREM CreatesHold == ASSUME InOrder PROVE Spec => CreatesWhenNeeded
<1>1. ASSUME IInv, [Next]_vars, NEW c \in Calls,
             ToCreate(c), Settled(c), awaits[c] # Undefined
      PROVE  ~HasDm(user[c])
  <2> USE DEF IInv
  <2>1. \A d \in Calls : d # c => put[d] = None
    BY <1>1 DEF Settled, PutInv
  <2>2. \E d \in Calls : CallStep(d)
    BY <1>1, NextSteps DEF ToCreate, ReadStep, AnswerGet, Load, LoadFails, AccountDataEvent,
                           OutsideStep, ExternalWrite, Leave, vars, calls
  <2>3. PICK d \in Calls : CallStep(d)
    BY <2>2
  <2>4. d = c /\ pc[c] \in {"get", "checking", "fixed"} /\ cached[user[c]] = <<>>
        /\ (pc[c] = "get" => Ready(c))
    BY <1>1, <2>3 DEF ToCreate, CallStep, CallUpdate, Update, BeginSync, StorePut, PutFails,
                Saved, CallGet, Fix, Checked, Fixed, Create, CreateFails, Invite, Choose, End,
                TypeOK
  <2>5. loaded
    <3>1. awaits[c] \notin Gets
      BY <1>1, <2>4 DEF AwaitInv, Ready
    <3>2. awaits[c] = None
      BY <1>1, <3>1 DEF TypeOK
    <3> QED BY <1>1, <2>4, <3>2 DEF AwaitInv
  <2>6. cached = account
    BY <1>1, <2>1, <2>4, <2>5 DEF CacheInv, PutInv, Settled
  <2> QED BY <2>4, <2>6 DEF HasDm, ToSet
<1>2. IInv /\ [Next]_vars =>
          [\A c \in Calls :
               ToCreate(c) /\ Settled(c) /\ awaits[c] # Undefined => ~HasDm(user[c])]_vars
  BY <1>1
<1> QED BY <1>2, Invariant, PTL DEF Spec, CreatesWhenNeeded
=============================================================================
