--------------------------- MODULE SyncRoomsProofs ---------------------------
(***************************************************************************)
(* Theorems about SyncRooms, for any rooms, logs of any bounded length and  *)
(* any gaps in the homeserver's responses.                                  *)
(***************************************************************************)
EXTENDS SyncRooms, FiniteSetTheorems, SequenceTheorems, NaturalsInduction,
        WellFoundedInduction, TLAPS

\* Counting join events gives a natural number.
LEMMA JoinsFromType ==
    ASSUME NEW r \in Rooms, log[r] \in Seq(Kinds), NEW n \in Nat
    PROVE  JoinsFrom(r, n) \in Nat
<1> DEFINE J == {i \in n..Len(log[r]) : log[r][i] = "join"}
<1>1. Len(log[r]) \in Nat
  OBVIOUS
<1>2. IsFiniteSet(n..Len(log[r]))
  BY <1>1, FS_Interval
<1>3. IsFiniteSet(J)
  BY <1>2, FS_Subset
<1>4. Cardinality(J) \in Nat
  BY <1>3, FS_CardinalityType
<1>. QED
  BY <1>4 DEF JoinsFrom

-----------------------------------------------------------------------------
(* Types *)

LEMMA InitType == ASSUME RoomsAssumption, Init PROVE TypeOK
BY DEF Init, TypeOK, Token, RoomsAssumption

LEMMA TellType ==
    ASSUME TypeOK, NEW r \in Rooms, NEW news \in News, Tell(r, news)
    PROVE  /\ telling' \in [room : Rooms, news : News]
           /\ view' \subseteq Rooms
           /\ lastNews' \in [Rooms -> News \cup {"nothing"}]
           /\ flaws' = flaws /\ spotless' = spotless
BY DEF Tell, With, TypeOK, News

LEMMA StepType ==
    ASSUME RoomsAssumption, TypeOK, [Next]_vars
    PROVE  TypeOK'
<1> USE DEF server, response, history
<1>1. ASSUME NEW r \in Rooms, NEW kind \in Kinds, NewEvent(r, kind)
      PROVE  TypeOK'
  <2>1. log' \in [Rooms -> Seq(Kinds)]
    BY <1>1 DEF NewEvent, TypeOK
  <2>. QED
    BY <1>1, <2>1 DEF NewEvent, TypeOK
<1>2. ASSUME Start PROVE TypeOK'
  BY <1>2 DEF Start, TypeOK
<1>3. ASSUME ListJoined PROVE TypeOK'
  BY <1>3 DEF ListJoined, TypeOK, JoinedNow
<1>4. ASSUME NEW left \in LeftRoomsSent, NEW timelines \in TimelinesSent,
             Respond(left, timelines)
      PROVE  TypeOK'
  <2>1. LogEnds \in [Rooms -> Nat]
    BY DEF LogEnds, TypeOK
  <2>2. left \subseteq Rooms /\ InviteSection \subseteq Rooms
    BY DEF LeftRoomsSent, LeaveSection, InviteSection
  <2>3. timelines \in [Rooms -> Nat]
    BY DEF TimelinesSent, RoomsAssumption
  <2>4. /\ flaws' \subseteq {"batch", "listener", "gap"}
        /\ spotless' \in BOOLEAN
    BY <1>4 DEF Respond, Flaw, TypeOK
  <2>. QED
    BY <1>4, <2>1, <2>2, <2>3, <2>4 DEF Respond, TypeOK, Token
<1>5. ASSUME NEW r \in Rooms, TellLeave(r) PROVE TypeOK'
  <2>1. Tell(r, "room.leave") /\ "room.leave" \in News
    BY <1>5 DEF TellLeave, News
  <2>. QED
    BY <1>5, <2>1, TellType DEF TellLeave, TypeOK
<1>6. ASSUME NEW r \in Rooms, TellInvite(r) PROVE TypeOK'
  <2>1. Tell(r, "room.invite") /\ "room.invite" \in News
    BY <1>6 DEF TellInvite, News
  <2>. QED
    BY <1>6, <2>1, TellType DEF TellInvite, TypeOK
<1>7. ASSUME NEW r \in Rooms, TimelineJoin(r) PROVE TypeOK'
  <2>1. joins' \in [Rooms -> Nat]
    BY <1>7 DEF TimelineJoin, TypeOK
  <2>2. CASE r \in lastJoined
    BY <1>7, <2>1, <2>2 DEF TimelineJoin, TypeOK
  <2>3. CASE r \notin lastJoined
    <3>1. Tell(r, "room.join") /\ "room.join" \in News
      BY <1>7, <2>3 DEF TimelineJoin, News
    <3>. QED
      BY <1>7, <2>1, <3>1, TellType DEF TimelineJoin, TypeOK
  <2>. QED
    BY <2>2, <2>3
<1>8. ASSUME Told PROVE TypeOK'
  <2>1. telling \in [room : Rooms, news : News]
    BY <1>8 DEF Told, TypeOK
  <2>2. lastJoined' \subseteq Rooms
    BY <1>8, <2>1 DEF Told, With, TypeOK, News
  <2>. QED
    BY <1>8, <2>2 DEF Told, TypeOK
<1>9. ASSUME Processed PROVE TypeOK'
  BY <1>9 DEF Processed, TypeOK
<1>10. ASSUME BatchFails PROVE TypeOK'
  BY <1>10 DEF BatchFails, DropResponse, Flaw, TypeOK
<1>11. ASSUME Quit PROVE TypeOK'
  BY <1>11 DEF Quit, DropResponse, TypeOK, Token
<1>12. ASSUME UNCHANGED vars PROVE TypeOK'
  BY <1>12 DEF vars, TypeOK
<1>. QED
  BY <1>1, <1>2, <1>3, <1>4, <1>5, <1>6, <1>7, <1>8, <1>9, <1>10, <1>11, <1>12
     DEF Next

\* Every reachable state of homeserver, response and client is well-formed.
THEOREM TypeCorrect == ASSUME RoomsAssumption PROVE Spec => []TypeOK
<1>1. Init => TypeOK
  BY InitType
<1>2. TypeOK /\ [Next]_vars => TypeOK'
  BY StepType
<1>. QED
  BY <1>1, <1>2, PTL DEF Spec

-----------------------------------------------------------------------------
(* room.join is news *)

\* The list of joined rooms is what the bot was told, or will be as soon as
\* the listeners of the event being announced are done; only a listener that
\* throws separates the two, until the next start().
ListFollowsView ==
    /\ pc # "processing" => telling = NoNews
    /\ ("listener" \notin flaws /\ pc \in {"syncing", "processing"}) =>
           view = With(lastJoined, telling.room, telling.news)

IInv == TypeOK /\ ListFollowsView

\* With nothing being told the list is as it will be.
LEMMA NothingChanges ==
    With(lastJoined, NoNews.room, NoNews.news) = lastJoined
BY DEF With, NoNews

LEMMA TellFollows ==
    ASSUME ListFollowsView, pc = "processing", telling = NoNews,
           NEW r \in Rooms, NEW news \in News, Tell(r, news),
           pc' = pc, lastJoined' = lastJoined
    PROVE  ListFollowsView'
<1>1. telling'.room = r /\ telling'.news = news
  BY DEF Tell
<1>2. flaws' = flaws
  BY DEF Tell
<1>3. "listener" \notin flaws => view = lastJoined
  BY NothingChanges DEF ListFollowsView
<1>4. "listener" \notin flaws =>
          view' = With(lastJoined', telling'.room, telling'.news)
  BY <1>1, <1>3 DEF Tell, With
<1>. QED
  BY <1>2, <1>4 DEF ListFollowsView, With

LEMMA FollowsStep ==
    ASSUME RoomsAssumption, IInv, [Next]_vars
    PROVE  ListFollowsView'
<1> USE DEF IInv, response, history
<1>1. ASSUME NEW r \in Rooms, NEW kind \in Kinds, NewEvent(r, kind)
      PROVE  ListFollowsView'
  BY <1>1 DEF NewEvent, ListFollowsView, With
<1>2. ASSUME Start PROVE ListFollowsView'
  BY <1>2 DEF Start, ListFollowsView
<1>3. ASSUME ListJoined PROVE ListFollowsView'
  <2>1. telling' = NoNews /\ view' = lastJoined'
    BY <1>3 DEF ListJoined, ListFollowsView
  <2>2. With(lastJoined', telling'.room, telling'.news) = lastJoined'
    BY <2>1 DEF With, NoNews
  <2>. QED
    BY <2>1, <2>2 DEF ListFollowsView
<1>4. ASSUME NEW left \in LeftRoomsSent, NEW timelines \in TimelinesSent,
             Respond(left, timelines)
      PROVE  ListFollowsView'
  <2>1. "listener" \notin flaws' => "listener" \notin flaws
    BY <1>4 DEF Respond, Flaw
  <2>. QED
    BY <1>4, <2>1 DEF Respond, ListFollowsView, With
<1>5. ASSUME NEW r \in Rooms, TellLeave(r) PROVE ListFollowsView'
  BY <1>5, TellFollows DEF TellLeave, News
<1>6. ASSUME NEW r \in Rooms, TellInvite(r) PROVE ListFollowsView'
  BY <1>6, TellFollows DEF TellInvite, News
<1>7. ASSUME NEW r \in Rooms, TimelineJoin(r) PROVE ListFollowsView'
  <2>1. CASE r \in lastJoined
    BY <1>7, <2>1 DEF TimelineJoin, ListFollowsView, With
  <2>2. CASE r \notin lastJoined
    BY <1>7, <2>2, TellFollows DEF TimelineJoin, News
  <2>. QED
    BY <2>1, <2>2
<1>8. ASSUME Told PROVE ListFollowsView'
  <2>1. telling' = NoNews
    BY <1>8 DEF Told
  <2>2. lastJoined' = With(lastJoined, telling.room, telling.news)
    BY <1>8 DEF Told
  <2>3. With(lastJoined', telling'.room, telling'.news) = lastJoined'
    BY <2>1 DEF With, NoNews
  <2>. QED
    BY <1>8, <2>1, <2>2, <2>3 DEF Told, ListFollowsView
<1>9. ASSUME Processed PROVE ListFollowsView'
  BY <1>9 DEF Processed, ListFollowsView, With
<1>10. ASSUME BatchFails PROVE ListFollowsView'
  <2>1. CASE telling = NoNews
    BY <1>10, <2>1 DEF BatchFails, DropResponse, Flaw, ListFollowsView, With
  <2>2. CASE telling # NoNews
    BY <1>10, <2>2 DEF BatchFails, DropResponse, Flaw, ListFollowsView
  <2>. QED
    BY <2>1, <2>2
<1>11. ASSUME Quit PROVE ListFollowsView'
  BY <1>11 DEF Quit, DropResponse, ListFollowsView
<1>12. ASSUME UNCHANGED vars PROVE ListFollowsView'
  BY <1>12 DEF vars, ListFollowsView, With
<1>. QED
  BY <1>1, <1>2, <1>3, <1>4, <1>5, <1>6, <1>7, <1>8, <1>9, <1>10, <1>11, <1>12
     DEF Next

LEMMA InvariantHolds ==
    ASSUME RoomsAssumption PROVE Spec => []IInv
<1>1. Init => IInv
  BY InitType DEF Init, IInv, ListFollowsView
<1>2. IInv /\ [Next]_vars => IInv'
  BY StepType, FollowsStep DEF IInv
<1>. QED
  BY <1>1, <1>2, PTL DEF Spec

\* An announcement is a Tell of the room it names.
JoinStep ==
    \A r \in Rooms :
        TellsJoin(r) /\ "listener" \notin flaws => r \notin view

LEMMA JoinStepHolds ==
    ASSUME IInv, [Next]_vars PROVE JoinStep
<1> SUFFICES ASSUME NEW r \in Rooms,
                    telling' = [room |-> r, news |-> "room.join"],
                    telling' # telling,
                    "listener" \notin flaws
             PROVE  r \notin view
  BY DEF JoinStep, TellsJoin
<1> USE DEF response, history
<1>1. telling' # NoNews
  BY DEF NoNews
<1>2. telling'.news = "room.join" /\ telling'.room = r
  OBVIOUS
<1>3. ASSUME NEW q \in Rooms, TimelineJoin(q) PROVE r \notin view
  <2>1. q \notin lastJoined
    BY <1>3 DEF TimelineJoin
  <2>2. telling' = [room |-> q, news |-> "room.join"]
    BY <1>3, <2>1 DEF TimelineJoin, Tell
  <2>3. q = r
    BY <2>2, <1>2
  <2>. QED
    BY <1>3, <2>1, <2>3, NothingChanges
       DEF TimelineJoin, IInv, ListFollowsView
<1>4. ASSUME NEW q \in Rooms, TellLeave(q) PROVE FALSE
  BY <1>4, <1>2 DEF TellLeave, Tell
<1>5. ASSUME NEW q \in Rooms, TellInvite(q) PROVE FALSE
  BY <1>5, <1>2 DEF TellInvite, Tell
<1>6. ASSUME \/ \E q \in Rooms, kind \in Kinds : NewEvent(q, kind)
             \/ Start \/ ListJoined \/ Told \/ Processed \/ BatchFails \/ Quit
             \/ \E left \in LeftRoomsSent, timelines \in TimelinesSent :
                    Respond(left, timelines)
             \/ UNCHANGED vars
      PROVE  FALSE
  BY <1>6, <1>1 DEF NewEvent, Start, ListJoined, Told, Processed, BatchFails,
                    Quit, DropResponse, Respond, vars
<1>. QED
  BY <1>3, <1>4, <1>5, <1>6 DEF Next

\* room.join is emitted only for a room the bot does not believe to be in,
\* whatever the homeserver leaves out and wherever a batch is cut short, unless
\* a listener of a membership event threw since start().
THEOREM JoinsAreNews ==
    ASSUME RoomsAssumption PROVE Spec => JoinIsNews
<1>1. IInv /\ [Next]_vars => [JoinStep]_vars
  BY JoinStepHolds
<1>2. Spec => [][JoinStep]_vars
  BY <1>1, InvariantHolds, PTL DEF Spec
<1>. QED
  BY <1>2 DEF JoinIsNews, JoinStep
-----------------------------------------------------------------------------
(* What the bot is told, against what the homeserver has *)

\* Where the persisted token stands in a room's log.
StoredAt(r) == IF storedToken = NoToken THEN 0 ELSE storedToken[r]

\* A room was joined, or left, after the n first events.
JoinedAfter(r, n) == \E i \in (n + 1)..Len(log[r]) : log[r][i] = "join"
LeftAfter(r, n) ==
    \E i \in (n + 1)..Len(log[r]) : log[r][i] \in {"leave", "ban"}

Running == pc \in {"syncing", "processing"}

\* The tokens are of the past, the persisted one of the earlier past.
TokensAreOld(r) ==
    /\ Since(r) <= Len(log[r])
    /\ StoredAt(r) <= Len(log[r])
    /\ Running => StoredAt(r) <= Since(r)

\* What is left of a response is true of the room, or the room has changed
\* since, and then the next response will say so.
PendingIsTrue(r) ==
    /\ r \in toLeave /\ Membership(r) = "join" => JoinedAfter(r, Since(r))
    /\ r \in toLeave /\ Membership(r) = "invite" =>
           r \in toInvite \/ Since(r) < Len(log[r])
    /\ r \in toInvite /\ Membership(r) \in {"leave", "ban"} =>
           LeftAfter(r, Since(r))
    /\ joins[r] > 0 /\ Membership(r) # "join" => LeftAfter(r, Since(r))

\* Where the bot's view of a room is wrong, this response or the next one
\* holds the event that puts it right.
ViewCatchesUp(r) ==
    Running /\ flaws = {} =>
        /\ r \in view /\ Membership(r) # "join" =>
               r \in toLeave \/ LeftAfter(r, Since(r))
        /\ r \notin view /\ Membership(r) = "join" =>
               joins[r] > 0 \/ JoinedAfter(r, Since(r))

\* What the bot has not heard of a room is in this response or after it ...
HeardCatchesUp(r) ==
    Running /\ PersistAfter /\ spotless =>
        /\ Membership(r) = "invite" =>
               \/ lastNews[r] = "room.invite"
               \/ r \in toInvite
               \/ Since(r) < Len(log[r])
        /\ Membership(r) \in {"leave", "ban"} =>
               \/ lastNews[r] = "room.leave"
               \/ r \in toLeave
               \/ LeftAfter(r, Since(r))

\* ... and after the persisted token, where a client that is restarted in the
\* middle of a response will start.
HeardSurvives(r) ==
    PersistAfter /\ spotless =>
        /\ Membership(r) = "invite" =>
               lastNews[r] = "room.invite" \/ StoredAt(r) < Len(log[r])
        /\ Membership(r) \in {"leave", "ban"} =>
               lastNews[r] = "room.leave" \/ LeftAfter(r, StoredAt(r))
        /\ pc = "syncing" => Since(r) = StoredAt(r)
        /\ r \in toLeave \/ r \in toInvite \/ joins[r] > 0 =>
               StoredAt(r) < Len(log[r])

RoomFollows(r) ==
    /\ TokensAreOld(r)
    /\ PendingIsTrue(r)
    /\ ViewCatchesUp(r)
    /\ HeardCatchesUp(r)
    /\ HeardSurvives(r)

\* Nothing of a response outlives its processing.
Drained ==
    pc # "processing" =>
        toLeave = {} /\ toInvite = {} /\ \A r \in Rooms : joins[r] = 0

\* The inductive invariant of what the bot is told.
Follows == Drained /\ \A r \in Rooms : RoomFollows(r)

\* A set of natural numbers that is not empty has a least element.
LEMMA Least ==
    ASSUME NEW T, T \subseteq Nat, T # {}
    PROVE  \E x \in T : \A y \in T : x <= y
<1> DEFINE R == {ss \in Nat \X Nat : ss[1] < ss[2]}
<1>1. IsWellFoundedOn(R, Nat)
  BY NatLessThanWellFounded DEF OpToRel
<1>2. \E x \in T : \A y \in T : <<y, x>> \notin R
  <2> HIDE DEF R
  <2> QED BY <1>1, WFMin
<1>3. \A x, y \in T : <<y, x>> \notin R => x <= y
  OBVIOUS
<1> QED BY <1>2, <1>3

\* ... and a greatest one, below a bound.
LEMMA Greatest ==
    ASSUME NEW n \in Nat, NEW S, S \subseteq 1..n, S # {}
    PROVE  \E x \in S : \A y \in S : y <= x
<1> DEFINE T == {n - i : i \in S}
<1>1. T \subseteq Nat /\ T # {}
  OBVIOUS
<1>2. PICK t \in T : \A u \in T : t <= u
  <2> HIDE DEF T
  <2> QED BY <1>1, Least
<1>3. PICK x \in S : t = n - x
  OBVIOUS
<1>4. ASSUME NEW y \in S PROVE y <= x
  <2>1. t <= n - y
    BY <1>2
  <2> QED BY <2>1, <1>3
<1> QED BY <1>4

\* A message leaves the membership as it is, and any other event decides it.
LEMMA MembershipAppend ==
    ASSUME NEW l \in Seq(Kinds), NEW kind \in Kinds,
           kind = "message" => MembershipAt(l, Len(l)) = "join"
    PROVE  MembershipAt(Append(l, kind), Len(l) + 1) =
               IF kind = "message" THEN MembershipAt(l, Len(l)) ELSE kind
<1> DEFINE m == Append(l, kind)
           n == Len(l)
           Old == {i \in 1..n : l[i] # "message"}
           New == {i \in 1..n + 1 : m[i] # "message"}
<1>1. n \in Nat /\ m[n + 1] = kind /\ \A i \in 1..n : m[i] = l[i]
  OBVIOUS
<1>2. MembershipAt(l, n) = IF Old = {} THEN "none"
          ELSE l[CHOOSE i \in Old : \A j \in Old : j <= i]
  BY DEF MembershipAt
<1>3. MembershipAt(m, n + 1) = IF New = {} THEN "none"
          ELSE m[CHOOSE i \in New : \A j \in New : j <= i]
  BY DEF MembershipAt
<1>4. CASE kind = "message"
  <2>1. New = Old
    BY <1>1, <1>4
  <2>2. Old # {}
    BY <1>2, <1>4
  <2>3. PICK x \in Old : \A j \in Old : j <= x
    <3>1. Old \subseteq 1..n
      OBVIOUS
    <3> HIDE DEF Old, n
    <3> QED BY <3>1, <2>2, <1>1, Greatest
  <2> DEFINE top == CHOOSE i \in Old : \A j \in Old : j <= i
  <2>4. top \in Old
    <3> HIDE DEF Old
    <3> QED BY <2>3
  <2>5. m[top] = l[top]
    <3>1. top \in 1..n
      <4> HIDE DEF top
      <4> QED BY <2>4
    <3> HIDE DEF top, m, n
    <3> QED BY <3>1, <1>1
  <2>6. MembershipAt(m, n + 1) = m[top] /\ MembershipAt(l, n) = l[top]
    <3> HIDE DEF Old, New, m, n
    <3> QED BY <2>1, <2>2, <1>2, <1>3
  <2> HIDE DEF top
  <2> QED BY <2>5, <2>6, <1>4
<1>5. CASE kind # "message"
  <2>1. n + 1 \in New /\ \A j \in New : j <= n + 1
    BY <1>1, <1>5
  <2> DEFINE top == CHOOSE i \in New : \A j \in New : j <= i
  <2>2. top \in New /\ \A j \in New : j <= top
    <3> HIDE DEF New, n
    <3> QED BY <2>1
  <2>3. top = n + 1
    <3>1. top \in 1..n + 1 /\ n + 1 <= top
      <4> HIDE DEF top
      <4> QED BY <2>1, <2>2
    <3> HIDE DEF top
    <3> QED BY <3>1, <1>1
  <2>4. MembershipAt(m, n + 1) = m[top]
    <3> HIDE DEF New, m, n
    <3> QED BY <2>1, <1>3
  <2> HIDE DEF top
  <2> QED BY <2>3, <2>4, <1>1, <1>5
<1> QED BY <1>4, <1>5

\* What an event changes of a room q, and what it makes true after any earlier
\* point n of the room's log.
LEMMA EventEffect ==
    ASSUME TypeOK, NEW r \in Rooms, NEW kind \in Kinds, NewEvent(r, kind),
           NEW q \in Rooms, NEW n \in Nat, n <= Len(log[q])
    PROVE  /\ Len(log[q]) \in Nat /\ Len(log'[q]) \in Nat
           /\ Len(log[q]) <= Len(log'[q])
           /\ JoinedAfter(q, n) => JoinedAfter(q, n)'
           /\ LeftAfter(q, n) => LeftAfter(q, n)'
           /\ Membership(q)' = "join" =>
                  Membership(q) = "join" \/ JoinedAfter(q, n)'
           /\ Membership(q)' # "join" =>
                  Membership(q) # "join" \/ LeftAfter(q, n)'
           /\ Membership(q)' = "invite" =>
                  Membership(q) = "invite" \/ n < Len(log'[q])
           /\ Membership(q)' \in {"leave", "ban"} =>
                  Membership(q) \in {"leave", "ban"} \/ LeftAfter(q, n)'
<1>1. /\ log \in [Rooms -> Seq(Kinds)]
      /\ Allowed(kind, Membership(r))
      /\ log' = [log EXCEPT ![r] = Append(@, kind)]
  BY DEF TypeOK, NewEvent
<1>2. log[q] \in Seq(Kinds) /\ log[r] \in Seq(Kinds)
  BY <1>1
<1>3. CASE q # r
  <2>1. log'[q] = log[q]
    BY <1>1, <1>3
  <2>2. Membership(q)' = Membership(q)
    BY <2>1 DEF Membership
  <2>3. /\ JoinedAfter(q, n) => JoinedAfter(q, n)'
        /\ LeftAfter(q, n) => LeftAfter(q, n)'
    BY <2>1 DEF JoinedAfter, LeftAfter
  <2> QED BY <2>1, <2>2, <2>3, <1>2
<1>4. CASE q = r
  <2>1. PICK l \in Seq(Kinds) : l = log[r]
    BY <1>2
  <2>2. log'[r] = Append(l, kind)
    BY <1>1, <2>1
  <2>3. /\ Len(l) \in Nat
        /\ Len(Append(l, kind)) = Len(l) + 1
        /\ Append(l, kind)[Len(l) + 1] = kind
        /\ \A i \in 1..Len(l) : Append(l, kind)[i] = l[i]
    OBVIOUS
  <2>4. Membership(r) = MembershipAt(l, Len(l))
    BY <2>1 DEF Membership
  <2>5. Membership(r)' = MembershipAt(Append(l, kind), Len(l) + 1)
    BY <2>2, <2>3 DEF Membership
  <2>6. kind = "message" => Membership(r) = "join"
    BY <1>1 DEF Allowed
  <2>7. Membership(r)' = IF kind = "message" THEN Membership(r) ELSE kind
    BY <2>4, <2>5, <2>6, MembershipAppend
  <2>8. Membership(r) = "join" => kind # "invite"
    BY <1>1 DEF Allowed
  <2>9. n <= Len(l)
    BY <2>1, <1>4
  <2>10. /\ JoinedAfter(r, n) => JoinedAfter(r, n)'
         /\ LeftAfter(r, n) => LeftAfter(r, n)'
    BY <2>1, <2>2, <2>3, <2>9 DEF JoinedAfter, LeftAfter
  <2>11. /\ kind = "join" => JoinedAfter(r, n)'
         /\ kind \in {"leave", "ban"} => LeftAfter(r, n)'
    BY <2>2, <2>3, <2>9 DEF JoinedAfter, LeftAfter
  <2>12. /\ Len(log[r]) = Len(l) /\ Len(log'[r]) = Len(l) + 1
         /\ n < Len(log'[r]) /\ Len(log[r]) <= Len(log'[r])
    BY <2>1, <2>2, <2>3, <2>9
  <2>13. kind \in {"invite", "join", "leave", "ban", "message"}
    BY DEF Kinds
  <2>14. /\ Membership(r)' = "join" =>
                Membership(r) = "join" \/ JoinedAfter(r, n)'
         /\ Membership(r)' # "join" =>
                Membership(r) # "join" \/ LeftAfter(r, n)'
         /\ Membership(r)' \in {"leave", "ban"} =>
                Membership(r) \in {"leave", "ban"} \/ LeftAfter(r, n)'
    BY <2>6, <2>7, <2>8, <2>11, <2>13
  <2> QED BY <1>4, <2>3, <2>10, <2>12, <2>14
<1> QED BY <1>3, <1>4

\* A step that is not the homeserver's leaves its rooms alone.
LEMMA SameRooms ==
    ASSUME log' = log, NEW q \in Rooms
    PROVE  /\ Membership(q)' = Membership(q)
           /\ \A n : JoinedAfter(q, n)' = JoinedAfter(q, n)
           /\ \A n : LeftAfter(q, n)' = LeftAfter(q, n)
BY DEF Membership, JoinedAfter, LeftAfter

\* A timeline from a join on has a join to announce.
LEMMA JoinsCounted ==
    ASSUME TypeOK, NEW r \in Rooms, NEW n \in Nat, JoinedAfter(r, n)
    PROVE  JoinsFrom(r, n + 1) > 0
<1> DEFINE J == {i \in (n + 1)..Len(log[r]) : log[r][i] = "join"}
<1>1. Len(log[r]) \in Nat
  BY DEF TypeOK
<1>2. IsFiniteSet((n + 1)..Len(log[r]))
  BY <1>1, FS_Interval
<1>3. IsFiniteSet(J)
  BY <1>2, FS_Subset
<1>4. J # {}
  BY DEF JoinedAfter
<1>5. Cardinality(J) \in Nat /\ Cardinality(J) # 0
  <2> HIDE DEF J
  <2> QED BY <1>3, <1>4, FS_CardinalityType, FS_EmptySet
<1> QED BY <1>5 DEF JoinsFrom

LEMMA Places ==
    ASSUME TypeOK, NEW q \in Rooms
    PROVE  /\ Since(q) \in Nat /\ StoredAt(q) \in Nat /\ Len(log[q]) \in Nat
           /\ joins[q] \in Nat
BY DEF TypeOK, Token, Since, StoredAt

LEMMA InitFollows == ASSUME RoomsAssumption, Init PROVE Follows
<1>1. ASSUME NEW r \in Rooms
      PROVE  /\ Membership(r) = "none" /\ Since(r) = 0 /\ StoredAt(r) = 0
             /\ Len(log[r]) = 0 /\ joins[r] = 0 /\ r \notin toLeave
             /\ r \notin toInvite /\ pc = "off"
  BY DEF Init, Membership, MembershipAt, Since, StoredAt
<1>2. ASSUME NEW r \in Rooms PROVE RoomFollows(r)
  BY <1>1 DEF RoomFollows, TokensAreOld, PendingIsTrue, ViewCatchesUp,
              HeardCatchesUp, HeardSurvives, Running
<1> QED BY <1>2 DEF Follows, Drained, Init

LEMMA EventKeeps ==
    ASSUME TypeOK, Follows, NEW r \in Rooms, NEW kind \in Kinds,
           NewEvent(r, kind)
    PROVE  Follows'
<1>1. /\ storedToken' = storedToken /\ pc' = pc /\ token' = token
      /\ toLeave' = toLeave /\ toInvite' = toInvite /\ joins' = joins
      /\ view' = view /\ lastNews' = lastNews /\ flaws' = flaws
      /\ spotless' = spotless
  BY DEF NewEvent, response, history
<1>2. Drained'
  BY <1>1 DEF Follows, Drained
<1>3. ASSUME NEW q \in Rooms PROVE RoomFollows(q)'
  <2>1. RoomFollows(q) /\ TokensAreOld(q)
    BY DEF Follows, RoomFollows
  <2>2. Since(q)' = Since(q) /\ StoredAt(q)' = StoredAt(q)
    BY <1>1 DEF Since, StoredAt
  <2>3. PICK s \in Nat : s = Since(q)
    BY Places
  <2>4. PICK p \in Nat : p = StoredAt(q)
    BY Places
  <2>5. s <= Len(log[q]) /\ p <= Len(log[q])
    BY <2>1, <2>3, <2>4 DEF TokensAreOld
  <2>6. /\ Len(log[q]) \in Nat /\ Len(log'[q]) \in Nat
        /\ Len(log[q]) <= Len(log'[q])
        /\ JoinedAfter(q, s) => JoinedAfter(q, s)'
        /\ LeftAfter(q, s) => LeftAfter(q, s)'
        /\ Membership(q)' = "join" =>
               Membership(q) = "join" \/ JoinedAfter(q, s)'
        /\ Membership(q)' # "join" =>
               Membership(q) # "join" \/ LeftAfter(q, s)'
        /\ Membership(q)' = "invite" =>
               Membership(q) = "invite" \/ s < Len(log'[q])
        /\ Membership(q)' \in {"leave", "ban"} =>
               Membership(q) \in {"leave", "ban"} \/ LeftAfter(q, s)'
    BY <2>5, EventEffect
  <2>7. /\ LeftAfter(q, p) => LeftAfter(q, p)'
        /\ Membership(q)' = "invite" =>
               Membership(q) = "invite" \/ p < Len(log'[q])
        /\ Membership(q)' \in {"leave", "ban"} =>
               Membership(q) \in {"leave", "ban"} \/ LeftAfter(q, p)'
    BY <2>5, EventEffect
  <2>8. TokensAreOld(q)'
    BY <1>1, <2>1, <2>2, <2>3, <2>4, <2>5, <2>6 DEF TokensAreOld, Running
  <2>9. PendingIsTrue(q)'
    BY <1>1, <2>1, <2>2, <2>3, <2>6 DEF RoomFollows, PendingIsTrue
  <2>10. ViewCatchesUp(q)'
    BY <1>1, <2>1, <2>2, <2>3, <2>6 DEF RoomFollows, ViewCatchesUp, Running
  <2>11. HeardCatchesUp(q)'
    BY <1>1, <2>1, <2>2, <2>3, <2>6 DEF RoomFollows, HeardCatchesUp, Running
  <2>12. HeardSurvives(q)'
    BY <1>1, <2>1, <2>2, <2>4, <2>6, <2>7 DEF RoomFollows, HeardSurvives
  <2> QED BY <2>8, <2>9, <2>10, <2>11, <2>12 DEF RoomFollows
<1> QED BY <1>2, <1>3 DEF Follows

\* start(): the list is read after the token was persisted.
LEMMA StartKeeps ==
    ASSUME TypeOK, Follows, Start
    PROVE  Follows'
<1>1. /\ log' = log /\ storedToken' = storedToken /\ token' = token
      /\ toLeave' = toLeave /\ toInvite' = toInvite /\ joins' = joins
      /\ view' = view /\ lastNews' = lastNews /\ flaws' = flaws
      /\ spotless' = spotless /\ pc = "off" /\ pc' = "listing"
  BY DEF Start, response, history
<1>2. Drained'
  BY <1>1 DEF Follows, Drained
<1>3. ASSUME NEW q \in Rooms PROVE RoomFollows(q)'
  <2>1. RoomFollows(q)
    BY DEF Follows
  <2>2. Since(q)' = Since(q) /\ StoredAt(q)' = StoredAt(q)
    BY <1>1 DEF Since, StoredAt
  <2> QED
    BY <1>1, <2>1, <2>2, SameRooms
       DEF RoomFollows, TokensAreOld, PendingIsTrue, ViewCatchesUp,
           HeardCatchesUp, HeardSurvives, Running
<1> QED BY <1>2, <1>3 DEF Follows

LEMMA ListKeeps ==
    ASSUME TypeOK, Follows, ListJoined
    PROVE  Follows'
<1>1. /\ log' = log /\ storedToken' = storedToken /\ token' = storedToken
      /\ toLeave' = toLeave /\ toInvite' = toInvite /\ joins' = joins
      /\ view' = JoinedNow /\ lastNews' = lastNews
      /\ spotless' = spotless /\ pc = "listing" /\ pc' = "syncing"
  BY DEF ListJoined, response
<1>2. Drained'
  BY <1>1 DEF Follows, Drained
<1>3. ASSUME NEW q \in Rooms PROVE RoomFollows(q)'
  <2>1. RoomFollows(q)
    BY DEF Follows
  <2>2. Since(q)' = StoredAt(q) /\ StoredAt(q)' = StoredAt(q)
    BY <1>1 DEF Since, StoredAt
  <2>3. q \notin toLeave /\ q \notin toInvite /\ joins[q] = 0
    BY <1>1 DEF Follows, Drained
  <2>4. TokensAreOld(q)'
    BY <1>1, <2>1, <2>2, Places DEF RoomFollows, TokensAreOld
  <2>5. PendingIsTrue(q)'
    BY <1>1, <2>3 DEF PendingIsTrue
  <2>6. ViewCatchesUp(q)'
    <3>1. q \in view' <=> Membership(q)' = "join"
      BY <1>1, SameRooms DEF JoinedNow
    <3> QED BY <3>1 DEF ViewCatchesUp
  <2>7. HeardCatchesUp(q)'
    BY <1>1, <2>1, <2>2, SameRooms
       DEF RoomFollows, HeardCatchesUp, HeardSurvives
  <2>8. HeardSurvives(q)'
    BY <1>1, <2>1, <2>2, <2>3, SameRooms DEF RoomFollows, HeardSurvives
  <2> QED BY <2>4, <2>5, <2>6, <2>7, <2>8 DEF RoomFollows
<1> QED BY <1>2, <1>3 DEF Follows

\* A response covers everything up to now, and if it leaves nothing out it
\* holds whatever the bot's view misses.
LEMMA RespondKeeps ==
    ASSUME RoomsAssumption, TypeOK, Follows,
           NEW left \in LeftRoomsSent, NEW timelines \in TimelinesSent,
           Respond(left, timelines)
    PROVE  Follows'
<1>1. /\ log' = log /\ token' = LogEnds
      /\ storedToken' = IF PersistAfter THEN storedToken ELSE LogEnds
      /\ toLeave' = left /\ toInvite' = InviteSection /\ joins' = timelines
      /\ view' = view /\ lastNews' = lastNews
      /\ pc = "syncing" /\ pc' = "processing"
  BY DEF Respond
<1>2. flaws' = {} => flaws = {} /\ Complete(left, timelines)
  BY DEF Respond, Flaw
<1>3. spotless' => spotless /\ Complete(left, timelines)
  BY DEF Respond, Flaw
<1>4. Drained'
  BY <1>1 DEF Drained
<1>5. LogEnds # NoToken /\ \A q \in Rooms : LogEnds[q] = Len(log[q])
  BY DEF LogEnds, TypeOK, RoomsAssumption
<1>6. ASSUME NEW q \in Rooms PROVE RoomFollows(q)'
  <2>1. RoomFollows(q) /\ TokensAreOld(q)
    BY DEF Follows, RoomFollows
  <2>2. /\ Since(q) \in Nat /\ StoredAt(q) \in Nat /\ Len(log[q]) \in Nat
        /\ Since(q) <= Len(log[q]) /\ StoredAt(q) <= Since(q)
    BY <1>1, <2>1, Places DEF TokensAreOld, Running
  <2>3. Since(q)' = Len(log[q])
    BY <1>1, <1>5 DEF Since
  <2>4. StoredAt(q)' = IF PersistAfter THEN StoredAt(q) ELSE Len(log[q])
    BY <1>1, <1>5 DEF StoredAt
  <2>5. LeftSince(q) <=> LeftAfter(q, Since(q))
    BY DEF LeftSince, Window, LeftAfter
  <2>6. HasNews(q) <=> Since(q) < Len(log[q])
    <3>1. \A s, l \in Nat : (s + 1)..l # {} <=> s < l
      <4>1. ASSUME NEW s \in Nat, NEW l \in Nat, s < l PROVE s + 1 \in (s + 1)..l
        BY <4>1
      <4> QED BY <4>1
    <3> QED BY <2>2, <3>1 DEF HasNews, Window
  <2>7. q \in left =>
            HasNews(q) /\ token # NoToken /\ LeftSince(q) /\ Membership(q) # "join"
    BY DEF LeftRoomsSent, LeaveSection
  <2>8. q \in InviteSection <=> HasNews(q) /\ Membership(q) = "invite"
    BY DEF InviteSection
  <2>9. timelines[q] > 0 => Membership(q) = "join"
    BY DEF TimelinesSent, FullTimelines
  <2>10. Membership(q) # "join" => ~(timelines[q] > 0)
    BY <2>9
  <2>11. ASSUME Complete(left, timelines)
         PROVE  /\ LeftAfter(q, Since(q)) /\ Membership(q) # "join" => q \in left
                /\ JoinedAfter(q, Since(q)) /\ Membership(q) = "join" =>
                       timelines[q] > 0
    <3>1. LeftAfter(q, Since(q)) => HasNews(q)
      BY <2>2, <2>6 DEF LeftAfter
    <3>2. left = LeaveSection /\ token # NoToken /\ timelines = FullTimelines
      BY <2>11 DEF Complete
    <3>3. LeftAfter(q, Since(q)) /\ Membership(q) # "join" => q \in left
      BY <3>1, <3>2, <2>5 DEF LeaveSection
    <3>4. JoinedAfter(q, Since(q)) => JoinsFrom(q, Since(q) + 1) > 0
      BY <2>2, JoinsCounted
    <3> QED BY <3>2, <3>3, <3>4 DEF FullTimelines
  <2>12. PersistAfter /\ spotless => Since(q) = StoredAt(q)
    BY <1>1, <2>1 DEF RoomFollows, HeardSurvives
  <2>13. joins'[q] > 0 => HasNews(q) \/ ~Complete(left, timelines)
    <3>1. CASE Complete(left, timelines)
      <4>1. timelines[q] > 0 => JoinsFrom(q, Since(q) + 1) > 0
        BY <3>1 DEF Complete, FullTimelines
      <4>2. Since(q) >= Len(log[q]) => JoinsFrom(q, Since(q) + 1) = 0
        <5> SUFFICES ASSUME Since(q) >= Len(log[q])
                     PROVE  JoinsFrom(q, Since(q) + 1) = 0
          OBVIOUS
        <5>1. {i \in (Since(q) + 1)..Len(log[q]) : log[q][i] = "join"} = {}
          BY <2>2
        <5> QED BY <5>1, FS_EmptySet DEF JoinsFrom
      <4> QED BY <1>1, <2>2, <2>6, <4>1, <4>2
    <3> QED BY <3>1
  <2>14. TokensAreOld(q)'
    BY <1>1, <2>2, <2>3, <2>4 DEF TokensAreOld, Running
  <2>15. PendingIsTrue(q)'
    BY <1>1, <2>7, <2>8, <2>10, SameRooms DEF PendingIsTrue
  <2>16. ViewCatchesUp(q)'
    BY <1>1, <1>2, <2>1, <2>11, SameRooms
       DEF RoomFollows, ViewCatchesUp, Running, Follows, Drained
  <2>17. HeardCatchesUp(q)'
    BY <1>1, <1>3, <2>1, <2>6, <2>8, <2>11, SameRooms
       DEF RoomFollows, HeardCatchesUp, Running, Follows, Drained
  <2>18. HeardSurvives(q)'
    BY <1>1, <1>3, <2>1, <2>4, <2>6, <2>7, <2>8, <2>12, <2>13, SameRooms
       DEF RoomFollows, HeardSurvives
  <2> QED BY <2>14, <2>15, <2>16, <2>17, <2>18 DEF RoomFollows
<1> QED BY <1>4, <1>6 DEF Follows

\* The steps that only take from the response and tell the listeners.
LEMMA TellKeeps ==
    ASSUME TypeOK, Follows, NEW r \in Rooms,
           TellLeave(r) \/ TellInvite(r) \/ TimelineJoin(r),
           IInv
    PROVE  Follows'
<1>1. /\ log' = log /\ storedToken' = storedToken /\ token' = token
      /\ pc = "processing" /\ pc' = "processing" /\ telling = NoNews
      /\ flaws' = flaws /\ spotless' = spotless
  BY DEF TellLeave, TellInvite, TimelineJoin, Tell, history
<1>2. Drained'
  BY <1>1 DEF Drained
<1>3. \A q \in Rooms : Since(q)' = Since(q) /\ StoredAt(q)' = StoredAt(q)
  BY <1>1 DEF Since, StoredAt
<1>4. ASSUME NEW q \in Rooms PROVE TokensAreOld(q)'
  BY <1>1, <1>3 DEF Follows, RoomFollows, TokensAreOld, Running
<1>5. ASSUME TellLeave(r), NEW q \in Rooms PROVE RoomFollows(q)'
  <2>1. /\ r \in toLeave /\ toLeave' = toLeave \ {r} /\ toInvite' = toInvite
        /\ joins' = joins /\ view' = view \ {r}
        /\ lastNews' = [lastNews EXCEPT ![r] = "room.leave"]
    BY <1>5 DEF TellLeave, Tell, With
  <2>2. lastNews'[q] = IF q = r THEN "room.leave" ELSE lastNews[q]
    BY <2>1 DEF TypeOK
  <2>3. /\ PendingIsTrue(q) /\ ViewCatchesUp(q) /\ HeardCatchesUp(q)
        /\ HeardSurvives(q)
    BY DEF Follows, RoomFollows
  <2>4. PendingIsTrue(q)'
    BY <1>1, <1>3, <2>1, <2>3, SameRooms DEF PendingIsTrue
  <2>5. ViewCatchesUp(q)'
    BY <1>1, <1>3, <2>1, <2>3, SameRooms DEF PendingIsTrue, ViewCatchesUp, Running
  <2>6. HeardCatchesUp(q)'
    BY <1>1, <1>3, <2>1, <2>2, <2>3, SameRooms
       DEF PendingIsTrue, HeardCatchesUp, Running
  <2>7. HeardSurvives(q)'
    BY <1>1, <1>3, <2>1, <2>2, <2>3, SameRooms DEF HeardSurvives
  <2> QED BY <1>4, <2>4, <2>5, <2>6, <2>7 DEF RoomFollows
<1>6. ASSUME TellInvite(r), NEW q \in Rooms PROVE RoomFollows(q)'
  <2>1. /\ r \in toInvite /\ toLeave' = toLeave /\ toInvite' = toInvite \ {r}
        /\ joins' = joins /\ view' = view /\ toLeave = {}
        /\ lastNews' = [lastNews EXCEPT ![r] = "room.invite"]
    BY <1>6 DEF TellInvite, Tell, With
  <2>2. lastNews'[q] = IF q = r THEN "room.invite" ELSE lastNews[q]
    BY <2>1 DEF TypeOK
  <2>3. /\ PendingIsTrue(q) /\ ViewCatchesUp(q) /\ HeardCatchesUp(q)
        /\ HeardSurvives(q) /\ TokensAreOld(q)
    BY DEF Follows, RoomFollows
  <2>4. PendingIsTrue(q)'
    BY <1>1, <1>3, <2>1, <2>3, SameRooms DEF PendingIsTrue
  <2>5. ViewCatchesUp(q)'
    BY <1>1, <1>3, <2>1, <2>3, SameRooms DEF ViewCatchesUp, Running
  <2>6. HeardCatchesUp(q)'
    BY <1>1, <1>3, <2>1, <2>2, <2>3, SameRooms
       DEF PendingIsTrue, HeardCatchesUp, Running
  <2>7. LeftAfter(q, Since(q)) => LeftAfter(q, StoredAt(q))
    BY <1>1, <2>3, Places DEF TokensAreOld, Running, LeftAfter
  <2>8. HeardSurvives(q)'
    BY <1>1, <1>3, <2>1, <2>2, <2>3, <2>7, SameRooms
       DEF PendingIsTrue, HeardSurvives
  <2> QED BY <1>4, <2>4, <2>5, <2>6, <2>8 DEF RoomFollows
<1>7. ASSUME TimelineJoin(r), NEW q \in Rooms PROVE RoomFollows(q)'
  <2>1. /\ toLeave' = toLeave /\ toInvite' = toInvite
        /\ toLeave = {} /\ toInvite = {} /\ joins[r] > 0
        /\ joins' = [joins EXCEPT ![r] = @ - 1]
    BY <1>7 DEF TimelineJoin
  <2>2. joins'[q] = IF q = r THEN joins[q] - 1 ELSE joins[q]
    BY <2>1 DEF TypeOK
  <2>3. /\ PendingIsTrue(q) /\ ViewCatchesUp(q) /\ HeardCatchesUp(q)
        /\ HeardSurvives(q) /\ TokensAreOld(q)
    BY DEF Follows, RoomFollows
  <2>4. joins[q] \in Nat /\ (joins'[q] > 0 => joins[q] > 0)
    BY <2>2, Places
  <2>5. PendingIsTrue(q)'
    BY <1>1, <1>3, <2>1, <2>3, <2>4, SameRooms DEF PendingIsTrue
  <2>6. LeftAfter(q, Since(q)) =>
            LeftAfter(q, StoredAt(q)) /\ Since(q) < Len(log[q])
    BY <1>1, <2>3, Places DEF TokensAreOld, Running, LeftAfter
  <2>7. CASE r \in lastJoined
    <3>1. view' = view /\ lastNews' = lastNews
      BY <1>7, <2>7 DEF TimelineJoin, history
    <3>2. flaws = {} => r \in view
      BY <1>1, <2>7, NothingChanges DEF IInv, ListFollowsView
    <3>3. ViewCatchesUp(q)'
      BY <1>1, <1>3, <2>1, <2>2, <2>3, <3>1, <3>2, SameRooms
         DEF ViewCatchesUp, Running
    <3>4. HeardCatchesUp(q)'
      BY <1>1, <1>3, <2>1, <2>3, <3>1, SameRooms DEF HeardCatchesUp, Running
    <3>5. HeardSurvives(q)'
      BY <1>1, <1>3, <2>1, <2>3, <2>4, <3>1, SameRooms DEF HeardSurvives
    <3> QED BY <1>4, <2>5, <3>3, <3>4, <3>5 DEF RoomFollows
  <2>8. CASE r \notin lastJoined
    <3>1. view' = view \cup {r} /\ lastNews' = [lastNews EXCEPT ![r] = "room.join"]
      BY <1>7, <2>8 DEF TimelineJoin, Tell, With
    <3>2. lastNews'[q] = IF q = r THEN "room.join" ELSE lastNews[q]
      BY <3>1 DEF TypeOK
    <3>3. ViewCatchesUp(q)'
      BY <1>1, <1>3, <2>1, <2>2, <2>3, <3>1, SameRooms
         DEF PendingIsTrue, ViewCatchesUp, Running
    <3>4. HeardCatchesUp(q)'
      BY <1>1, <1>3, <2>1, <2>3, <2>6, <3>2, SameRooms
         DEF PendingIsTrue, HeardCatchesUp, Running
    <3>5. HeardSurvives(q)'
      BY <1>1, <1>3, <2>1, <2>3, <2>4, <2>6, <3>2, SameRooms
         DEF PendingIsTrue, HeardSurvives
    <3> QED BY <1>4, <2>5, <3>3, <3>4, <3>5 DEF RoomFollows
  <2> QED BY <2>7, <2>8
<1> QED BY <1>2, <1>5, <1>6, <1>7 DEF Follows

LEMMA ToldKeeps ==
    ASSUME TypeOK, Follows, Told \/ UNCHANGED vars
    PROVE  Follows'
<1>1. /\ log' = log /\ storedToken' = storedToken /\ token' = token /\ pc' = pc
      /\ toLeave' = toLeave /\ toInvite' = toInvite /\ joins' = joins
      /\ view' = view /\ lastNews' = lastNews /\ flaws' = flaws
      /\ spotless' = spotless
  BY DEF Told, vars, response, history
<1>2. Drained'
  BY <1>1 DEF Follows, Drained
<1>3. ASSUME NEW q \in Rooms PROVE RoomFollows(q)'
  <2>1. RoomFollows(q)
    BY DEF Follows
  <2>2. Since(q)' = Since(q) /\ StoredAt(q)' = StoredAt(q)
    BY <1>1 DEF Since, StoredAt
  <2> QED
    BY <1>1, <2>1, <2>2, SameRooms
       DEF RoomFollows, TokensAreOld, PendingIsTrue, ViewCatchesUp,
           HeardCatchesUp, HeardSurvives, Running
<1> QED BY <1>2, <1>3 DEF Follows

\* The token is persisted when all of the response was told.
LEMMA ProcessedKeeps ==
    ASSUME TypeOK, Follows, Processed
    PROVE  Follows'
<1>1. /\ log' = log /\ storedToken' = token /\ token' = token
      /\ toLeave' = toLeave /\ toInvite' = toInvite /\ joins' = joins
      /\ view' = view /\ lastNews' = lastNews /\ flaws' = flaws
      /\ spotless' = spotless /\ pc = "processing" /\ pc' = "syncing"
      /\ toLeave = {} /\ toInvite = {} /\ \A q \in Rooms : joins[q] = 0
  BY DEF Processed, response, history
<1>2. Drained'
  BY <1>1 DEF Drained
<1>3. ASSUME NEW q \in Rooms PROVE RoomFollows(q)'
  <2>1. /\ TokensAreOld(q) /\ PendingIsTrue(q) /\ ViewCatchesUp(q)
        /\ HeardCatchesUp(q)
    BY DEF Follows, RoomFollows
  <2>2. Since(q)' = Since(q) /\ StoredAt(q)' = Since(q)
    BY <1>1 DEF Since, StoredAt
  <2>3. TokensAreOld(q)'
    BY <1>1, <2>1, <2>2, Places DEF TokensAreOld
  <2>4. PendingIsTrue(q)'
    BY <1>1 DEF PendingIsTrue
  <2>5. ViewCatchesUp(q)'
    BY <1>1, <2>1, <2>2, SameRooms DEF ViewCatchesUp, Running
  <2>6. HeardCatchesUp(q)'
    BY <1>1, <2>1, <2>2, SameRooms DEF HeardCatchesUp, Running
  <2>7. HeardSurvives(q)'
    BY <1>1, <2>1, <2>2, SameRooms DEF HeardCatchesUp, HeardSurvives, Running
  <2> QED BY <2>3, <2>4, <2>5, <2>6, <2>7 DEF RoomFollows
<1> QED BY <1>2, <1>3 DEF Follows

\* A batch that fails, and a client that ends, drop what is left.
LEMMA DropKeeps ==
    ASSUME TypeOK, Follows, BatchFails \/ Quit
    PROVE  Follows'
<1>1. /\ log' = log /\ storedToken' = storedToken /\ lastNews' = lastNews
      /\ toLeave' = {} /\ toInvite' = {} /\ \A q \in Rooms : joins'[q] = 0
  BY DEF BatchFails, Quit, DropResponse
<1>2. \/ /\ pc = "processing" /\ pc' = "syncing" /\ token' = token
         /\ flaws' # {} /\ ~spotless'
      \/ pc' = "off" /\ token' = NoToken /\ spotless' = spotless
  BY DEF BatchFails, Quit, Flaw
<1>3. Drained'
  BY <1>1 DEF Drained
<1>4. ASSUME NEW q \in Rooms PROVE RoomFollows(q)'
  <2>1. TokensAreOld(q) /\ HeardSurvives(q)
    BY DEF Follows, RoomFollows
  <2>2. StoredAt(q)' = StoredAt(q)
    BY <1>1 DEF StoredAt
  <2>3. (token' = token => Since(q)' = Since(q)) /\ (token' = NoToken => Since(q)' = 0)
    BY DEF Since
  <2>4. TokensAreOld(q)'
    BY <1>1, <1>2, <2>1, <2>2, <2>3, Places DEF TokensAreOld, Running
  <2>5. PendingIsTrue(q)'
    BY <1>1 DEF PendingIsTrue
  <2>6. ViewCatchesUp(q)' /\ HeardCatchesUp(q)'
    BY <1>2 DEF ViewCatchesUp, HeardCatchesUp, Running
  <2>7. HeardSurvives(q)'
    <3>1. spotless' => spotless /\ pc' = "off"
      BY <1>2
    <3> QED BY <1>1, <2>1, <2>2, <3>1, SameRooms DEF HeardSurvives
  <2> QED BY <2>4, <2>5, <2>6, <2>7 DEF RoomFollows
<1> QED BY <1>3, <1>4 DEF Follows

LEMMA FollowsHolds ==
    ASSUME RoomsAssumption PROVE Spec => [](IInv /\ Follows)
<1>1. Init => Follows
  BY InitFollows
<1>2. IInv /\ Follows /\ [Next]_vars => Follows'
  <2> SUFFICES ASSUME IInv, Follows, [Next]_vars PROVE Follows'
    OBVIOUS
  <2>1. TypeOK
    BY DEF IInv
  <2> QED
    BY <2>1, EventKeeps, StartKeeps, ListKeeps, RespondKeeps, TellKeeps,
       ToldKeeps, ProcessedKeeps, DropKeeps DEF Next
<1> QED BY <1>1, <1>2, InvariantHolds, PTL DEF Spec

\* Once the client has caught up nothing lies after its token.
LEMMA NothingAfter ==
    ASSUME RoomsAssumption, TypeOK, CaughtUp, NEW r \in Rooms
    PROVE  /\ Since(r) = Len(log[r]) /\ Len(log[r]) \in Nat
           /\ ~JoinedAfter(r, Since(r)) /\ ~LeftAfter(r, Since(r))
<1>1. token = LogEnds /\ LogEnds # NoToken /\ LogEnds[r] = Len(log[r])
  BY DEF CaughtUp, LogEnds, TypeOK, RoomsAssumption
<1>2. Since(r) = Len(log[r]) /\ Len(log[r]) \in Nat
  BY <1>1, Places DEF Since
<1> QED BY <1>2 DEF JoinedAfter, LeftAfter

\* A bot that starts from the list of joined rooms and follows room.join and
\* room.leave knows which rooms it is in, once the client has caught up and
\* nothing went wrong since start(): for any number of rooms and of events.
THEOREM ViewHolds == ASSUME RoomsAssumption PROVE Spec => []ViewIsTrue
<1>1. IInv /\ Follows => ViewIsTrue
  <2> SUFFICES ASSUME IInv, Follows, CaughtUp, flaws = {}
               PROVE  view = JoinedNow
    BY DEF ViewIsTrue
  <2>1. pc = "syncing" /\ toLeave = {} /\ \A r \in Rooms : joins[r] = 0
    BY DEF CaughtUp, Follows, Drained
  <2>2. ASSUME NEW r \in Rooms PROVE r \in view <=> Membership(r) = "join"
    <3>1. ViewCatchesUp(r)
      BY DEF Follows, RoomFollows
    <3> QED
      BY <2>1, <3>1, NothingAfter DEF ViewCatchesUp, Running, IInv
  <2> QED BY <2>2 DEF JoinedNow, IInv, TypeOK
<1> QED BY <1>1, FollowsHolds, PTL

\* With persistTokenAfterSync, and as long as no response was cut short, some
\* instance of the bot was told of the current invite to a room and of having
\* left one, wherever instances were stopped, killed and started again.
THEOREM NewsHolds == ASSUME RoomsAssumption PROVE Spec => []NewsHeard
<1>1. IInv /\ Follows => NewsHeard
  <2> SUFFICES ASSUME IInv, Follows, PersistAfter, CaughtUp, spotless,
                      NEW r \in Rooms
               PROVE  /\ Membership(r) = "invite" => lastNews[r] = "room.invite"
                      /\ Membership(r) \in {"leave", "ban"} =>
                             lastNews[r] = "room.leave"
    BY DEF NewsHeard
  <2>1. pc = "syncing" /\ toLeave = {} /\ toInvite = {}
    BY DEF CaughtUp, Follows, Drained
  <2>2. HeardCatchesUp(r)
    BY DEF Follows, RoomFollows
  <2> QED
    BY <2>1, <2>2, NothingAfter DEF HeardCatchesUp, Running, IInv
<1> QED BY <1>1, FollowsHolds, PTL
=============================================================================
