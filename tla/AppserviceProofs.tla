--------------------------- MODULE AppserviceProofs ---------------------------
(***************************************************************************)
(* Theorems about the parts of an appservice, for any users, devices, IDs,  *)
(* calls, rooms and faults. The operators of the parts have the prefix they *)
(* have in AppserviceParts; each part has an inductive invariant of its own. *)
(***************************************************************************)
EXTENDS AppserviceParts, SequenceTheorems, WellFoundedInduction, TLAPS

-----------------------------------------------------------------------------
(* Only the chosen part takes steps                                         *)

LEMMA PartSteps ==
    ASSUME [PartsNext]_partsVars
    PROVE  /\ part' = part
           /\ part = "intents"  => Intents!Next  \/ UNCHANGED intentVars
           /\ part = "joins"    => Joins!Next    \/ UNCHANGED joinVars
           /\ part = "crypto"   => Crypto!Next   \/ UNCHANGED cryptoVars
           /\ part = "queries"  => Queries!Next  \/ UNCHANGED queryVars
           /\ part = "bridge"   => Bridge!Next   \/ UNCHANGED mapVars
           /\ part = "mixins"   => Autojoin!Next \/ UNCHANGED mixinVars
           /\ part = "machines" => Machines!Next \/ UNCHANGED machineVars
<1>1. CASE UNCHANGED partsVars
  BY <1>1 DEF partsVars, others
<1>2. CASE PartsNext
  BY <1>2 DEF PartsNext
<1> QED BY <1>1, <1>2

-----------------------------------------------------------------------------
(* Bridge mapping                                                           *)

\* A call that is on its way knows the pair it sets, which is remembered.
SetterInv ==
    \A c \in Setters : setter[c].pc # "idle" =>
        /\ setter[c].id \in MatrixIds /\ setter[c].remote \in RemoteIds
        /\ <<setter[c].id, setter[c].remote>> \in set

\* Both directions hold only what was set, and the first is followed by the
\* second, but for rivals and for pairs of which only the first was written.
MappingInv ==
    /\ \A m \in MatrixIds : info[m] # Nothing =>
           info[m] \in RemoteIds /\ <<m, info[m]>> \in set
    /\ \A r \in RemoteIds : mapping[r] # Nothing => <<mapping[r], r>> \in set
    /\ \A m \in MatrixIds : info[m] # Nothing /\ ~Bridge!Rivals(info[m]) =>
           mapping[info[m]] = m \/ <<m, info[m]>> \in torn

BridgeInv ==
    /\ info \in [MatrixIds -> RemoteIds \cup {Nothing}]
    /\ mapping \in [RemoteIds -> MatrixIds \cup {Nothing}]
    /\ setter \in [Setters -> [pc : {"idle", "info", "mapping"},
                               id : MatrixIds \cup {Nothing}, remote : RemoteIds \cup {Nothing}]]
    /\ SetterInv /\ MappingInv

LEMMA BridgeStarts == Bridge!Init => BridgeInv
  BY DEF Bridge!Init, Bridge!Free, BridgeInv, SetterInv, MappingInv

LEMMA BridgeKeeps ==
    ASSUME BridgeInv, Bridge!Next
    PROVE  BridgeInv'
<1> USE DEF BridgeInv
<1>1. PICK c \in Setters :
          \/ \E m \in MatrixIds, r \in RemoteIds : Bridge!SetRemoteInfo(c, m, r)
          \/ Bridge!WriteInfo(c) \/ Bridge!UpdateMapping(c) \/ Bridge!Fails(c)
  BY DEF Bridge!Next
<1>2. ASSUME NEW m \in MatrixIds, NEW r \in RemoteIds, Bridge!SetRemoteInfo(c, m, r)
      PROVE  BridgeInv'
  <2>1. set \subseteq set' /\ <<m, r>> \in set'
    BY <1>2 DEF Bridge!SetRemoteInfo
  <2>2. SetterInv'
    BY <1>2, <2>1 DEF Bridge!SetRemoteInfo, SetterInv
  <2>3. \A q : Bridge!Rivals(q) => Bridge!Rivals(q)'
    BY <2>1 DEF Bridge!Rivals
  <2>4. MappingInv'
    BY <1>2, <2>1, <2>3 DEF Bridge!SetRemoteInfo, MappingInv
  <2> QED BY <1>2, <2>2, <2>4 DEF Bridge!SetRemoteInfo
<1>3. ASSUME setter[c].pc # "idle", set' = set, mapping' = mapping,
             info' = [info EXCEPT ![setter[c].id] = setter[c].remote],
             torn' = torn \cup {Bridge!Pair(c)}
      PROVE  MappingInv'
  <2>1. \A q : Bridge!Rivals(q)' <=> Bridge!Rivals(q)
    BY <1>3 DEF Bridge!Rivals
  <2> QED BY <1>3, <2>1 DEF SetterInv, MappingInv, Bridge!Pair
<1>4. ASSUME setter' = [setter EXCEPT ![c] = Bridge!Free] \/ setter' = [setter EXCEPT ![c].pc = "mapping"],
             setter[c].pc # "idle", set' = set
      PROVE  /\ SetterInv'
             /\ setter' \in [Setters -> [pc : {"idle", "info", "mapping"},
                                        id : MatrixIds \cup {Nothing}, remote : RemoteIds \cup {Nothing}]]
  BY <1>4 DEF SetterInv, Bridge!Free
<1>5. CASE Bridge!WriteInfo(c)
  BY <1>3, <1>4, <1>5 DEF Bridge!WriteInfo, Bridge!GoTo
<1>6. CASE Bridge!UpdateMapping(c)
  <2>1. \A q : Bridge!Rivals(q)' <=> Bridge!Rivals(q)
    BY <1>6 DEF Bridge!Rivals, Bridge!UpdateMapping
  <2>2. /\ setter[c].id \in MatrixIds /\ setter[c].remote \in RemoteIds
        /\ <<setter[c].id, setter[c].remote>> \in set
    BY <1>6 DEF Bridge!UpdateMapping, SetterInv
  <2>3. /\ info' = info /\ set' = set
        /\ mapping' = [mapping EXCEPT ![setter[c].remote] = setter[c].id]
        /\ torn' = torn \ {<<setter[c].id, setter[c].remote>>}
    BY <1>6 DEF Bridge!UpdateMapping, Bridge!Pair
  <2>4. ASSUME NEW m \in MatrixIds, info[m] # Nothing, ~Bridge!Rivals(info[m])
        PROVE  mapping'[info[m]] = m \/ <<m, info[m]>> \in torn'
    <3>1. <<m, info[m]>> \in set /\ info[m] \in RemoteIds
          /\ (mapping[info[m]] = m \/ <<m, info[m]>> \in torn)
      BY <2>4 DEF MappingInv
    <3>2. CASE info[m] = setter[c].remote
      BY <2>2, <2>3, <2>4, <3>1, <3>2 DEF Bridge!Rivals
    <3>3. CASE info[m] # setter[c].remote
      BY <2>3, <3>1, <3>3
    <3> QED BY <3>2, <3>3
  <2>5. MappingInv'
    BY <2>1, <2>2, <2>3, <2>4 DEF MappingInv
  <2> QED BY <1>4, <1>6, <2>3, <2>5 DEF Bridge!UpdateMapping, Bridge!End
<1>7. CASE Bridge!Fails(c)
  <2>1. CASE UNCHANGED <<info, mapping, torn>>
    <3>1. \A q : Bridge!Rivals(q)' <=> Bridge!Rivals(q)
      BY <1>7 DEF Bridge!Rivals, Bridge!Fails
    <3>2. MappingInv'
      BY <1>7, <2>1, <3>1 DEF MappingInv, Bridge!Fails
    <3> QED BY <1>4, <1>7, <2>1, <3>2 DEF Bridge!Fails, Bridge!End
  <2>2. CASE ~UNCHANGED <<info, mapping, torn>>
    BY <1>3, <1>4, <1>7, <2>2 DEF Bridge!Fails, Bridge!End
  <2> QED BY <2>1, <2>2
<1> QED BY <1>1, <1>2, <1>5, <1>6, <1>7

\* A Matrix user or room that stands for a remote ID is found under it, however
\* the calls that set it overlapped and failed, for any IDs and any number of
\* calls (setRemoteUserInfo and setRemoteRoomInfo,
\* src/src/appservice/MatrixBridge.ts).
THEOREM MappingsAgree == PartsSpec => []MappedBack
<1> DEFINE Inv == part = "bridge" => BridgeInv
<1>1. PartsInit => Inv
  BY BridgeStarts DEF PartsInit
<1>2. Inv /\ [PartsNext]_partsVars => Inv'
  <2> SUFFICES ASSUME part = "bridge", BridgeInv, [PartsNext]_partsVars PROVE BridgeInv'
    BY PartSteps
  <2>1. CASE Bridge!Next
    BY <2>1, BridgeKeeps
  <2>2. CASE UNCHANGED mapVars
    BY <2>2 DEF mapVars, BridgeInv, SetterInv, MappingInv, Bridge!Rivals
  <2> QED BY <2>1, <2>2, PartSteps
<1>3. Inv => MappedBack
  BY DEF MappedBack, Bridge!MappedBack, BridgeInv, MappingInv, Bridge!RemoteInfo, Bridge!ForRemote
<1> QED BY <1>1, <1>2, <1>3, PTL DEF PartsSpec

-----------------------------------------------------------------------------
(* Joins                                                                    *)

\* The user is inside before the call resolves only if an answer was lost, and
\* the schedule is begun once, at its beginning.
JoinInv ==
    /\ setting \in Joins!Settings
    /\ step \in {"user", "first", "room", "invite", "scheduled", "last", "resolved", "rejected"}
    /\ step = "resolved" => inside
    /\ inside /\ step # "resolved" => lost
    /\ step = "last" => ~setting.retry
    /\ setting.retry /\ step \notin {"scheduled", "resolved", "rejected"} => attempt = 1
    /\ setting.retry /\ step = "rejected" => attempt \in {1, Schedule}

LEMMA JoinStarts == Joins!Init => JoinInv
  BY DEF Joins!Init, JoinInv

\* An attempt that fails leads on to another one, or to the end.
LEMMA FailedKeeps ==
    ASSUME JoinInv, step \in Joins!Joins, Joins!Failed, setting' = setting,
           inside' => inside \/ lost', lost => lost'
    PROVE  JoinInv'
<1> USE DEF JoinInv, Joins!Reject
<1>1. CASE step = "first"
  BY <1>1 DEF Joins!Failed, Joins!FirstFails, Joins!Underlying
<1>2. CASE step = "scheduled"
  BY <1>2 DEF Joins!Failed, Joins!ErrorHandler
<1>3. CASE step = "last"
  BY <1>3 DEF Joins!Failed
<1> QED BY <1>1, <1>2, <1>3 DEF Joins!Joins

LEMMA JoinKeeps ==
    ASSUME JoinInv, Joins!Next
    PROVE  JoinInv'
<1> USE DEF JoinInv, Joins!Reject, Joins!Resolve, Joins!Underlying
<1>1. CASE Joins!GetUser
  BY <1>1 DEF Joins!GetUser
<1>2. CASE Joins!Join
  BY <1>2 DEF Joins!Join
<1>3. CASE Joins!JoinLost
  BY <1>3, FailedKeeps DEF Joins!JoinLost
<1>4. CASE Joins!JoinFails
  BY <1>4, FailedKeeps DEF Joins!JoinFails
<1>5. CASE Joins!ResolveRoom
  BY <1>5 DEF Joins!ResolveRoom
<1>6. CASE Joins!InviteUser
  BY <1>6 DEF Joins!InviteUser
<1>7. CASE Joins!InviteFails
  BY <1>7 DEF Joins!InviteFails
<1> QED BY <1>1, <1>2, <1>3, <1>4, <1>5, <1>6, <1>7 DEF Joins!Next

-----------------------------------------------------------------------------
(* Mixins                                                                   *)

Asked(u) == \E why \in {"upgrade", "invite"} : <<u, why>> \in asked

\* Whoever is in, or is asked for, was decided on.
ChosenInv ==
    /\ new \cap Autojoin!Ours \subseteq welcome
    /\ place = "bot" => Bot \in welcome
    /\ \A u \in Autojoin!Everyone, why \in {"upgrade", "invite"} : <<u, why>> \in asked => u \in welcome

\* Whoever was decided on is in, was refused, or is still to come, unless the
\* process or the listener of room.archived gave up.
DecidedInv ==
    /\ welcome \subseteq Autojoin!Everyone
    /\ place \notin {"failed", "ended"} =>
           \A u \in welcome : u \in new \cup refused \/ Asked(u) \/ (u = Bot /\ place = "bot")

\* The users follow when the bot is in.
OrderInv ==
    /\ place = "members" => Bot \in new \/ refused # {}
    /\ \A u \in Autojoin!Everyone : <<u, "upgrade">> \in asked => Bot \in new \/ refused # {}

\* A refusal is a removal, or a rejection nobody handled.
RefusedInv ==
    /\ removals \in Nat
    /\ refused # {} /\ removals = 0 => rejected

MixinInv == ChosenInv /\ DecidedInv /\ OrderInv /\ RefusedInv

LEMMA OursAreAll == Autojoin!Ours \subseteq Autojoin!Everyone /\ Bot \in Autojoin!Ours /\ Bot \in Autojoin!Everyone
  BY DEF Autojoin!Ours, Autojoin!Everyone

LEMMA MixinStarts ==
    ASSUME Autojoin!Init
    PROVE  MixinInv
  <1>1. new \cap Autojoin!Ours = {} BY AppserviceAssumption DEF Autojoin!Init, Autojoin!Ours
  <1>2. ChosenInv BY <1>1 DEF Autojoin!Init, ChosenInv
  <1>3. DecidedInv BY DEF Autojoin!Init, DecidedInv
  <1>4. OrderInv BY DEF Autojoin!Init, OrderInv
  <1>5. RefusedInv BY DEF Autojoin!Init, RefusedInv
  <1> QED BY <1>2, <1>3, <1>4, <1>5 DEF MixinInv

\* Members of either room go.
LEMMA LeavesKeep ==
    ASSUME MixinInv, NEW u \in Autojoin!Everyone, Autojoin!LeavesOld(u) \/ Autojoin!LeavesNew(u)
    PROVE  MixinInv'
  <1>1. Autojoin!Ours' = Autojoin!Ours BY DEF Autojoin!LeavesOld, Autojoin!LeavesNew, Autojoin!Ours, Autojoin!OfClient
  <1>2. CASE Autojoin!LeavesOld(u)
    <2>1. ChosenInv' BY <1>1, <1>2 DEF MixinInv, ChosenInv, Autojoin!LeavesOld
    <2>2. DecidedInv' BY <1>2 DEF MixinInv, DecidedInv, Asked, Autojoin!LeavesOld
    <2>3. OrderInv' BY <1>2 DEF MixinInv, OrderInv, Autojoin!LeavesOld
    <2>4. RefusedInv' BY <1>2 DEF MixinInv, RefusedInv, Autojoin!LeavesOld
    <2> QED BY <2>1, <2>2, <2>3, <2>4 DEF MixinInv
  <1>3. CASE Autojoin!LeavesNew(u)
    <2>1. ChosenInv' BY <1>1, <1>3 DEF MixinInv, ChosenInv, Autojoin!LeavesNew
    <2>2. DecidedInv' BY <1>3 DEF MixinInv, DecidedInv, Asked, Autojoin!LeavesNew
    <2>3. OrderInv' BY <1>3 DEF MixinInv, OrderInv, Autojoin!LeavesNew
    <2>4. RefusedInv' BY <1>3 DEF MixinInv, RefusedInv, Autojoin!LeavesNew
    <2> QED BY <2>1, <2>2, <2>3, <2>4 DEF MixinInv
  <1> QED BY <1>2, <1>3

\* The listener of room.archived goes on or fails.
LEMMA ListenerKeeps ==
    ASSUME MixinInv, Autojoin!Archived \/ Autojoin!BotJoins \/ Autojoin!Follow \/ Autojoin!ArchivedFails
    PROVE  MixinInv'
  <1>1. Autojoin!Ours' = Autojoin!Ours /\ Bot \in Autojoin!Everyone
    BY OursAreAll DEF Autojoin!Archived, Autojoin!BotJoins, Autojoin!Follow, Autojoin!ArchivedFails, Autojoin!Ours, Autojoin!OfClient
  <1>2. CASE Autojoin!Archived
    <2>1. ChosenInv' BY <1>1, <1>2 DEF MixinInv, ChosenInv, Autojoin!Archived
    <2>2. DecidedInv' BY <1>1, <1>2 DEF MixinInv, DecidedInv, Asked, Autojoin!Archived
    <2>3. OrderInv' BY <1>2 DEF MixinInv, OrderInv, Autojoin!Archived
    <2>4. RefusedInv' BY <1>2 DEF MixinInv, RefusedInv, Autojoin!Archived
    <2> QED BY <2>1, <2>2, <2>3, <2>4 DEF MixinInv
  <1>3. CASE Autojoin!BotJoins
    <2>1. place' \in {"over", "members"} BY <1>3 DEF Autojoin!BotJoins
    <2>2. ChosenInv' BY <1>1, <1>3, <2>1 DEF MixinInv, ChosenInv, Autojoin!BotJoins
    <2>3. DecidedInv' BY <1>3, <2>1 DEF MixinInv, DecidedInv, Asked, Autojoin!BotJoins
    <2>4. OrderInv' BY <1>3 DEF MixinInv, OrderInv, Autojoin!BotJoins
    <2>5. RefusedInv' BY <1>3 DEF MixinInv, RefusedInv, Autojoin!BotJoins
    <2> QED BY <2>2, <2>3, <2>4, <2>5 DEF MixinInv
  <1>4. CASE Autojoin!Follow
    <2> DEFINE followers == {<<v, "upgrade">> : v \in old \cap Users}
    <2>1. /\ place = "members" /\ place' = "over"
          /\ asked' = asked \cup followers /\ welcome' = welcome \cup (old \cap Users)
          /\ UNCHANGED <<new, rejected, removals, refused>>
      BY <1>4 DEF Autojoin!Follow
    <2>2. \A v, why : <<v, why>> \in followers <=> v \in old \cap Users /\ why = "upgrade"
      OBVIOUS
    <2>3. old \cap Users \subseteq Autojoin!Everyone BY DEF Autojoin!Everyone
    <2> HIDE DEF followers
    <2>4. ChosenInv' BY <1>1, <2>1, <2>2 DEF MixinInv, ChosenInv
    <2>5. DecidedInv'
      <3>1. welcome' \subseteq Autojoin!Everyone BY <2>1, <2>3 DEF MixinInv, DecidedInv
      <3>2. ASSUME NEW v \in welcome' PROVE v \in new \cup refused \/ Asked(v)'
        <4>1. CASE v \in welcome BY <2>1, <4>1 DEF MixinInv, DecidedInv, Asked
        <4>2. CASE v \in old \cap Users BY <2>1, <2>2, <4>2 DEF Asked
        <4> QED BY <2>1, <3>2, <4>1, <4>2
      <3> QED BY <2>1, <3>1, <3>2 DEF DecidedInv
    <2>6. OrderInv' BY <2>1, <2>2 DEF MixinInv, OrderInv
    <2>7. RefusedInv' BY <2>1 DEF MixinInv, RefusedInv
    <2> QED BY <2>4, <2>5, <2>6, <2>7 DEF MixinInv
  <1>5. CASE Autojoin!ArchivedFails
    <2>1. ChosenInv' BY <1>1, <1>5 DEF MixinInv, ChosenInv, Autojoin!ArchivedFails
    <2>2. DecidedInv' BY <1>5 DEF MixinInv, DecidedInv, Autojoin!ArchivedFails
    <2>3. OrderInv' BY <1>5 DEF MixinInv, OrderInv, Autojoin!ArchivedFails
    <2>4. RefusedInv' BY <1>5 DEF MixinInv, RefusedInv, Autojoin!ArchivedFails
    <2> QED BY <2>1, <2>2, <2>3, <2>4 DEF MixinInv
  <1> QED BY <1>2, <1>3, <1>4, <1>5

\* An invite is accepted, or passed over.
LEMMA InvitesKeep ==
    ASSUME MixinInv, NEW u \in Autojoin!Ours, NEW sender \in Autojoin!Everyone, NEW meets \in BOOLEAN,
           Autojoin!Invite(u, sender, meets)
    PROVE  MixinInv'
  <1>1. /\ Autojoin!Ours' = Autojoin!Ours /\ u \in Autojoin!Everyone
        /\ UNCHANGED <<new, place, rejected, removals, refused>>
    BY OursAreAll DEF Autojoin!Invite, Autojoin!Ours, Autojoin!OfClient
  <1>2. \/ asked' = asked \cup {<<u, "invite">>} /\ welcome' = welcome \cup {u}
        \/ asked' = asked /\ welcome' = welcome
    BY DEF Autojoin!Invite
  <1>3. ChosenInv' BY <1>1, <1>2 DEF MixinInv, ChosenInv
  <1>4. DecidedInv' BY <1>1, <1>2 DEF MixinInv, DecidedInv, Asked
  <1>5. OrderInv' BY <1>1, <1>2 DEF MixinInv, OrderInv
  <1>6. RefusedInv' BY <1>1 DEF MixinInv, RefusedInv
  <1> QED BY <1>3, <1>4, <1>5, <1>6 DEF MixinInv

\* A join that was asked for is made, or fails.
LEMMA MixinJoinsKeep ==
    ASSUME MixinInv, NEW u \in Autojoin!Ours, NEW why \in {"upgrade", "invite"},
           Autojoin!Join(u, why) \/ Autojoin!JoinFails(u, why)
    PROVE  MixinInv'
  <1>1. /\ Autojoin!Ours' = Autojoin!Ours /\ u \in Autojoin!Everyone
        /\ <<u, why>> \in asked /\ asked' = asked \ {<<u, why>>}
        /\ UNCHANGED <<place, removals, welcome>>
    BY OursAreAll DEF Autojoin!Join, Autojoin!JoinFails, Autojoin!Ours, Autojoin!OfClient
  <1>2. /\ new' \in {new, new \cup {u}} /\ refused' \in {refused, refused \cup {u}}
        /\ u \in new' \cup refused' /\ (refused' # refused => rejected')
        /\ (rejected => rejected')
    BY DEF Autojoin!Join, Autojoin!JoinFails
  <1>3. u \in welcome BY <1>1 DEF MixinInv, ChosenInv
  <1>4. ChosenInv' BY <1>1, <1>2, <1>3 DEF MixinInv, ChosenInv
  <1>5. DecidedInv'
    <2>1. ASSUME NEW v \in welcome, v # u, Asked(v) PROVE Asked(v)' BY <1>1, <2>1 DEF Asked
    <2> QED BY <1>1, <1>2, <2>1 DEF MixinInv, DecidedInv
  <1>6. OrderInv' BY <1>1, <1>2 DEF MixinInv, OrderInv
  <1>7. RefusedInv' BY <1>1, <1>2 DEF MixinInv, RefusedInv
  <1> QED BY <1>4, <1>5, <1>6, <1>7 DEF MixinInv

LEMMA MixinsKeep ==
    ASSUME MixinInv, [Autojoin!Next]_mixinVars
    PROVE  MixinInv'
  <1>1. CASE Autojoin!Ends
    <2>1. Autojoin!Ours' = Autojoin!Ours /\ place' = "ended" /\ asked' \subseteq asked
          /\ UNCHANGED <<new, rejected, removals, welcome, refused>>
      BY <1>1 DEF Autojoin!Ends, Autojoin!Ours, Autojoin!OfClient
    <2>2. ChosenInv' BY <2>1 DEF MixinInv, ChosenInv
    <2>3. DecidedInv' BY <2>1 DEF MixinInv, DecidedInv
    <2>4. OrderInv' BY <2>1 DEF MixinInv, OrderInv
    <2>5. RefusedInv' BY <2>1 DEF MixinInv, RefusedInv
    <2> QED BY <2>2, <2>3, <2>4, <2>5 DEF MixinInv
  <1>2. CASE UNCHANGED mixinVars
    <2>1. Autojoin!Ours' = Autojoin!Ours BY <1>2 DEF mixinVars, Autojoin!Ours, Autojoin!OfClient
    <2>2. ChosenInv' BY <1>2, <2>1 DEF MixinInv, ChosenInv, mixinVars
    <2>3. DecidedInv' BY <1>2 DEF MixinInv, DecidedInv, Asked, mixinVars
    <2>4. OrderInv' BY <1>2 DEF MixinInv, OrderInv, mixinVars
    <2>5. RefusedInv' BY <1>2 DEF MixinInv, RefusedInv, mixinVars
    <2> QED BY <2>2, <2>3, <2>4, <2>5 DEF MixinInv
  <1> QED BY <1>1, <1>2, LeavesKeep, ListenerKeeps, InvitesKeep, MixinJoinsKeep DEF Autojoin!Next

-----------------------------------------------------------------------------
(* Who is in a room                                                         *)

\* What joinRoom tells its caller is true, for any schedule of retries
\* (src/src/strategies), and whoever the mixins decided on comes in or was
\* refused, behind the bot, for any users and members (src/src/mixins).
THEOREM JoinsAreTold == PartsSpec => []JoinIsTold
<1> DEFINE Inv == (part = "joins" => JoinInv) /\ (part = "mixins" => MixinInv)
<1>1. PartsInit => Inv
  BY JoinStarts, MixinStarts DEF PartsInit, JoinsInit, AutojoinInit
<1>2. Inv /\ [PartsNext]_partsVars => Inv'
  <2>1. ASSUME part = "joins", JoinInv, [PartsNext]_partsVars PROVE JoinInv'
    <3>1. CASE Joins!Next
      BY <2>1, <3>1, JoinKeeps
    <3>2. CASE UNCHANGED joinVars
      BY <2>1, <3>2 DEF joinVars, JoinInv
    <3> QED BY <2>1, <3>1, <3>2, PartSteps
  <2>2. ASSUME part = "mixins", MixinInv, [PartsNext]_partsVars PROVE MixinInv'
    BY <2>2, MixinsKeep, PartSteps
  <2> QED BY <2>1, <2>2, PartSteps
<1>3. JoinInv => Joins!JoinIsTold
  BY DEF JoinInv, Joins!JoinIsTold
<1>4. MixinInv => Autojoin!Followed
  <2> SUFFICES ASSUME MixinInv PROVE Autojoin!Followed OBVIOUS
  <2>1. new \cap Autojoin!Ours \subseteq welcome BY DEF MixinInv, ChosenInv
  <2>2. ASSUME asked = {}, place \in {"idle", "over"} PROVE welcome \subseteq new \cup refused
    BY <2>2 DEF MixinInv, DecidedInv, Asked
  <2>3. ASSUME NEW u \in Autojoin!Ours, <<u, "upgrade">> \in asked
        PROVE  Autojoin!CanJoin(u) \/ refused # {}
    <3>1. Bot \in new \/ refused # {} BY <2>3, OursAreAll DEF MixinInv, OrderInv
    <3> QED BY <3>1, OursAreAll DEF Autojoin!CanJoin
  <2>4. refused # {} /\ removals = 0 => rejected BY DEF MixinInv, RefusedInv
  <2> QED BY <2>1, <2>2, <2>3, <2>4 DEF Autojoin!Followed
<1> QED BY <1>1, <1>2, <1>3, <1>4, PTL DEF PartsSpec, JoinIsTold

-----------------------------------------------------------------------------
(* Key queries and other requests                                           *)

Answers == [at : {"emitting", "over"}, result : Queries!Results,
            pc : {"settle", "create", "done", "failed"}]

\* Nobody is asked about a request that is refused.
RefusalInv ==
    /\ stage = "received" => response = Nothing /\ answers = <<>> /\ ~unhandled /\ ~responded
    /\ Queries!Refusal(request) # {} /\ stage # "received" =>
           /\ stage = "over" /\ answers = <<>> /\ ~unhandled
           /\ response \in Queries!Refusal(request)

\* Before a listener calls back nothing is sent, but by the key handlers at the
\* end, and the key handlers send nothing while the event is emitted.
EmitInv ==
    /\ answers = <<>> => ~unhandled
    /\ answers # <<>> => responded
    /\ answers = <<>> /\ Queries!Refusal(request) = {} /\ (request.kind \in Queries!KeyKinds => stage # "over")
           => response = Nothing
    /\ request.kind \in Queries!KeyKinds /\ stage = "emitting" =>
           /\ response = Nothing /\ ~unhandled
           /\ \A n \in DOMAIN answers : answers[n].pc = "settle"

\* How far a single answer that can be used has come.
SingleInv ==
    Queries!Fair /\ Queries!Refusal(request) = {} =>
        LET a == answers[1]
        IN /\ a.pc \in {"settle", "create"} => response = Nothing
           /\ a.pc # "failed" => ~unhandled
           /\ a.pc = "create" => a.result.outcome = "value" /\ request.kind \in Queries!AdminKinds
           /\ a.pc = "done" /\ request.kind \notin {"protocol", "object"} =>
                  response = Queries!RightCode(a.result.outcome)

QueryInv ==
    /\ request \in Queries!Requests
    /\ stage \in {"received", "emitting", "over"}
    /\ responded \in BOOLEAN /\ unhandled \in BOOLEAN
    /\ answers \in Seq(Answers)
    /\ RefusalInv /\ EmitInv /\ SingleInv

LEMMA QueryStarts == Queries!Init => QueryInv
<1> SUFFICES ASSUME Queries!Init PROVE QueryInv
  OBVIOUS
<1>1. answers = <<>> /\ Len(answers) # 1 /\ answers \in Seq(Answers)
  BY DEF Queries!Init
<1> QED BY <1>1 DEF Queries!Init, QueryInv, RefusalInv, EmitInv, SingleInv, Queries!Fair

LEMMA ReceiveKeeps ==
    ASSUME QueryInv, Queries!Receive \/ Queries!EmitEnds
    PROVE  QueryInv'
<1> USE DEF QueryInv
<1>1. CASE Queries!Receive
  <2>1. /\ request' = request /\ answers' = answers /\ unhandled' = unhandled
        /\ responded' = responded /\ stage = "received" /\ stage' \in {"emitting", "over"}
        /\ Queries!Refusal(request) = {} => stage' = "emitting" /\ response' = response
        /\ Queries!Refusal(request) # {} => stage' = "over" /\ response' \in Queries!Refusal(request)
    BY <1>1 DEF Queries!Receive
  <2>2. Queries!Refusal(request)' = Queries!Refusal(request)
    BY <2>1 DEF Queries!Refusal, Queries!IsAuthed
  <2>3. answers = <<>> /\ Len(answers) = 0
    BY <2>1 DEF RefusalInv
  <2>4. RefusalInv' /\ EmitInv'
    BY <2>1, <2>2, <2>3 DEF RefusalInv, EmitInv
  <2>5. SingleInv'
    BY <2>1, <2>3 DEF SingleInv, Queries!Fair
  <2> QED BY <2>1, <2>4, <2>5
<1>2. CASE Queries!EmitEnds
  <2>1. /\ request' = request /\ answers' = answers /\ unhandled' = unhandled
        /\ responded' = responded /\ stage = "emitting" /\ stage' = "over"
        /\ response' = IF request.kind \in Queries!KeyKinds /\ ~responded THEN 404 ELSE response
    BY <1>2 DEF Queries!EmitEnds
  <2>2. Queries!Refusal(request)' = Queries!Refusal(request) /\ Queries!Refusal(request) = {}
    BY <2>1 DEF Queries!Refusal, Queries!IsAuthed, RefusalInv
  <2>3. RefusalInv' /\ EmitInv'
    BY <2>1, <2>2 DEF RefusalInv, EmitInv
  <2>4. SingleInv'
    <3> SUFFICES ASSUME Queries!Fair' PROVE SingleInv'
      BY DEF SingleInv
    <3>1. Len(answers) = 1 /\ Queries!Fair
      BY <2>1 DEF Queries!Fair
    <3>2. answers # <<>>
      BY <3>1
    <3>3. response' = response
      BY <2>1, <3>2 DEF EmitInv
    <3> QED BY <2>1, <2>2, <3>1, <3>3 DEF SingleInv, Queries!RightCode
  <2> QED BY <2>1, <2>3, <2>4
<1> QED BY <1>1, <1>2

LEMMA CallbackKeeps ==
    ASSUME QueryInv, NEW result \in Queries!Given, Queries!Callback(result)
    PROVE  QueryInv'
<1> USE DEF QueryInv
<1> DEFINE a == [at |-> stage, result |-> result, pc |-> "settle"]
<1>1. /\ answers' = Append(answers, a) /\ responded'
      /\ UNCHANGED <<request, stage, response, unhandled>>
      /\ stage = "emitting" \/ (stage = "over" /\ Queries!Refusal(request) = {})
  BY DEF Queries!Callback
<1>2. a \in Answers
  BY <1>1 DEF Answers, Queries!Given
<1>3. Queries!Refusal(request)' = Queries!Refusal(request) /\ Queries!Refusal(request) = {}
  BY <1>1 DEF Queries!Refusal, Queries!IsAuthed, RefusalInv
<1> HIDE DEF a
<1>4. /\ answers' \in Seq(Answers) /\ Len(answers) \in Nat /\ Len(answers') = Len(answers) + 1
      /\ answers' # <<>> /\ DOMAIN answers = 1..Len(answers) /\ DOMAIN answers' = 1..(Len(answers) + 1)
      /\ \A n \in 1..Len(answers) : answers'[n] = answers[n]
      /\ answers'[Len(answers) + 1] = a
  BY <1>1, <1>2
<1>5. RefusalInv'
  BY <1>1, <1>3 DEF RefusalInv
<1>6. EmitInv'
  <2>1. \A n \in DOMAIN answers' : n \in DOMAIN answers \/ answers'[n] = a
    BY <1>4
  <2>2. a.pc = "settle"
    BY DEF a
  <2> QED BY <1>1, <1>3, <1>4, <2>1, <2>2 DEF EmitInv
<1>7. SingleInv'
  <2> SUFFICES ASSUME Queries!Fair' PROVE SingleInv'
    BY DEF SingleInv
  <2>1. Len(answers) = 0
    BY <1>4 DEF Queries!Fair
  <2>2. answers = <<>> /\ answers'[1] = a
    BY <1>4, <2>1
  <2>3. a.pc = "settle" /\ a.at = stage
    BY DEF a
  <2>4. response = Nothing /\ ~unhandled
    BY <1>1, <1>3, <2>2, <2>3 DEF EmitInv, Queries!Fair
  <2> QED BY <1>1, <2>2, <2>3, <2>4 DEF SingleInv
<1> QED BY <1>1, <1>4, <1>5, <1>6, <1>7

\* One answer goes a step further; the others stay as they are.
LEMMA StepEffect ==
    ASSUME QueryInv, NEW n \in DOMAIN answers, NEW label \in {"create", "done", "failed"},
           Queries!Step(n, label)
    PROVE  /\ answers' \in Seq(Answers) /\ Len(answers') = Len(answers)
           /\ DOMAIN answers' = DOMAIN answers /\ answers # <<>> /\ answers' # <<>>
           /\ answers'[n].pc = label
           /\ answers'[n].at = answers[n].at /\ answers'[n].result = answers[n].result
           /\ \A k \in DOMAIN answers : k # n => answers'[k] = answers[k]
<1>1. /\ answers \in Seq(Answers) /\ n \in 1..Len(answers) /\ DOMAIN answers = 1..Len(answers)
      /\ answers[n] \in Answers
  BY ElementOfSeq DEF QueryInv
<1> DEFINE a == [answers[n] EXCEPT !.pc = label]
<1>2. a \in Answers /\ a.pc = label /\ a.at = answers[n].at /\ a.result = answers[n].result
  BY <1>1 DEF Answers
<1>3. answers' = [answers EXCEPT ![n] = a]
  BY DEF Queries!Step
<1> HIDE DEF a
<1>4. answers' \in Seq(Answers) /\ Len(answers') = Len(answers)
      /\ DOMAIN answers' = 1..Len(answers)
  BY <1>1, <1>2, <1>3, ExceptSeq
<1>5. answers'[n] = a /\ \A k \in 1..Len(answers) : k # n => answers'[k] = answers[k]
  BY <1>1, <1>3
<1>6. answers # <<>> /\ answers' # <<>>
  BY <1>1, <1>4
<1> QED BY <1>1, <1>2, <1>4, <1>5, <1>6

\* A step of an answer that respects what the single answer promises.
LEMMA AnswerKeeps ==
    ASSUME QueryInv, NEW n \in DOMAIN answers, NEW label \in {"create", "done", "failed"},
           Queries!Step(n, label), UNCHANGED <<request, stage, responded>>,
           unhandled' \in BOOLEAN,
           request.kind \in Queries!KeyKinds => stage # "emitting",
           Queries!Fair /\ Queries!Refusal(request) = {} =>
               /\ label = "create" => response' = Nothing /\ ~unhandled'
                                      /\ answers[n].result.outcome = "value"
                                      /\ request.kind \in Queries!AdminKinds
               /\ label = "done" => ~unhandled'
               /\ label = "done" /\ request.kind \notin {"protocol", "object"} =>
                      response' = Queries!RightCode(answers[n].result.outcome)
    PROVE  QueryInv'
<1> USE DEF QueryInv
<1>1. /\ answers' \in Seq(Answers) /\ Len(answers') = Len(answers)
      /\ DOMAIN answers' = DOMAIN answers /\ answers # <<>> /\ answers' # <<>>
      /\ answers'[n].pc = label
      /\ answers'[n].at = answers[n].at /\ answers'[n].result = answers[n].result
      /\ \A k \in DOMAIN answers : k # n => answers'[k] = answers[k]
  BY StepEffect
<1>2. Queries!Refusal(request)' = Queries!Refusal(request) /\ Queries!Refusal(request) = {}
      /\ stage # "received"
  BY <1>1 DEF Queries!Refusal, Queries!IsAuthed, RefusalInv
<1>3. RefusalInv'
  BY <1>2 DEF RefusalInv
<1>4. EmitInv'
  BY <1>1, <1>2 DEF EmitInv
<1>5. SingleInv'
  <2> SUFFICES ASSUME Queries!Fair' PROVE SingleInv'
    BY DEF SingleInv
  <2>1. Len(answers) = 1 /\ n = 1
    BY <1>1 DEF Queries!Fair
  <2>2. Queries!Fair
    BY <1>1, <2>1 DEF Queries!Fair
  <2> QED BY <1>1, <1>2, <2>1, <2>2 DEF SingleInv, Queries!RightCode
<1> QED BY <1>1, <1>3, <1>4, <1>5

LEMMA SettleKeeps ==
    ASSUME QueryInv, NEW n \in DOMAIN answers, Queries!Settle(n)
    PROVE  QueryInv'
<1> USE DEF QueryInv, Queries!Send
<1> DEFINE a == answers[n]
           fair == Queries!Fair /\ Queries!Refusal(request) = {}
<1>1. /\ a.pc = "settle" /\ UNCHANGED <<request, stage, responded>>
      /\ request.kind \in Queries!KeyKinds => stage = "over"
      /\ request.kind \in Queries!KeyKinds => Queries!KeyResult(n, a.result.outcome)
      /\ request.kind \in Queries!AdminKinds => Queries!AdminResult(n, a.result)
      /\ request.kind \notin Queries!KeyKinds \cup Queries!AdminKinds => Queries!LookupResult(n, a.result)
  BY DEF Queries!Settle, Queries!KeyKinds, Queries!AdminKinds
<1>2. fair => n = 1 /\ response = Nothing /\ ~unhandled
  <2> SUFFICES ASSUME fair PROVE n = 1 /\ response = Nothing /\ ~unhandled
    OBVIOUS
  <2>1. n = 1
    BY DEF Queries!Fair
  <2> QED BY <1>1, <2>1 DEF SingleInv
<1>3. CASE request.kind \in Queries!KeyKinds
  <2>1. /\ Queries!Step(n, "done") /\ unhandled' \in BOOLEAN
        /\ fair => response' = Queries!RightCode(a.result.outcome) /\ ~unhandled'
    BY <1>1, <1>2, <1>3 DEF Queries!KeyResult, Queries!RightCode
  <2> HIDE DEF a
  <2>2. a = answers[n]
    BY DEF a
  <2> QED BY <1>1, <1>3, <2>1, <2>2, AnswerKeeps
<1>4. CASE request.kind \in Queries!AdminKinds
  <2>1. request.kind \notin Queries!KeyKinds
    BY <1>4 DEF Queries!KeyKinds, Queries!AdminKinds
  <2>2. fair => a.result.outcome \in {"value", "false"}
    BY <1>2, <1>4 DEF Queries!Fair
  <2>3. \/ /\ Queries!Step(n, "done") /\ unhandled' \in BOOLEAN
           /\ fair => response' = Queries!RightCode(a.result.outcome) /\ ~unhandled'
        \/ /\ Queries!Step(n, "create") /\ unhandled' \in BOOLEAN
           /\ fair => response' = Nothing /\ ~unhandled' /\ a.result.outcome = "value"
    BY <1>1, <1>2, <1>4, <2>2 DEF Queries!AdminResult, Queries!RightCode
  <2> QED BY <1>1, <1>4, <2>1, <2>3, AnswerKeeps
<1>5. CASE request.kind \notin Queries!KeyKinds \cup Queries!AdminKinds
  <2>1. request.kind \in {"protocol", "object"}
    BY <1>5 DEF Queries!Requests, Queries!Kinds
  <2>2. Queries!Step(n, "done") /\ unhandled' \in BOOLEAN /\ (fair => ~unhandled')
    BY <1>1, <1>2, <1>5 DEF Queries!LookupResult
  <2> QED BY <1>1, <1>5, <2>1, <2>2, AnswerKeeps
<1> QED BY <1>3, <1>4, <1>5

LEMMA CreateKeeps ==
    ASSUME QueryInv, NEW n \in DOMAIN answers, Queries!Create(n) \/ Queries!CreateFails(n)
    PROVE  QueryInv'
<1> USE DEF QueryInv, Queries!Send
<1> DEFINE fair == Queries!Fair /\ Queries!Refusal(request) = {}
<1>1. answers[n].pc = "create" /\ UNCHANGED <<request, stage, responded>>
  BY DEF Queries!Create, Queries!CreateFails
<1>2. fair => /\ response = Nothing /\ ~unhandled
              /\ answers[n].result.outcome = "value" /\ request.kind \in Queries!AdminKinds
  <2> SUFFICES ASSUME fair
               PROVE  /\ response = Nothing /\ ~unhandled
                      /\ answers[n].result.outcome = "value" /\ request.kind \in Queries!AdminKinds
    OBVIOUS
  <2>1. n = 1
    BY DEF Queries!Fair
  <2> QED BY <1>1, <2>1 DEF SingleInv
<1>3. request.kind \in Queries!KeyKinds => stage # "emitting"
  BY <1>1 DEF EmitInv
<1>4. CASE Queries!Create(n)
  <2>1. /\ Queries!Step(n, "done") /\ unhandled' \in BOOLEAN
        /\ fair => response' = Queries!RightCode(answers[n].result.outcome) /\ ~unhandled'
    BY <1>2, <1>4 DEF Queries!Create, Queries!RightCode
  <2> QED BY <1>1, <1>3, <2>1, AnswerKeeps
<1>5. CASE Queries!CreateFails(n)
  BY <1>1, <1>3, <1>5, AnswerKeeps DEF Queries!CreateFails
<1> QED BY <1>4, <1>5

\* A request is answered once, by the one answer a listener gives that can be
\* used, and only the hs_token is let in, whatever the order of callbacks,
\* promises and the end of the event, for any number of callbacks
\* (src/src/appservice/Appservice.ts:907-1088).
THEOREM QueriesAnswered == PartsSpec => []AnsweredOnce
<1> DEFINE Inv == part = "queries" => QueryInv
<1>1. PartsInit => Inv
  BY QueryStarts DEF PartsInit, QueriesInit
<1>2. Inv /\ [PartsNext]_partsVars => Inv'
  <2> SUFFICES ASSUME part = "queries", QueryInv, [PartsNext]_partsVars PROVE QueryInv'
    BY PartSteps
  <2>1. CASE Queries!Next
    BY <2>1, ReceiveKeeps, CallbackKeeps, SettleKeeps, CreateKeeps DEF Queries!Next
  <2>2. CASE UNCHANGED queryVars
    <3>1. UNCHANGED <<request, stage, responded, response, answers, unhandled>>
      BY <2>2 DEF queryVars
    <3>2. Queries!Refusal(request)' = Queries!Refusal(request)
      BY <3>1 DEF Queries!Refusal, Queries!IsAuthed
    <3>3. RefusalInv' /\ EmitInv'
      BY <3>1, <3>2 DEF QueryInv, RefusalInv, EmitInv
    <3>4. SingleInv'
      BY <3>1, <3>2 DEF QueryInv, SingleInv, Queries!Fair
    <3> QED BY <3>1, <3>3, <3>4 DEF QueryInv
  <2> QED BY <2>1, <2>2, PartSteps
<1>3. QueryInv => Queries!AnsweredOnce
  <2> SUFFICES ASSUME QueryInv PROVE Queries!AnsweredOnce
    OBVIOUS
  <2>1. request.header = "Basic" => Queries!Refusal(request) = {401}
    BY AppserviceAssumption DEF Queries!Refusal, Queries!IsAuthed
  <2>2. request.header = "Basic" /\ stage # "received" => response = 401
    BY <2>1 DEF QueryInv, RefusalInv
  <2>3. stage = "over" /\ Queries!Refusal(request) # {} =>
            response \in Queries!Refusal(request) /\ ~unhandled
    BY DEF QueryInv, RefusalInv
  <2>4. stage = "over" /\ answers = <<>> => ~unhandled
    BY DEF QueryInv, EmitInv
  <2> QED BY <2>2, <2>3, <2>4 DEF Queries!AnsweredOnce, QueryInv, SingleInv
<1> QED BY <1>1, <1>2, <1>3, PTL DEF PartsSpec, AnsweredOnce

-----------------------------------------------------------------------------
(* The device of an Intent                                                  *)

Ids == Devices \cup {Nothing}

CryptoTypes ==
    /\ devices \subseteq Devices
    /\ storedToken \in Ids /\ storedDevice \in Ids
    /\ setup \in [Objects -> Crypto!Running \cup {"none", "ready", "failed"}]
    /\ ownDevices \in [Objects -> SUBSET Devices]
    /\ deviceId \in [Objects -> Ids] /\ acting \in [Objects -> Ids]
    /\ loaded \in [Objects -> Ids] /\ machine \in [Objects -> Ids]

\* One Intent at a time is set up.
AloneInv ==
    \A i, j \in Objects : setup[i] \in Crypto!Running /\ setup[j] \in Crypto!Running => i = j

\* What is on disk is of devices there are, and without impersonation the device
\* of the crypto store is the one the token logs in.
DiskInv ==
    /\ storedDevice \in devices \cup {Nothing} /\ storedToken \in devices \cup {Nothing}
    /\ storedDevice # Nothing /\ ~supports => storedToken = storedDevice

\* What an Intent knows on its way, against what is on disk.
WayInv ==
    \A i \in Objects :
        /\ setup[i] = "keys" => storedDevice = Nothing /\ deviceId[i] = Nothing
        /\ setup[i] = "impersonate" =>
               deviceId[i] # Nothing /\ storedDevice \in {Nothing, deviceId[i]}
        /\ setup[i] = "token" /\ supports => storedDevice = Nothing
        /\ setup[i] = "login" => storedDevice = Nothing
        /\ setup[i] \in {"prepare", "whoami"} =>
               /\ acting[i] \in devices
               /\ loaded[i] = storedDevice /\ loaded[i] \in {Nothing, acting[i]}
               /\ ~supports => storedToken = acting[i]
        /\ setup[i] = "whoami" => loaded[i] = Nothing
        /\ setup[i] \in {"run", "ready"} => machine[i] = acting[i]

CryptoInv == CryptoTypes /\ (upsets = {} => AloneInv /\ DiskInv /\ WayInv)

LEMMA CryptoStarts == Crypto!Init => CryptoInv
  BY DEF Crypto!Init, Crypto!Blank, Crypto!Running, CryptoInv, CryptoTypes, Ids, AloneInv,
         DiskInv, WayInv

LEMMA CryptoTyped ==
    ASSUME CryptoTypes, Crypto!Next
    PROVE  CryptoTypes'
<1> USE DEF CryptoTypes, Ids, Crypto!GoTo, Crypto!At, Crypto!Set, Crypto!MakeClient,
            Crypto!homeserver, Crypto!disk, Crypto!local, Crypto!Running
<1>1. ASSUME NEW i \in Objects, Crypto!EnableEncryption(i) PROVE CryptoTypes'
  BY <1>1 DEF Crypto!EnableEncryption
<1>2. ASSUME NEW i \in Objects, Crypto!EnsureRegistered(i) PROVE CryptoTypes'
  BY <1>2 DEF Crypto!EnsureRegistered
<1>3. ASSUME NEW i \in Objects, Crypto!GetOwnDevices(i) PROVE CryptoTypes'
  BY <1>3 DEF Crypto!GetOwnDevices
<1>4. ASSUME NEW i \in Objects, Crypto!GetUserDevices(i) PROVE CryptoTypes'
  BY <1>4 DEF Crypto!GetUserDevices
<1>5. ASSUME NEW i \in Objects, Crypto!Impersonate(i) PROVE CryptoTypes'
  BY <1>5 DEF Crypto!Impersonate
<1>6. ASSUME NEW i \in Objects, Crypto!ReadToken(i) PROVE CryptoTypes'
  BY <1>6 DEF Crypto!ReadToken
<1>7. ASSUME NEW i \in Objects, Crypto!Login(i) PROVE CryptoTypes'
  BY <1>7 DEF Crypto!Login
<1>8. ASSUME NEW i \in Objects, Crypto!Prepare(i) PROVE CryptoTypes'
  BY <1>8 DEF Crypto!Prepare
<1>9. ASSUME NEW i \in Objects, Crypto!WhoAmI(i) PROVE CryptoTypes'
  BY <1>9 DEF Crypto!WhoAmI
<1>10. ASSUME NEW i \in Objects, Crypto!Run(i) PROVE CryptoTypes'
  BY <1>10 DEF Crypto!Run
<1>11. ASSUME NEW i \in Objects, Crypto!Fail(i) PROVE CryptoTypes'
  BY <1>11 DEF Crypto!Fail
<1>12. ASSUME NEW d \in Devices, Crypto!DeleteDevice(d) PROVE CryptoTypes'
  BY <1>12 DEF Crypto!DeleteDevice
<1>13. CASE Crypto!Crash
  BY <1>13 DEF Crypto!Crash, Crypto!Blank
<1> QED
  BY <1>1, <1>2, <1>3, <1>4, <1>5, <1>6, <1>7, <1>8, <1>9, <1>10, <1>11, <1>12, <1>13
     DEF Crypto!Next, Crypto!IntentStep

\* Nothing separates the two devices as long as nothing happened that may.
LEMMA CryptoKeeps ==
    ASSUME CryptoTypes, AloneInv, DiskInv, WayInv, upsets = {}, upsets' = {},
           NEW i \in Objects, Crypto!IntentStep(i)
    PROVE  AloneInv' /\ DiskInv' /\ WayInv'
<1> USE AppserviceAssumption DEF CryptoTypes, Ids, Crypto!GoTo, Crypto!At, Crypto!Set,
        Crypto!MakeClient, Crypto!homeserver, Crypto!disk, Crypto!local
<1>1. ASSUME \A j \in Objects : j # i => setup'[j] = setup[j],
             setup[i] \in Crypto!Running \/ \A j \in Objects : setup[j] \notin Crypto!Running
      PROVE  AloneInv'
  BY <1>1 DEF AloneInv
<1>2. CASE Crypto!EnableEncryption(i)
  <2>1. \A j \in Objects : setup[j] \notin Crypto!Running
    BY <1>2 DEF Crypto!EnableEncryption
  <2> QED BY <1>1, <1>2, <2>1 DEF Crypto!EnableEncryption, DiskInv, WayInv
<1>3. ASSUME setup[i] \in Crypto!Running, \A j \in Objects : j # i => setup'[j] = setup[j]
      PROVE  /\ AloneInv'
             /\ \A j \in Objects : j # i => setup[j] \notin Crypto!Running
  BY <1>1, <1>3 DEF AloneInv
<1>4. ASSUME setup[i] \in Crypto!Running, \A j \in Objects : j # i => setup'[j] = setup[j],
             \A j \in Objects : j # i => machine'[j] = machine[j] /\ acting'[j] = acting[j],
             /\ setup'[i] = "keys" => storedDevice' = Nothing /\ deviceId'[i] = Nothing
             /\ setup'[i] = "impersonate" =>
                    deviceId'[i] # Nothing /\ storedDevice' \in {Nothing, deviceId'[i]}
             /\ setup'[i] = "token" /\ supports' => storedDevice' = Nothing
             /\ setup'[i] = "login" => storedDevice' = Nothing
             /\ setup'[i] \in {"prepare", "whoami"} =>
                    /\ acting'[i] \in devices'
                    /\ loaded'[i] = storedDevice' /\ loaded'[i] \in {Nothing, acting'[i]}
                    /\ ~supports' => storedToken' = acting'[i]
             /\ setup'[i] = "whoami" => loaded'[i] = Nothing
             /\ setup'[i] \in {"run", "ready"} => machine'[i] = acting'[i]
      PROVE  AloneInv' /\ WayInv'
  <2>1. AloneInv' /\ \A j \in Objects : j # i => setup[j] \notin Crypto!Running
    BY <1>3, <1>4
  <2>2. \A j \in Objects : j # i =>
            setup'[j] \notin {"keys", "impersonate", "token", "login", "prepare", "whoami", "run"}
    BY <1>4, <2>1 DEF Crypto!Running
  <2>3. \A j \in Objects : j # i /\ setup'[j] = "ready" => machine'[j] = acting'[j]
    BY <1>4 DEF WayInv
  <2> QED BY <1>4, <2>1, <2>2, <2>3 DEF WayInv
<1>5. CASE Crypto!EnsureRegistered(i)
  BY <1>4, <1>5 DEF Crypto!EnsureRegistered, Crypto!Running, DiskInv
<1>6. CASE Crypto!GetOwnDevices(i)
  BY <1>4, <1>6 DEF Crypto!GetOwnDevices, Crypto!Running, DiskInv
<1>7. CASE Crypto!GetUserDevices(i)
  BY <1>4, <1>7 DEF Crypto!GetUserDevices, Crypto!Running, DiskInv, WayInv
<1>8. CASE Crypto!Impersonate(i)
  BY <1>4, <1>8 DEF Crypto!Impersonate, Crypto!Running, DiskInv, WayInv
<1>9. CASE Crypto!ReadToken(i)
  BY <1>4, <1>9 DEF Crypto!ReadToken, Crypto!Running, DiskInv, WayInv
<1>10. CASE Crypto!Login(i)
  BY <1>4, <1>10 DEF Crypto!Login, Crypto!Running, DiskInv, WayInv
<1>11. CASE Crypto!Prepare(i)
  BY <1>4, <1>11 DEF Crypto!Prepare, Crypto!Running, DiskInv, WayInv
<1>12. CASE Crypto!WhoAmI(i)
  BY <1>4, <1>12 DEF Crypto!WhoAmI, Crypto!Running, DiskInv, WayInv
<1>13. CASE Crypto!Run(i)
  BY <1>4, <1>13 DEF Crypto!Run, Crypto!Running, DiskInv, WayInv
<1>14. CASE Crypto!Fail(i)
  BY <1>4, <1>14 DEF Crypto!Fail, Crypto!Running, DiskInv, WayInv
<1> QED
  BY <1>2, <1>5, <1>6, <1>7, <1>8, <1>9, <1>10, <1>11, <1>12, <1>13, <1>14
     DEF Crypto!IntentStep

\* What may separate them is not forgotten.
LEMMA CryptoHeld ==
    ASSUME CryptoInv, Crypto!Next
    PROVE  CryptoInv'
<1>1. CryptoTypes' /\ CryptoTypes
  BY CryptoTyped DEF CryptoInv
<1>2. CASE \E i \in Objects : Crypto!IntentStep(i)
  <2>1. PICK i \in Objects : Crypto!IntentStep(i)
    BY <1>2
  <2>2. upsets \subseteq upsets'
    BY <2>1 DEF Crypto!IntentStep, Crypto!EnableEncryption, Crypto!EnsureRegistered,
       Crypto!GetOwnDevices, Crypto!GetUserDevices, Crypto!Impersonate, Crypto!ReadToken,
       Crypto!Login, Crypto!Prepare, Crypto!WhoAmI, Crypto!Run, Crypto!Fail
  <2>3. ASSUME upsets' = {} PROVE AloneInv' /\ DiskInv' /\ WayInv'
    <3>1. upsets = {}
      BY <2>2, <2>3
    <3> QED BY <1>1, <2>1, <2>3, <3>1, CryptoKeeps DEF CryptoInv
  <2> QED BY <1>1, <2>3 DEF CryptoInv
<1>3. CASE \E d \in Devices : Crypto!DeleteDevice(d)
  <2>1. upsets' # {}
    BY <1>3 DEF Crypto!DeleteDevice
  <2> QED BY <1>1, <2>1 DEF CryptoInv
<1>4. CASE Crypto!Crash
  <2>1. /\ \A i \in Objects : setup'[i] = "none"
        /\ UNCHANGED <<devices, supports, storedToken, storedDevice, upsets>>
    BY <1>4 DEF Crypto!Crash, Crypto!homeserver, Crypto!disk
  <2>2. ASSUME upsets' = {} PROVE AloneInv' /\ DiskInv' /\ WayInv'
    BY <2>1, <2>2 DEF CryptoInv, AloneInv, DiskInv, WayInv, Crypto!Running
  <2> QED BY <1>1, <2>2 DEF CryptoInv
<1> QED BY <1>2, <1>3, <1>4 DEF Crypto!Next

\* A set of numbers has a least one: induction over data without an operator.
LEMMA Least ==
    ASSUME NEW T, T \subseteq Nat, T # {}
    PROVE  \E x \in T : \A y \in T : x <= y
<1> DEFINE R == {ss \in Nat \X Nat : ss[1] < ss[2]}
<1>1. IsWellFoundedOn(R, Nat)
  BY NatLessThanWellFounded DEF OpToRel
<1>2. \E x \in T : \A y \in T : <<y, x>> \notin R
  <2> HIDE DEF R
  <2> QED BY <1>1, WFMin
<1>3. \A x, y \in T : <<y, x>> \notin R => x <= y
  OBVIOUS
<1> QED BY <1>2, <1>3

-----------------------------------------------------------------------------
(* What the machines hear of a transaction                                  *)

Infos == [toDevice : Seq(Nat), counts : {Nothing, "counts"}, fallbacks : {Nothing, "without"}]

\* The transaction stays; the machines heard of it and of nothing else.
MachineTypes ==
    /\ machineTxn.edus \in Seq([to : Users, crypto : BOOLEAN])
    /\ loop \in {"edus", "counts", "fallbacks", "update", "events"}
    /\ edu \in 0..Len(machineTxn.edus) /\ left \subseteq Users
    /\ DOMAIN byUserId \subseteq enabled /\ enabled \subseteq Users
    /\ byUserId = [u \in DOMAIN byUserId |-> byUserId[u]]
    /\ heard \in [Users -> Seq([info : Infos, lists : {machineTxn.lists}])]
    /\ failures \in Nat

\* What is gathered of a user at each place, and that it is something.
Gathered(u) ==
    [toDevice |-> IF loop = "edus" THEN Machines!MessagesTo(u)[edu] ELSE Machines!MessagesOf(u),
     counts |-> IF loop = "edus" \/ (loop = "counts" /\ u \in left) THEN Nothing
                ELSE Machines!Said(u).counts,
     fallbacks |-> IF loop \in {"edus", "counts"} \/ (loop = "fallbacks" /\ u \in left)
                   THEN Nothing ELSE Machines!Said(u).fallbacks]

GatherInv ==
    /\ loop = "edus" => left = {}
    /\ \A u \in Users :
        /\ Machines!Info(u) = Gathered(u)
        /\ u \in DOMAIN byUserId => byUserId[u] # Machines!NoInfo

\* What the machines heard: the machines of the users that were gathered for, in
\* this attempt of all those the loop has passed, and once per attempt.
HeardInv ==
    /\ loop = "update" => left \subseteq DOMAIN byUserId
    /\ \A u \in Users :
        /\ \A i \in DOMAIN heard[u] :
               heard[u][i] = [info |-> Machines!Said(u), lists |-> machineTxn.lists]
        /\ heard[u] # <<>> => Machines!Said(u) # Machines!NoInfo
        /\ loop \in {"update", "events"} /\ u \in DOMAIN byUserId
               /\ (loop = "update" => u \notin left) => heard[u] # <<>>
        /\ Len(heard[u]) <= failures +
               (IF (loop = "update" /\ u \notin left) \/ loop = "events" THEN 1 ELSE 0)

MachineInv == MachineTypes /\ GatherInv /\ HeardInv

\* What the recursion of MessagesTo computes of the first n messages.
ToSteps(f, edus, u, n) ==
    /\ f = [i \in 0..n |-> f[i]]
    /\ f[0] = <<>>
    /\ \A i \in 1..n :
           f[i] = IF edus[i].to = u /\ edus[i].crypto THEN Append(f[i - 1], i) ELSE f[i - 1]

\* There is a function that the recursion of MessagesTo defines.
LEMMA ToExists ==
    ASSUME NEW edus, NEW u, NEW len \in Nat
    PROVE  \E f : ToSteps(f, edus, u, len)
<1> DEFINE Has(n) == \E f : ToSteps(f, edus, u, n)
           T == {k \in Nat : ~Has(k)}
<1>1. Has(0)
  <2>1. ToSteps([i \in 0..0 |-> <<>>], edus, u, 0)
    BY DEF ToSteps
  <2> QED BY <2>1
<1>2. ASSUME NEW n \in Nat, Has(n)
      PROVE  Has(n + 1)
  <2>1. PICK f : ToSteps(f, edus, u, n)
    BY <1>2
  <2> DEFINE mine == edus[n + 1].to = u /\ edus[n + 1].crypto
             next == IF mine THEN Append(f[n], n + 1) ELSE f[n]
             g == [i \in 0..(n + 1) |-> IF i = n + 1 THEN next ELSE f[i]]
  <2>2. g = [i \in 0..(n + 1) |-> g[i]] /\ g[0] = <<>> /\ g[n + 1] = next
    BY <2>1 DEF ToSteps
  <2>3. \A i \in 0..n : g[i] = f[i]
    OBVIOUS
  <2>4. ASSUME NEW i \in 1..(n + 1)
        PROVE  g[i] = IF edus[i].to = u /\ edus[i].crypto THEN Append(g[i - 1], i)
                      ELSE g[i - 1]
    <3> HIDE DEF g
    <3>1. CASE i = n + 1
      <4>1. g[i - 1] = f[n]
        BY <2>3, <3>1
      <4> QED BY <2>2, <3>1, <4>1
    <3>2. CASE i # n + 1
      <4>1. i \in 1..n /\ i \in 0..n /\ i - 1 \in 0..n
        BY <3>2
      <4>2. g[i] = f[i] /\ g[i - 1] = f[i - 1]
        BY <2>3, <4>1
      <4>3. f[i] = IF edus[i].to = u /\ edus[i].crypto THEN Append(f[i - 1], i) ELSE f[i - 1]
        BY <2>1, <4>1 DEF ToSteps
      <4> QED BY <4>2, <4>3
    <3> QED BY <3>1, <3>2
  <2>5. ToSteps(g, edus, u, n + 1)
    <3> HIDE DEF g
    <3> QED BY <2>2, <2>4 DEF ToSteps
  <2> QED BY <2>5
<1>3. T = {}
  <2> SUFFICES ASSUME T # {} PROVE FALSE
    OBVIOUS
  <2>1. PICK n \in T : \A y \in T : n <= y
    <3>1. T \subseteq Nat
      OBVIOUS
    <3> HIDE DEF T
    <3> QED BY <3>1, Least
  <2> HIDE DEF Has
  <2>2. n \in Nat /\ ~Has(n)
    OBVIOUS
  <2>3. n # 0
    BY <1>1, <2>2
  <2>4. n - 1 \in Nat /\ n - 1 \notin T
    BY <2>1, <2>2, <2>3
  <2>5. Has(n - 1)
    BY <2>4
  <2>6. Has((n - 1) + 1)
    BY <1>2, <2>4, <2>5
  <2>7. (n - 1) + 1 = n
    BY <2>2
  <2> QED BY <2>2, <2>6, <2>7
<1>4. Has(len)
  <2> HIDE DEF Has
  <2> QED BY <1>3
<1> QED BY <1>4

\* The messages to a user's machine, one message after the other.
LEMMA MessagesGrow ==
    ASSUME Len(machineTxn.edus) \in Nat, NEW u \in Users
    PROVE  /\ Machines!MessagesTo(u)[0] = <<>>
           /\ \A n \in 1..Len(machineTxn.edus) :
                  Machines!MessagesTo(u)[n] =
                      IF machineTxn.edus[n].to = u /\ machineTxn.edus[n].crypto
                      THEN Append(Machines!MessagesTo(u)[n - 1], n)
                      ELSE Machines!MessagesTo(u)[n - 1]
           /\ \A n \in 0..Len(machineTxn.edus) : Machines!MessagesTo(u)[n] \in Seq(Nat)
<1> DEFINE edus == machineTxn.edus
           len == Len(edus)
           Def(f) == [n \in 0..len |->
                         IF n = 0 THEN <<>>
                         ELSE IF edus[n].to = u /\ edus[n].crypto THEN Append(f[n - 1], n)
                         ELSE f[n - 1]]
           among == CHOOSE f : f = Def(f)
<1>1. len \in Nat
  OBVIOUS
<1>2. PICK f : ToSteps(f, edus, u, len)
  BY <1>1, ToExists
<1>3. \E g : g = Def(g)
  <2>1. f = Def(f)
    <3>1. f = [n \in 0..len |-> f[n]]
      BY <1>2 DEF ToSteps
    <3>2. ASSUME NEW n \in 0..len
          PROVE  f[n] = IF n = 0 THEN <<>>
                        ELSE IF edus[n].to = u /\ edus[n].crypto THEN Append(f[n - 1], n)
                        ELSE f[n - 1]
      <4>1. CASE n = 0
        BY <1>2, <4>1 DEF ToSteps
      <4>2. CASE n # 0
        <5>1. n \in 1..len
          BY <1>1, <4>2
        <5> QED BY <1>2, <4>2, <5>1 DEF ToSteps
      <4> QED BY <4>1, <4>2
    <3> QED BY <3>1, <3>2
  <2> HIDE DEF Def
  <2> QED BY <2>1
<1>4. among = Def(among)
  BY <1>3
<1>5. Machines!MessagesTo(u) = among
  BY DEF Machines!MessagesTo
<1>6. /\ among[0] = <<>>
      /\ \A n \in 1..len : among[n] = IF edus[n].to = u /\ edus[n].crypto
                                      THEN Append(among[n - 1], n) ELSE among[n - 1]
  <2>1. \A n \in 0..len : among[n] = IF n = 0 THEN <<>>
                                     ELSE IF edus[n].to = u /\ edus[n].crypto
                                     THEN Append(among[n - 1], n)
                                     ELSE among[n - 1]
    <3> HIDE DEF among
    <3> QED BY <1>4
  <2> HIDE DEF among
  <2>2. 0 \in 0..len /\ \A n \in 1..len : n \in 0..len /\ n # 0
    BY <1>1
  <2> QED BY <2>1, <2>2
<1> HIDE DEF among
<1> DEFINE T == {k \in 0..len : among[k] \notin Seq(Nat)}
<1>7. T = {}
  <2> SUFFICES ASSUME T # {} PROVE FALSE
    OBVIOUS
  <2>1. PICK n \in T : \A y \in T : n <= y
    <3>1. T \subseteq Nat
      BY <1>1
    <3> HIDE DEF T
    <3> QED BY <3>1, Least
  <2>2. n \in 0..len /\ among[n] \notin Seq(Nat)
    OBVIOUS
  <2>3. n # 0
    <3>1. <<>> \in Seq(Nat)
      BY EmptySeq
    <3> QED BY <1>6, <2>2, <3>1
  <2>4. n \in 1..len /\ n \in Nat /\ n - 1 \in 0..len /\ n - 1 \notin T
    BY <1>1, <2>1, <2>2, <2>3
  <2>5. among[n - 1] \in Seq(Nat)
    BY <2>4
  <2>6. Append(among[n - 1], n) \in Seq(Nat)
    BY <2>4, <2>5, AppendProperties
  <2> QED BY <1>6, <2>2, <2>4, <2>5, <2>6
<1> QED BY <1>5, <1>6, <1>7

LEMMA MachineStarts == Machines!Init => MachineInv
<1> SUFFICES ASSUME Machines!Init PROVE MachineInv
  OBVIOUS
<1>1. machineTxn.edus \in Seq([to : Users, crypto : BOOLEAN])
  <2>1. machineTxn.edus \in Machines!BoundedSeq([to : Users, crypto : BOOLEAN], MaxEdus)
    BY DEF Machines!Init, Machines!Transactions
  <2>2. PICK m \in 0..MaxEdus : machineTxn.edus \in [1..m -> [to : Users, crypto : BOOLEAN]]
    BY <2>1 DEF Machines!BoundedSeq, Machines!SeqOf
  <2>3. m \in Nat
    BY AppserviceAssumption
  <2> DEFINE Edus == [to : Users, crypto : BOOLEAN]
  <2> HIDE DEF Machines!Init, Edus
  <2>4. machineTxn.edus \in [1..m -> Edus]
    BY <2>2 DEF Edus
  <2>5. machineTxn.edus \in UNION {[1..n -> Edus] : n \in Nat}
    BY <2>3, <2>4
  <2>6. machineTxn.edus \in Seq(Edus)
    BY <2>5, SeqDef
  <2> QED BY <2>6 DEF Edus
<1>2. Len(machineTxn.edus) \in Nat
  BY <1>1
<1>3. \A u \in Users : Machines!MessagesTo(u)[0] = <<>>
  BY <1>2, MessagesGrow
<1>4. /\ loop = "edus" /\ edu = 0 /\ left = {} /\ enabled = {} /\ failures = 0
      /\ byUserId = [u \in {} |-> Machines!NoInfo] /\ heard = [u \in Users |-> <<>>]
  BY DEF Machines!Init, Machines!Begin
<1>5. \A u \in Users : heard[u] = <<>> /\ DOMAIN heard[u] = {} /\ Len(heard[u]) = 0
  BY <1>4
<1>6. MachineTypes
  BY <1>1, <1>2, <1>4, <1>5 DEF MachineTypes
<1>7. GatherInv
  BY <1>3, <1>4 DEF GatherInv, Gathered, Machines!Info, Machines!NoInfo
<1>8. HeardInv
  BY <1>4, <1>5 DEF HeardInv
<1> QED BY <1>6, <1>7, <1>8 DEF MachineInv

\* The transaction stays as it is, and what it says.
LEMMA SaidStays ==
    ASSUME machineTxn' = machineTxn, NEW u \in Users
    PROVE  /\ Machines!MessagesTo(u)' = Machines!MessagesTo(u)
           /\ Machines!MessagesOf(u)' = Machines!MessagesOf(u)
           /\ Machines!Said(u)' = Machines!Said(u)
<1>1. Machines!MessagesTo(u)' = Machines!MessagesTo(u)
  BY DEF Machines!MessagesTo
<1>2. Machines!MessagesOf(u)' = Machines!MessagesOf(u)
  BY <1>1 DEF Machines!MessagesOf
<1> QED BY <1>1, <1>2 DEF Machines!Said

LEMMA PutEffect ==
    ASSUME NEW u \in Users, NEW entry, Machines!Put(u, entry)
    PROVE  /\ DOMAIN byUserId' = DOMAIN byUserId \cup {u}
           /\ byUserId' = [v \in DOMAIN byUserId' |-> byUserId'[v]]
           /\ byUserId'[u] = entry
           /\ \A v \in DOMAIN byUserId : v # u => byUserId'[v] = byUserId[v]
           /\ Machines!Info(u)' = entry
           /\ \A v \in Users : v # u => Machines!Info(v)' = Machines!Info(v)
  BY DEF Machines!Put, Machines!Info

LEMMA SaidTyped ==
    ASSUME MachineTypes, NEW u \in Users
    PROVE  /\ Machines!Said(u) \in Infos
           /\ Machines!Said(u).toDevice = Machines!MessagesOf(u)
           /\ Machines!Said(u) = [toDevice |-> Machines!MessagesOf(u),
                                  counts |-> Machines!Said(u).counts,
                                  fallbacks |-> Machines!Said(u).fallbacks]
<1>1. Len(machineTxn.edus) \in Nat
  BY DEF MachineTypes
<1>2. Machines!MessagesOf(u) \in Seq(Nat)
  BY <1>1, MessagesGrow DEF Machines!MessagesOf
<1> QED BY <1>2 DEF Machines!Said, Infos

\* Gathering hands nothing to a machine.
LEMMA HeardStays ==
    ASSUME MachineInv, machineTxn' = machineTxn, heard' = heard, failures' = failures,
           loop \notin {"update", "events"}, loop' # "events",
           loop' = "update" => left' = DOMAIN byUserId'
    PROVE  HeardInv'
<1> SUFFICES ASSUME NEW u \in Users
             PROVE  /\ \A i \in DOMAIN heard'[u] :
                           heard'[u][i] = [info |-> Machines!Said(u)', lists |-> machineTxn'.lists]
                    /\ heard'[u] # <<>> => Machines!Said(u)' # Machines!NoInfo
                    /\ Len(heard'[u]) <= failures'
                    /\ loop' = "update" => left' \subseteq DOMAIN byUserId'
  <2>1. \A u \in Users : Len(heard'[u]) <= failures' =>
            Len(heard'[u]) <= failures' +
                (IF (loop' = "update" /\ u \notin left') \/ loop' = "events" THEN 1 ELSE 0)
    BY DEF MachineInv, MachineTypes
  <2> QED BY <2>1 DEF HeardInv, Machines!NoInfo
<1>1. Machines!Said(u)' = Machines!Said(u)
  BY SaidStays
<1>2. Len(heard[u]) <= failures
  BY DEF MachineInv, MachineTypes, HeardInv
<1> QED BY <1>1, <1>2 DEF MachineInv, HeardInv, Machines!NoInfo

\* A to-device message is added to what was gathered for a machine.
LEMMA InfoGrows ==
    ASSUME NEW messages, NEW n,
           NEW kept, kept = [toDevice |-> messages, counts |-> Nothing, fallbacks |-> Nothing]
    PROVE  [kept EXCEPT !.toDevice = Append(@, n)] =
               [toDevice |-> Append(messages, n), counts |-> Nothing, fallbacks |-> Nothing]
OBVIOUS

LEMMA TakeEduKeeps ==
    ASSUME MachineInv, Machines!TakeEdu
    PROVE  MachineInv'
<1> DEFINE next == machineTxn.edus[edu + 1]
<1>1. /\ loop = "edus" /\ edu < Len(machineTxn.edus) /\ edu' = edu + 1 /\ loop' = "edus" /\ left' = {}
      /\ UNCHANGED <<machineTxn, left, heard, failures>>
  BY DEF Machines!TakeEdu, MachineInv, GatherInv
<1>2. /\ Len(machineTxn.edus) \in Nat /\ edu \in 0..Len(machineTxn.edus)
      /\ edu + 1 \in 1..Len(machineTxn.edus) /\ edu' \in 0..Len(machineTxn.edus) /\ (edu + 1) - 1 = edu
      /\ edu + 1 \in Nat
  BY <1>1 DEF MachineInv, MachineTypes
<1>3. next.to \in Users /\ next.crypto \in BOOLEAN
  <2> DEFINE Edus == [to : Users, crypto : BOOLEAN]
  <2>1. machineTxn.edus \in Seq(Edus)
    BY DEF MachineInv, MachineTypes
  <2>2. next \in Edus
    <3> HIDE DEF Edus
    <3> QED BY <1>2, <2>1, ElementOfSeq
  <2> QED BY <2>2
<1>4. /\ \A u \in Users : Machines!MessagesTo(u)[edu + 1] =
             IF next.to = u /\ next.crypto THEN Append(Machines!MessagesTo(u)[edu], edu + 1)
             ELSE Machines!MessagesTo(u)[edu]
      /\ \A u \in Users : Machines!MessagesTo(u)[edu] \in Seq(Nat)
  <2> SUFFICES ASSUME NEW u \in Users
               PROVE  /\ Machines!MessagesTo(u)[edu + 1] =
                            IF next.to = u /\ next.crypto THEN Append(Machines!MessagesTo(u)[edu], edu + 1)
                            ELSE Machines!MessagesTo(u)[edu]
                      /\ Machines!MessagesTo(u)[edu] \in Seq(Nat)
    OBVIOUS
  <2>1. PICK f : f = Machines!MessagesTo(u)
    OBVIOUS
  <2>2. /\ \A n \in 1..Len(machineTxn.edus) :
               f[n] = IF machineTxn.edus[n].to = u /\ machineTxn.edus[n].crypto
                      THEN Append(f[n - 1], n) ELSE f[n - 1]
        /\ \A n \in 0..Len(machineTxn.edus) : f[n] \in Seq(Nat)
    BY <1>2, <2>1, MessagesGrow
  <2>3. f[edu + 1] = IF next.to = u /\ next.crypto
                     THEN Append(f[(edu + 1) - 1], edu + 1) ELSE f[(edu + 1) - 1]
    BY <1>2, <2>2
  <2> QED BY <1>2, <2>1, <2>2, <2>3
<1>5. \A u \in Users : Machines!MessagesTo(u)' = Machines!MessagesTo(u)
  BY <1>1, SaidStays
<1>6. \A u \in Users : Machines!Info(u) = [toDevice |-> Machines!MessagesTo(u)[edu],
                                           counts |-> Nothing, fallbacks |-> Nothing]
  BY <1>1 DEF MachineInv, GatherInv, Gathered
<1>7. \A u \in Users : Gathered(u)' = [toDevice |-> Machines!MessagesTo(u)[edu + 1],
                                       counts |-> Nothing, fallbacks |-> Nothing]
  BY <1>1, <1>5 DEF Gathered
<1>8. CASE next.crypto
  <2>1. PICK w \in Users : w = next.to
    BY <1>3
  <2> DEFINE longer == [Machines!Info(w) EXCEPT !.toDevice = Append(@, edu + 1)]
  <2>2. PICK entry : entry = longer
    OBVIOUS
  <2>3. enabled' = enabled \cup {w} /\ Machines!Put(w, entry)
    BY <1>8, <2>1, <2>2 DEF Machines!TakeEdu
  <2>8. entry = [toDevice |-> Append(Machines!MessagesTo(w)[edu], edu + 1),
                 counts |-> Nothing, fallbacks |-> Nothing]
    <3>1. Machines!Info(w) = [toDevice |-> Machines!MessagesTo(w)[edu],
                              counts |-> Nothing, fallbacks |-> Nothing]
      BY <1>6
    <3>2. longer = [toDevice |-> Append(Machines!MessagesTo(w)[edu], edu + 1),
                    counts |-> Nothing, fallbacks |-> Nothing]
      <4>1. PICK kept, messages : kept = Machines!Info(w) /\ messages = Machines!MessagesTo(w)[edu]
        OBVIOUS
      <4>2. [kept EXCEPT !.toDevice = Append(@, edu + 1)] =
                [toDevice |-> Append(messages, edu + 1), counts |-> Nothing, fallbacks |-> Nothing]
        <5>1. kept = [toDevice |-> messages, counts |-> Nothing, fallbacks |-> Nothing]
          BY <3>1, <4>1
        <5> QED BY <5>1, InfoGrows
      <4> QED BY <4>1, <4>2
    <3> QED BY <2>2, <3>2
  <2>9. entry # Machines!NoInfo
    <3>1. Machines!MessagesTo(w)[edu] \in Seq(Nat) /\ edu + 1 \in Nat
      BY <1>2, <1>4
    <3>2. Append(Machines!MessagesTo(w)[edu], edu + 1) # <<>>
      BY <3>1, AppendProperties
    <3> QED BY <2>8, <3>2 DEF Machines!NoInfo
  <2>10. /\ Machines!MessagesTo(w)[edu + 1] = Append(Machines!MessagesTo(w)[edu], edu + 1)
         /\ \A u \in Users : u # w =>
                Machines!MessagesTo(u)[edu + 1] = Machines!MessagesTo(u)[edu]
    BY <1>4, <1>8, <2>1
  <2>4. /\ DOMAIN byUserId' = DOMAIN byUserId \cup {w}
        /\ byUserId' = [v \in DOMAIN byUserId' |-> byUserId'[v]]
        /\ byUserId'[w] = entry
        /\ \A v \in DOMAIN byUserId : v # w => byUserId'[v] = byUserId[v]
        /\ Machines!Info(w)' = entry
        /\ \A v \in Users : v # w => Machines!Info(v)' = Machines!Info(v)
    BY <2>3, PutEffect
  <2>5. \A u \in Users : Machines!Info(u)' = Gathered(u)'
    BY <1>6, <1>7, <2>4, <2>8, <2>10
  <2>6. MachineTypes'
    BY <1>1, <1>2, <2>3, <2>4 DEF MachineInv, MachineTypes
  <2>7. GatherInv'
    BY <1>1, <2>4, <2>5, <2>9 DEF MachineInv, GatherInv, Machines!NoInfo
  <2> QED BY <1>1, <2>6, <2>7, HeardStays DEF MachineInv
<1>9. CASE ~next.crypto
  <2>1. UNCHANGED <<enabled, byUserId>>
    BY <1>9 DEF Machines!TakeEdu
  <2>2. \A u \in Users : Machines!Info(u)' = Machines!Info(u)
    BY <2>1 DEF Machines!Info, Machines!NoInfo
  <2>3. \A u \in Users : Machines!Info(u)' = Gathered(u)'
    BY <1>4, <1>6, <1>7, <1>9, <2>2
  <2>4. MachineTypes'
    BY <1>1, <1>2, <2>1 DEF MachineInv, MachineTypes
  <2>5. GatherInv'
    BY <1>1, <2>1, <2>3 DEF MachineInv, GatherInv, Machines!NoInfo
  <2> QED BY <1>1, <2>4, <2>5, HeardStays DEF MachineInv
<1> QED BY <1>8, <1>9

\* Counts, or unused fallback keys, of a user.
LEMMA TakesKeep ==
    ASSUME MachineInv, NEW w \in Users,
           Machines!TakeCounts(w) \/ Machines!TakeFallbacks(w)
    PROVE  MachineInv'
<1>1. /\ loop \in {"counts", "fallbacks"} /\ loop' = loop /\ w \in left /\ left' = left \ {w}
      /\ enabled' = enabled \cup {w}
      /\ UNCHANGED <<machineTxn, edu, heard, failures>>
  BY DEF Machines!TakeCounts, Machines!TakeFallbacks
<1>2. \A u \in Users : /\ Machines!MessagesTo(u)' = Machines!MessagesTo(u)
                       /\ Machines!MessagesOf(u)' = Machines!MessagesOf(u)
                       /\ Machines!Said(u)' = Machines!Said(u)
  BY <1>1, SaidStays
<1>3. \A u \in Users : u # w => Gathered(u)' = Gathered(u)
  BY <1>1, <1>2 DEF Gathered
<1>4. Machines!Info(w) = Gathered(w)
  BY DEF MachineInv, GatherInv
<1>5. HeardInv'
  BY <1>1, HeardStays
<1>6. ASSUME NEW entry, Machines!Put(w, entry), entry = Gathered(w)', entry # Machines!NoInfo
      PROVE  MachineTypes' /\ GatherInv'
  <2>1. /\ DOMAIN byUserId' = DOMAIN byUserId \cup {w}
        /\ byUserId' = [v \in DOMAIN byUserId' |-> byUserId'[v]]
        /\ byUserId'[w] = entry
        /\ \A v \in DOMAIN byUserId : v # w => byUserId'[v] = byUserId[v]
        /\ Machines!Info(w)' = entry
        /\ \A v \in Users : v # w => Machines!Info(v)' = Machines!Info(v)
    BY <1>6, PutEffect
  <2>2. MachineTypes'
    BY <1>1, <2>1 DEF MachineInv, MachineTypes
  <2>3. GatherInv'
    BY <1>1, <1>3, <1>6, <2>1 DEF MachineInv, GatherInv, Machines!NoInfo
  <2> QED BY <2>2, <2>3
<1>7. ASSUME UNCHANGED byUserId, Gathered(w)' = Gathered(w)
      PROVE  MachineTypes' /\ GatherInv'
  <2>1. \A u \in Users : Machines!Info(u)' = Machines!Info(u)
    BY <1>7 DEF Machines!Info, Machines!NoInfo
  <2>2. MachineTypes'
    BY <1>1, <1>7 DEF MachineInv, MachineTypes
  <2>3. GatherInv'
    BY <1>1, <1>3, <1>7, <2>1 DEF MachineInv, GatherInv, Machines!NoInfo
  <2> QED BY <2>2, <2>3
<1>8. CASE Machines!TakeCounts(w)
  <2>1. /\ loop = "counts"
        /\ Gathered(w) = [toDevice |-> Machines!MessagesOf(w), counts |-> Nothing,
                          fallbacks |-> Nothing]
        /\ Gathered(w)' = [toDevice |-> Machines!MessagesOf(w),
                           counts |-> Machines!Said(w).counts, fallbacks |-> Nothing]
    BY <1>1, <1>2, <1>8 DEF Machines!TakeCounts, Gathered
  <2>2. CASE machineTxn.counts[w] = "counts"
    <3> DEFINE entry == [Machines!Info(w) EXCEPT !.counts = "counts"]
    <3>1. Machines!Put(w, entry)
      BY <1>8, <2>2 DEF Machines!TakeCounts
    <3>2. Machines!Said(w).counts = "counts"
      BY <2>2 DEF Machines!Said
    <3>3. entry = [toDevice |-> Machines!MessagesOf(w), counts |-> "counts", fallbacks |-> Nothing]
      BY <1>4, <2>1
    <3> HIDE DEF entry
    <3>4. entry = Gathered(w)' /\ entry # Machines!NoInfo
      BY <2>1, <3>2, <3>3, AppserviceAssumption DEF Machines!NoInfo
    <3> QED BY <1>5, <1>6, <3>1, <3>4 DEF MachineInv
  <2>3. CASE machineTxn.counts[w] # "counts"
    <3>1. UNCHANGED byUserId
      BY <1>8, <2>3 DEF Machines!TakeCounts
    <3>2. Machines!Said(w).counts = Nothing
      BY <2>3 DEF Machines!Said
    <3> QED BY <1>5, <1>7, <2>1, <3>1, <3>2 DEF MachineInv
  <2> QED BY <2>2, <2>3
<1>9. CASE Machines!TakeFallbacks(w)
  <2>1. /\ loop = "fallbacks"
        /\ Gathered(w) = [toDevice |-> Machines!MessagesOf(w),
                          counts |-> Machines!Said(w).counts, fallbacks |-> Nothing]
        /\ Gathered(w)' = [toDevice |-> Machines!MessagesOf(w),
                           counts |-> Machines!Said(w).counts,
                           fallbacks |-> Machines!Said(w).fallbacks]
    BY <1>1, <1>2, <1>9 DEF Machines!TakeFallbacks, Gathered
  <2>2. CASE machineTxn.fallbacks[w] = "without"
    <3> DEFINE entry == [Machines!Info(w) EXCEPT !.fallbacks = "without"]
    <3>1. Machines!Put(w, entry)
      BY <1>9, <2>2 DEF Machines!TakeFallbacks
    <3>2. Machines!Said(w).fallbacks = "without"
      BY <2>2 DEF Machines!Said
    <3>3. entry = [toDevice |-> Machines!MessagesOf(w), counts |-> Machines!Said(w).counts,
                   fallbacks |-> "without"]
      BY <1>4, <2>1
    <3> HIDE DEF entry
    <3>4. entry = Gathered(w)' /\ entry # Machines!NoInfo
      BY <2>1, <3>2, <3>3, AppserviceAssumption DEF Machines!NoInfo
    <3> QED BY <1>5, <1>6, <3>1, <3>4 DEF MachineInv
  <2>3. CASE machineTxn.fallbacks[w] # "without"
    <3>1. UNCHANGED byUserId
      BY <1>9, <2>3 DEF Machines!TakeFallbacks
    <3>2. Machines!Said(w).fallbacks = Nothing
      BY <2>3 DEF Machines!Said
    <3> QED BY <1>5, <1>7, <2>1, <3>1, <3>2 DEF MachineInv
  <2> QED BY <2>2, <2>3
<1> QED BY <1>8, <1>9

\* A loop is through.
LEMMA EndsKeep ==
    ASSUME MachineInv,
           Machines!EdusEnd \/ Machines!CountsEnd \/ Machines!FallbacksEnd \/ Machines!UpdatesEnd
    PROVE  MachineInv'
<1>1. UNCHANGED <<machineTxn, edu, byUserId, enabled, heard, failures>>
  BY DEF Machines!EdusEnd, Machines!CountsEnd, Machines!FallbacksEnd, Machines!UpdatesEnd
<1>2. \A u \in Users : /\ Machines!MessagesTo(u)' = Machines!MessagesTo(u)
                       /\ Machines!MessagesOf(u)' = Machines!MessagesOf(u)
                       /\ Machines!Said(u)' = Machines!Said(u)
                       /\ Machines!Info(u)' = Machines!Info(u)
  BY <1>1, SaidStays DEF Machines!Info, Machines!NoInfo
<1>3. \A u \in Users : Machines!Info(u) = Gathered(u)
  BY DEF MachineInv, GatherInv
<1>4. ASSUME \A u \in Users : Gathered(u)' = Gathered(u), loop' # "edus",
             loop' \in {"counts", "fallbacks", "update", "events"}, left' \subseteq Users
      PROVE  MachineTypes' /\ GatherInv'
  <2>1. MachineTypes'
    BY <1>1, <1>4 DEF MachineInv, MachineTypes
  <2>2. GatherInv'
    BY <1>1, <1>2, <1>3, <1>4 DEF MachineInv, GatherInv, Machines!NoInfo
  <2> QED BY <2>1, <2>2
<1>5. CASE Machines!EdusEnd
  <2>1. /\ loop = "edus" /\ edu = Len(machineTxn.edus) /\ loop' = "counts"
        /\ left' = {u \in Users : machineTxn.counts[u] # Nothing}
    BY <1>5 DEF Machines!EdusEnd, Machines!Enter, Machines!Keys
  <2>2. ASSUME NEW u \in Users PROVE Gathered(u)' = Gathered(u)
    <3>1. Machines!MessagesTo(u)[edu] = Machines!MessagesOf(u)
      BY <2>1 DEF Machines!MessagesOf
    <3>2. u \notin left' => Machines!Said(u).counts = Nothing
      BY <2>1 DEF Machines!Said
    <3> QED BY <1>2, <2>1, <3>1, <3>2 DEF Gathered
  <2>3. HeardInv'
    BY <1>1, <2>1, HeardStays
  <2> QED BY <1>4, <2>1, <2>2, <2>3 DEF MachineInv
<1>6. CASE Machines!CountsEnd
  <2>1. /\ loop = "counts" /\ left = {} /\ loop' = "fallbacks"
        /\ left' = {u \in Users : machineTxn.fallbacks[u] # Nothing}
    BY <1>6 DEF Machines!CountsEnd, Machines!Enter, Machines!Keys
  <2>2. ASSUME NEW u \in Users PROVE Gathered(u)' = Gathered(u)
    <3>1. u \notin left' => Machines!Said(u).fallbacks = Nothing
      BY <2>1 DEF Machines!Said
    <3> QED BY <1>2, <2>1, <3>1 DEF Gathered
  <2>3. HeardInv'
    BY <1>1, <2>1, HeardStays
  <2> QED BY <1>4, <2>1, <2>2, <2>3 DEF MachineInv
<1>7. CASE Machines!FallbacksEnd
  <2>1. /\ loop = "fallbacks" /\ left = {} /\ loop' = "update" /\ left' = DOMAIN byUserId
    BY <1>7 DEF Machines!FallbacksEnd, Machines!Enter
  <2>2. ASSUME NEW u \in Users PROVE Gathered(u)' = Gathered(u)
    BY <1>2, <2>1 DEF Gathered
  <2>3. HeardInv'
    BY <1>1, <2>1, HeardStays
  <2>4. DOMAIN byUserId \subseteq Users
    BY DEF MachineInv, MachineTypes
  <2> QED BY <1>4, <2>1, <2>2, <2>3, <2>4 DEF MachineInv
<1>8. CASE Machines!UpdatesEnd
  <2>1. loop = "update" /\ left = {} /\ loop' = "events" /\ left' = left
    BY <1>8 DEF Machines!UpdatesEnd
  <2>2. ASSUME NEW u \in Users PROVE Gathered(u)' = Gathered(u)
    BY <1>2, <2>1 DEF Gathered
  <2>3. HeardInv'
    <3>1. \A u \in Users : Len(heard[u]) <= failures + 1
      BY <2>1 DEF MachineInv, HeardInv
    <3> QED BY <1>1, <1>2, <2>1, <3>1 DEF MachineInv, HeardInv, Machines!NoInfo
  <2> QED BY <1>4, <2>1, <2>2, <2>3 DEF MachineInv
<1> QED BY <1>5, <1>6, <1>7, <1>8

LEMMA UpdateKeeps ==
    ASSUME MachineInv, NEW w \in Users, Machines!UpdateSyncData(w)
    PROVE  MachineInv'
<1>1. PICK handed : handed = [info |-> byUserId[w], lists |-> machineTxn.lists]
  OBVIOUS
<1>2. /\ loop = "update" /\ loop' = "update" /\ w \in left /\ left' = left \ {w}
      /\ heard' = [heard EXCEPT ![w] = Append(@, handed)]
      /\ UNCHANGED <<machineTxn, edu, byUserId, enabled, failures>>
  BY <1>1 DEF Machines!UpdateSyncData
<1>3. \A u \in Users : /\ Machines!MessagesTo(u)' = Machines!MessagesTo(u)
                       /\ Machines!MessagesOf(u)' = Machines!MessagesOf(u)
                       /\ Machines!Said(u)' = Machines!Said(u)
                       /\ Machines!Info(u)' = Machines!Info(u)
  BY <1>2, SaidStays DEF Machines!Info, Machines!NoInfo
<1>4. Machines!Said(w) \in Infos /\ byUserId[w] = Machines!Said(w)
      /\ Machines!Said(w) # Machines!NoInfo
  <2>1. w \in DOMAIN byUserId
    BY <1>2 DEF MachineInv, HeardInv
  <2>2. Machines!Info(w) = byUserId[w] /\ Machines!Info(w) = Gathered(w)
    BY <2>1 DEF Machines!Info, MachineInv, GatherInv
  <2>3. Gathered(w) = [toDevice |-> Machines!MessagesOf(w), counts |-> Machines!Said(w).counts,
                       fallbacks |-> Machines!Said(w).fallbacks]
    BY <1>2 DEF Gathered
  <2>4. byUserId[w] = Machines!Said(w) /\ Machines!Said(w) \in Infos
    BY <2>2, <2>3, SaidTyped DEF MachineInv
  <2> QED BY <2>1, <2>4 DEF MachineInv, GatherInv
<1>5. handed = [info |-> Machines!Said(w), lists |-> machineTxn.lists]
  BY <1>1, <1>4
<1> DEFINE Heards == [info : Infos, lists : {machineTxn.lists}]
<1>6. handed \in Heards /\ heard \in [Users -> Seq(Heards)]
  BY <1>4, <1>5 DEF MachineInv, MachineTypes
<1> HIDE DEF Heards
<1>7. /\ heard' \in [Users -> Seq(Heards)]
      /\ heard'[w] = Append(heard[w], handed)
      /\ \A u \in Users : u # w => heard'[u] = heard[u]
  <2>1. heard[w] \in Seq(Heards) /\ Append(heard[w], handed) \in Seq(Heards)
    BY <1>6, AppendProperties
  <2> QED BY <1>2, <1>6, <2>1
<1>8. /\ Len(heard[w]) \in Nat /\ Len(heard'[w]) = Len(heard[w]) + 1 /\ heard'[w] # <<>>
      /\ DOMAIN heard[w] = 1..Len(heard[w]) /\ DOMAIN heard'[w] = 1..(Len(heard[w]) + 1)
      /\ heard'[w][Len(heard[w]) + 1] = handed
      /\ \A i \in 1..Len(heard[w]) : heard'[w][i] = heard[w][i]
  BY <1>6, <1>7, AppendProperties
<1>9. MachineTypes'
  BY <1>2, <1>7 DEF MachineInv, MachineTypes, Heards
<1>10. GatherInv'
  <2>1. \A u \in Users : Gathered(u)' = Gathered(u)
    BY <1>2, <1>3 DEF Gathered
  <2> QED BY <1>2, <1>3, <2>1 DEF MachineInv, GatherInv, Machines!NoInfo
<1>11. HeardInv'
  <2>1. left' \subseteq DOMAIN byUserId'
    BY <1>2 DEF MachineInv, HeardInv
  <2>2. ASSUME NEW u \in Users
        PROVE  /\ \A i \in DOMAIN heard'[u] :
                      heard'[u][i] = [info |-> Machines!Said(u), lists |-> machineTxn.lists]
               /\ heard'[u] # <<>> => Machines!Said(u) # Machines!NoInfo
               /\ u \in DOMAIN byUserId /\ u \notin left' => heard'[u] # <<>>
               /\ Len(heard'[u]) <= failures + (IF u \notin left' THEN 1 ELSE 0)
    <3>1. CASE u = w
      <4>1. \A i \in 1..Len(heard[w]) :
                heard[w][i] = [info |-> Machines!Said(w), lists |-> machineTxn.lists]
        BY <1>8 DEF MachineInv, HeardInv
      <4>2. \A i \in 1..(Len(heard[w]) + 1) : i \in 1..Len(heard[w]) \/ i = Len(heard[w]) + 1
        BY <1>8
      <4>3. Len(heard[w]) <= failures /\ failures \in Nat
        BY <1>2 DEF MachineInv, MachineTypes, HeardInv
      <4>4. Len(heard'[w]) <= failures + 1
        BY <1>8, <4>3
      <4>5. \A i \in DOMAIN heard'[w] :
                heard'[w][i] = [info |-> Machines!Said(w), lists |-> machineTxn.lists]
        BY <1>5, <1>8, <4>1, <4>2
      <4> QED BY <1>2, <1>4, <1>8, <3>1, <4>4, <4>5
    <3>2. CASE u # w
      BY <1>2, <1>7, <3>2 DEF MachineInv, HeardInv
    <3> QED BY <3>1, <3>2
  <2> QED BY <1>2, <1>3, <2>1, <2>2 DEF HeardInv, Machines!NoInfo
<1> QED BY <1>9, <1>10, <1>11 DEF MachineInv

\* The transaction comes again.
LEMMA AgainKeeps ==
    ASSUME MachineInv, Machines!Fail
    PROVE  MachineInv'
<1>1. /\ loop # "events" /\ loop' = "edus" /\ edu' = 0 /\ left' = {} /\ enabled' = {}
      /\ byUserId' = [u \in {} |-> Machines!NoInfo] /\ failures' = failures + 1
      /\ machineTxn' = machineTxn /\ heard' = heard
  BY DEF Machines!Fail
<1>2. \A u \in Users : /\ Machines!MessagesTo(u)' = Machines!MessagesTo(u)
                       /\ Machines!MessagesOf(u)' = Machines!MessagesOf(u)
                       /\ Machines!Said(u)' = Machines!Said(u)
                       /\ Machines!MessagesTo(u)[0] = <<>>
  BY <1>1, SaidStays, MessagesGrow DEF MachineInv, MachineTypes
<1>3. MachineTypes'
  <2>1. DOMAIN byUserId' = {} /\ byUserId' = [u \in DOMAIN byUserId' |-> byUserId'[u]]
    BY <1>1
  <2>2. 0 \in 0..Len(machineTxn.edus) /\ failures + 1 \in Nat
    BY DEF MachineInv, MachineTypes
  <2> QED BY <1>1, <2>1, <2>2 DEF MachineInv, MachineTypes
<1>4. GatherInv'
  BY <1>1, <1>2 DEF GatherInv, Gathered, Machines!Info, Machines!NoInfo
<1>5. HeardInv'
  <2>1. \A u \in Users : Len(heard[u]) <= failures + 1 /\ Len(heard[u]) \in Nat
    BY DEF MachineInv, MachineTypes, HeardInv
  <2>2. failures \in Nat
    BY DEF MachineInv, MachineTypes
  <2> QED BY <1>1, <1>2, <2>1, <2>2 DEF MachineInv, HeardInv, Machines!NoInfo
<1> QED BY <1>3, <1>4, <1>5 DEF MachineInv

LEMMA MachinesKeep ==
    ASSUME MachineInv, Machines!Next \/ UNCHANGED machineVars
    PROVE  MachineInv'
<1>1. CASE UNCHANGED machineVars
  <2>1. UNCHANGED <<machineTxn, loop, edu, left, byUserId, enabled, heard, failures>>
    BY <1>1 DEF machineVars
  <2>2. \A u \in Users : /\ Machines!MessagesTo(u)' = Machines!MessagesTo(u)
                         /\ Machines!MessagesOf(u)' = Machines!MessagesOf(u)
                         /\ Machines!Said(u)' = Machines!Said(u)
                         /\ Machines!Info(u)' = Machines!Info(u)
    BY <2>1, SaidStays DEF Machines!Info, Machines!NoInfo
  <2>3. \A u \in Users : Gathered(u)' = Gathered(u)
    BY <2>1, <2>2 DEF Gathered
  <2>4. MachineTypes'
    BY <2>1 DEF MachineInv, MachineTypes
  <2>5. GatherInv'
    BY <2>1, <2>2, <2>3 DEF MachineInv, GatherInv, Machines!NoInfo
  <2>6. HeardInv'
    BY <2>1, <2>2 DEF MachineInv, HeardInv, Machines!NoInfo
  <2> QED BY <2>4, <2>5, <2>6 DEF MachineInv
<1>2. CASE Machines!Next
  BY <1>2, TakeEduKeeps, TakesKeep, EndsKeep, UpdateKeeps, AgainKeeps DEF Machines!Next
<1> QED BY <1>1, <1>2

LEMMA MachineTells ==
    ASSUME MachineInv
    PROVE  Machines!MachinesHear
<1> SUFFICES ASSUME NEW u \in Users
             PROVE  /\ \A i \in DOMAIN heard[u] :
                           heard[u][i] = [info |-> Machines!Said(u), lists |-> machineTxn.lists]
                    /\ loop = "events" => (heard[u] # <<>> <=> Machines!Said(u) # Machines!NoInfo)
                    /\ Len(heard[u]) <= 1 + failures
                    /\ loop = "update" => DOMAIN byUserId \subseteq enabled
  BY DEF Machines!MachinesHear
<1>1. Len(heard[u]) \in Nat /\ failures \in Nat
  BY DEF MachineInv, MachineTypes
<1>2. Len(heard[u]) <= 1 + failures
  <2>1. Len(heard[u]) <= failures + 1 \/ Len(heard[u]) <= failures + 0
    BY DEF MachineInv, HeardInv
  <2> QED BY <1>1, <2>1
<1>3. ASSUME loop = "events", Machines!Said(u) # Machines!NoInfo PROVE heard[u] # <<>>
  <2>1. Gathered(u) = Machines!Said(u)
    BY <1>3, SaidTyped DEF Gathered, MachineInv
  <2>2. Machines!Info(u) # Machines!NoInfo
    BY <1>3, <2>1 DEF MachineInv, GatherInv
  <2>3. u \in DOMAIN byUserId
    BY <2>2 DEF Machines!Info
  <2> QED BY <1>3, <2>3 DEF MachineInv, HeardInv
<1> QED BY <1>2, <1>3 DEF MachineInv, MachineTypes, HeardInv

\* For all users, devices, transactions, failures and numbers of them: an Intent
\* that is ready has the keys of the device its requests are made as, as long as
\* nothing happened that separates them; and the machines of an appservice hear
\* all that a transaction says to them at once, in order, once per attempt, and
\* nothing else.
THEOREM DevicesAgree == PartsSpec => []DeviceAgrees
<1> DEFINE Inv == /\ part = "crypto" => CryptoInv
                  /\ part = "machines" => MachineInv
<1>1. PartsInit => Inv
  BY CryptoStarts, MachineStarts DEF PartsInit, MachinesInit
<1>2. Inv /\ [PartsNext]_partsVars => Inv'
  <2> SUFFICES ASSUME Inv, [PartsNext]_partsVars PROVE Inv'
    OBVIOUS
  <2>1. part' = part
    BY PartSteps
  <2>2. ASSUME part = "crypto" PROVE CryptoInv'
    <3>1. CASE Crypto!Next
      BY <2>2, <3>1, CryptoHeld
    <3>2. CASE UNCHANGED cryptoVars
      <4>1. UNCHANGED <<devices, keyed, supports, storedToken, storedDevice, setup, deviceId,
                        ownDevices, acting, loaded, machine, upsets>>
        BY <3>2 DEF cryptoVars
      <4> QED BY <2>2, <4>1 DEF CryptoInv, CryptoTypes, AloneInv, DiskInv, WayInv, Crypto!Running
    <3> QED BY <2>2, <3>1, <3>2, PartSteps
  <2>3. ASSUME part = "machines" PROVE MachineInv'
    BY <2>3, MachinesKeep, PartSteps
  <2> QED BY <2>1, <2>2, <2>3
<1>3. Inv => DeviceAgrees
  <2>1. CryptoInv => Crypto!DeviceAgrees
    BY DEF CryptoInv, WayInv, Crypto!DeviceAgrees, Crypto!At
  <2> QED BY <2>1, MachineTells DEF DeviceAgrees
<1> QED BY <1>1, <1>2, <1>3, PTL DEF PartsSpec
-----------------------------------------------------------------------------
(* Intents                                                                  *)

Places == {"idle", "done", "registered", "register", "record", "check", "refresh", "apply",
           "join", "leave", "push", "send"}
Callings == [pc : Places, op : Intents!Ops \cup {"member"}, room : Rooms \cup {Nothing},
             slot : Slots \cup {Nothing}, answer : SUBSET Rooms, at : Nat, calm : BOOLEAN]

IntentTypes ==
    /\ call \in [Intents!All -> Callings]
    /\ knownJoinedRooms \in [Slots -> SUBSET Rooms] /\ member \subseteq Rooms
    /\ due \in [Slots -> Nat] /\ astray \in [Slots -> BOOLEAN]
    /\ version \in Nat /\ unheard \in Nat
    /\ intent \in Slots \cup {Nothing} /\ used \subseteq Slots

\* Which Intents calls have, and what the handler of membership events does.
CallInv ==
    /\ \A c \in Intents!All :
        /\ call[c].pc \in {"idle", "done"} => call[c].slot = Nothing /\ ~call[c].calm
        /\ call[c].pc \notin {"idle", "done"} => call[c].slot \in used
        /\ call[c].pc \in {"check", "join", "leave", "push", "send"} => call[c].room \in Rooms
    /\ call[Handler].pc \in {"idle", "refresh", "apply"} /\ call[Handler].op = "member"
    /\ \A c \in Calls : call[c].pc \notin {"idle", "done"} =>
           call[c].op \in Intents!Ops /\ call[c].room \in Rooms

\* Whoever is past ensureRegistered is registered and on record.
RecordInv ==
    /\ recorded => registered
    /\ \A c \in Calls :
        /\ call[c].pc = "record" => registered
        /\ call[c].pc \notin {"idle", "done", "registered", "register", "record"} => recorded

\* As long as a call is calm, what its Intent believes is true, and it sends from
\* inside.
CalmInv ==
    \A c \in Intents!All : call[c].calm =>
        /\ Intents!Calm(call[c].slot)
        /\ call[c].pc = "send" => call[c].room \in member

\* Nothing is known of a version to come, and what is known of the present one is
\* true.
VersionInv ==
    /\ \A s \in Slots :
        /\ due[s] <= version
        /\ ~astray[s] /\ due[s] = version => knownJoinedRooms[s] = member
        /\ s \notin used => astray[s]
    /\ \A c \in Intents!All :
        /\ call[c].pc \in {"apply", "push"} => call[c].at <= version
        /\ call[c].pc = "apply" /\ call[c].at = version => call[c].answer = member
        /\ call[c].pc = "push" /\ call[c].at = version => call[c].room \in member

\* The Intent of the LRU, against the changes that transactions have brought: it
\* knows of them, or is about to, or it never read its rooms and whatever answer
\* it gets knows of them.
BroughtInv ==
    /\ intent # Nothing => intent \in used
    /\ call[Handler].pc = "apply" => call[Handler].at + unheard >= version
    /\ \A s \in Slots : s = intent =>
        \/ due[s] + unheard >= version
        \/ call[Handler].pc \in {"refresh", "apply"} /\ call[Handler].slot = s
        \/ /\ astray[s]
           /\ \A c \in Intents!All : call[c].pc = "apply" /\ call[c].slot = s =>
                  call[c].at + unheard >= version

IntentInv == IntentTypes /\ CallInv /\ RecordInv /\ CalmInv /\ VersionInv /\ BroughtInv

LEMMA IntentStarts == Intents!Init => IntentInv
<1> SUFFICES ASSUME Intents!Init PROVE IntentInv
  OBVIOUS
<1> USE DEF Intents!Init, Intents!Idle, Intents!All
<1>1. IntentTypes
  BY DEF IntentTypes, Callings, Places
<1>2. CallInv
  BY DEF CallInv
<1>3. RecordInv
  BY DEF RecordInv
<1>4. CalmInv
  BY DEF CalmInv
<1>5. VersionInv
  BY DEF VersionInv
<1>6. BroughtInv
  BY AppserviceAssumption DEF BroughtInv
<1> QED BY <1>1, <1>2, <1>3, <1>4, <1>5, <1>6 DEF IntentInv

LEMMA WalkEffect ==
    ASSUME IntentTypes, NEW c \in Intents!All, NEW label \in Places, Intents!GoTo(c, label)
    PROVE  /\ call' \in [Intents!All -> Callings]
           /\ call'[c].pc = label /\ call'[c].op = call[c].op /\ call'[c].room = call[c].room
           /\ call'[c].slot = call[c].slot /\ call'[c].answer = call[c].answer
           /\ call'[c].at = call[c].at /\ call'[c].calm = call[c].calm
           /\ \A d \in Intents!All : d # c => call'[d] = call[d]
  BY DEF IntentTypes, Callings, Intents!GoTo

LEMMA EndEffect ==
    ASSUME IntentTypes, NEW c \in Intents!All, Intents!End(c)
    PROVE  /\ call' \in [Intents!All -> Callings]
           /\ call'[c].pc = (IF c = Handler THEN "idle" ELSE "done")
           /\ call'[c].op = "member" /\ call'[c].slot = Nothing /\ ~call'[c].calm
           /\ \A d \in Intents!All : d # c => call'[d] = call[d]
  BY DEF IntentTypes, Callings, Places, Intents!End, Intents!Ended, Intents!Idle

\* A call that is calm no longer is otherwise the same.
LEMMA NoLongerCalm ==
    ASSUME NEW k \in Callings
    PROVE  LET j == [k EXCEPT !.calm = FALSE]
           IN  /\ j \in Callings /\ ~j.calm
               /\ j.pc = k.pc /\ j.op = k.op /\ j.room = k.room /\ j.slot = k.slot
               /\ j.answer = k.answer /\ j.at = k.at
BY DEF Callings

LEMMA MovesEffect ==
    ASSUME NEW calls \in [Intents!All -> Callings], NEW now, NEW gone,
           Intents!Moves(now, gone, calls)
    PROVE  /\ call' \in [Intents!All -> Callings]
           /\ \A d \in Intents!All :
                 /\ call'[d].pc = calls[d].pc /\ call'[d].op = calls[d].op
                 /\ call'[d].room = calls[d].room /\ call'[d].slot = calls[d].slot
                 /\ call'[d].answer = calls[d].answer /\ call'[d].at = calls[d].at
                 /\ call'[d].calm => calls[d].calm /\ gone = {}
           /\ member' = now /\ version' = version + 1 /\ unheard' = unheard + 1
<1>1. CASE gone = {}
  BY <1>1 DEF Callings, Intents!Moves
<1>2. CASE gone # {}
  <2>1. call' = [d \in Intents!All |-> [calls[d] EXCEPT !.calm = FALSE]]
    BY <1>2 DEF Intents!Moves
  <2>2. ASSUME NEW d \in Intents!All
        PROVE  /\ call'[d] \in Callings /\ ~call'[d].calm
               /\ call'[d].pc = calls[d].pc /\ call'[d].op = calls[d].op
               /\ call'[d].room = calls[d].room /\ call'[d].slot = calls[d].slot
               /\ call'[d].answer = calls[d].answer /\ call'[d].at = calls[d].at
    BY <2>1, NoLongerCalm
  <2>3. call' \in [Intents!All -> Callings]
    BY <2>1, <2>2
  <2> QED BY <2>2, <2>3 DEF Intents!Moves
<1> QED BY <1>1, <1>2

LEMMA BeginEffect ==
    ASSUME IntentTypes, NEW c \in Intents!All, NEW op \in Intents!Ops \cup {"member"},
           NEW room \in Rooms \cup {Nothing}, NEW s \in Slots, NEW label \in Places,
           Intents!Begin(c, op, room, s, label)
    PROVE  /\ call' \in [Intents!All -> Callings]
           /\ call'[c].pc = label /\ call'[c].op = op /\ call'[c].room = room
           /\ call'[c].slot = s /\ call'[c].calm = Intents!Calm(s)
           /\ \A d \in Intents!All : d # c => call'[d] = call[d]
<1>1. Intents!Calm(s) \in BOOLEAN
  BY DEF Intents!Calm
<1> QED BY <1>1 DEF IntentTypes, Callings, Intents!Begin, Intents!Idle

\* What a step of a call alone leaves as it is.
Same == UNCHANGED <<member, version, unheard, intent, used, knownJoinedRooms, due, astray>>

\* A call goes on, and nothing else happens.
LEMMA WalkKeeps ==
    ASSUME IntentInv, NEW c \in Calls, NEW label \in Places, Intents!GoTo(c, label), Same,
           call[c].pc \notin {"idle", "done", "apply"},
           label \notin {"idle", "done", "apply", "push"},
           label = "send" /\ call[c].calm => call[c].room \in member
    PROVE  IntentTypes' /\ CallInv' /\ CalmInv' /\ VersionInv' /\ BroughtInv'
<1> USE DEF IntentInv, Same
<1>1. c \in Intents!All /\ Handler \in Intents!All /\ c # Handler
  BY AppserviceAssumption DEF Intents!All
<1>2. /\ call' \in [Intents!All -> Callings]
      /\ call'[c].pc = label /\ call'[c].op = call[c].op /\ call'[c].room = call[c].room
      /\ call'[c].slot = call[c].slot /\ call'[c].answer = call[c].answer
      /\ call'[c].at = call[c].at /\ call'[c].calm = call[c].calm
      /\ \A d \in Intents!All : d # c => call'[d] = call[d]
  BY <1>1, WalkEffect
<1>3. IntentTypes'
  BY <1>2 DEF IntentTypes
<1>4. CallInv'
  BY <1>1, <1>2 DEF CallInv, Intents!All
<1>5. CalmInv'
  BY <1>1, <1>2 DEF CalmInv, Intents!Calm
<1>6. VersionInv'
  BY <1>1, <1>2 DEF VersionInv
<1>7. BroughtInv'
  BY <1>1, <1>2 DEF BroughtInv
<1> QED BY <1>3, <1>4, <1>5, <1>6, <1>7

\* A call of the bridge ends, and nothing else happens.
LEMMA EndKeeps ==
    ASSUME IntentInv, NEW c \in Calls, Intents!End(c), Same
    PROVE  IntentTypes' /\ CallInv' /\ CalmInv' /\ VersionInv' /\ BroughtInv'
<1> USE DEF IntentInv, Same
<1>1. c \in Intents!All /\ Handler \in Intents!All /\ c # Handler
  BY AppserviceAssumption DEF Intents!All
<1>2. /\ call' \in [Intents!All -> Callings]
      /\ call'[c].pc = "done" /\ call'[c].slot = Nothing /\ ~call'[c].calm
      /\ \A d \in Intents!All : d # c => call'[d] = call[d]
  BY <1>1, EndEffect
<1>3. IntentTypes'
  BY <1>2 DEF IntentTypes
<1>4. CallInv'
  BY <1>1, <1>2 DEF CallInv, Intents!All
<1>5. CalmInv'
  BY <1>1, <1>2 DEF CalmInv, Intents!Calm
<1>6. VersionInv'
  BY <1>1, <1>2 DEF VersionInv
<1>7. BroughtInv'
  BY <1>1, <1>2 DEF BroughtInv
<1> QED BY <1>3, <1>4, <1>5, <1>6, <1>7

\* The membership changes.
LEMMA MoveKeeps ==
    ASSUME IntentInv, NEW calls \in [Intents!All -> Callings], NEW now, NEW gone,
           Intents!Moves(now, gone, calls),
           now \subseteq Rooms, gone = {} => member \subseteq now,
           UNCHANGED <<intent, used, knownJoinedRooms, due, astray>>,
           \/ calls = call
           \/ \E c \in Calls :
                 /\ \A d \in Intents!All : d # c => calls[d] = call[d]
                 /\ call[c].pc \in {"join", "leave"}
                 /\ \/ calls[c].pc = "done" /\ calls[c].slot = Nothing /\ ~calls[c].calm
                    \/ /\ \/ calls[c].pc = "refresh"
                          \/ calls[c].pc = "push" /\ calls[c].at = version + 1 /\ calls[c].room \in now
                       /\ calls[c].op = call[c].op /\ calls[c].room = call[c].room
                       /\ calls[c].slot = call[c].slot /\ (calls[c].calm => call[c].calm)
    PROVE  IntentTypes' /\ CallInv' /\ CalmInv' /\ VersionInv' /\ BroughtInv'
<1> USE DEF IntentInv
<1>1. Handler \in Intents!All /\ Handler \notin Calls /\ Calls \subseteq Intents!All
  BY AppserviceAssumption DEF Intents!All
<1>2. /\ call' \in [Intents!All -> Callings]
      /\ \A d \in Intents!All :
            /\ call'[d].pc = calls[d].pc /\ call'[d].op = calls[d].op
            /\ call'[d].room = calls[d].room /\ call'[d].slot = calls[d].slot
            /\ call'[d].answer = calls[d].answer /\ call'[d].at = calls[d].at
            /\ call'[d].calm => calls[d].calm /\ gone = {}
      /\ member' = now /\ version' = version + 1 /\ unheard' = unheard + 1
  BY MovesEffect
<1>3. IntentTypes'
  BY <1>2 DEF IntentTypes
<1>4. calls[Handler] = call[Handler]
  BY <1>1
<1>9. \A d \in Intents!All :
          \/ calls[d] = call[d]
          \/ /\ d \in Calls /\ call[d].pc \in {"join", "leave"}
             /\ calls[d].pc = "done" /\ calls[d].slot = Nothing /\ ~calls[d].calm
          \/ /\ d \in Calls /\ call[d].pc \in {"join", "leave"} /\ calls[d].pc \in {"refresh", "push"}
             /\ calls[d].op = call[d].op /\ calls[d].room = call[d].room
             /\ calls[d].slot = call[d].slot /\ (calls[d].calm => call[d].calm)
             /\ calls[d].pc = "push" => calls[d].at = version + 1 /\ calls[d].room \in now
  BY <1>1
<1>5. CallInv'
  <2>1. \A d \in Intents!All :
            /\ calls[d].pc \in {"idle", "done"} => calls[d].slot = Nothing /\ ~calls[d].calm
            /\ calls[d].pc \notin {"idle", "done"} => calls[d].slot \in used
            /\ calls[d].pc \in {"check", "join", "leave", "push", "send"} => calls[d].room \in Rooms
    BY <1>9 DEF CallInv
  <2>2. \A d \in Calls : calls[d].pc \notin {"idle", "done"} =>
            calls[d].op \in Intents!Ops /\ calls[d].room \in Rooms
    BY <1>1, <1>9 DEF CallInv
  <2> QED BY <1>1, <1>2, <1>4, <2>1, <2>2 DEF CallInv
<1>6. CalmInv'
  <2>1. CASE gone # {}
    BY <1>2, <2>1 DEF CalmInv
  <2>2. CASE gone = {}
    <3>1. ASSUME NEW d \in Intents!All, call'[d].calm
          PROVE  call[d].calm /\ call'[d].slot = call[d].slot
      BY <1>2, <1>9, <3>1
    <3>2. ASSUME NEW s \in Slots \cup {Nothing}, Intents!Calm(s)
          PROVE  Intents!Calm(s)'
      <4>1. ASSUME NEW d \in Intents!All, call'[d].slot = s
            PROVE  /\ call'[d].pc = "apply" => call'[d].answer \subseteq now
                   /\ call'[d].pc = "push" => call'[d].room \in now
        <5>1. CASE calls[d] = call[d]
          BY <1>2, <2>2, <3>2, <4>1, <5>1 DEF Intents!Calm
        <5>2. CASE calls[d] # call[d]
          BY <1>1, <1>2, <5>2
        <5> QED BY <5>1, <5>2
      <4> QED BY <1>2, <2>2, <3>2, <4>1 DEF Intents!Calm
    <3>3. ASSUME NEW d \in Intents!All, call'[d].calm, call'[d].pc = "send"
          PROVE  call'[d].room \in now
      <4>1. calls[d] = call[d] /\ call[d].calm /\ call[d].pc = "send"
        BY <1>2, <1>9, <3>3
      <4>2. call[d].room \in member
        BY <4>1 DEF CalmInv
      <4> QED BY <1>2, <2>2, <4>1, <4>2
    <3> QED BY <1>2, <3>1, <3>2, <3>3 DEF CalmInv, IntentTypes, Callings
  <2> QED BY <2>1, <2>2
<1>7. VersionInv'
  <2>1. ASSUME NEW s \in Slots
        PROVE  due[s] <= version + 1 /\ due[s] # version + 1
    BY DEF IntentTypes, VersionInv
  <2>2. ASSUME NEW d \in Intents!All, calls[d] = call[d], call[d].pc \in {"apply", "push"}
        PROVE  call[d].at <= version + 1 /\ call[d].at # version + 1
    <3>1. call[d].at \in Nat /\ call[d].at <= version /\ version \in Nat
      BY <2>2 DEF IntentTypes, VersionInv, Callings
    <3> QED BY <3>1
  <2>3. ASSUME NEW d \in Intents!All, calls[d] # call[d]
        PROVE  /\ calls[d].pc # "apply"
               /\ calls[d].pc = "push" => calls[d].at = version + 1 /\ calls[d].room \in now
    BY <1>1, <2>3
  <2>4. version + 1 <= version + 1
    BY DEF IntentTypes
  <2> QED BY <1>2, <2>1, <2>2, <2>3, <2>4 DEF VersionInv
<1>8. BroughtInv'
  <2>1. \A n \in Nat : n + unheard >= version => n + (unheard + 1) >= version + 1
    BY DEF IntentTypes
  <2>2. \A d \in Intents!All : call[d].at \in Nat
    BY DEF IntentTypes, Callings
  <2>3. ASSUME NEW d \in Intents!All, calls[d].pc = "apply"
        PROVE  calls[d] = call[d]
    BY <1>1, <2>3
  <2> QED BY <1>1, <1>2, <1>4, <2>1, <2>2, <2>3 DEF BroughtInv, IntentTypes
<1> QED BY <1>3, <1>5, <1>6, <1>7, <1>8

LEMMA RecordKeeps ==
    ASSUME RecordInv, NEW c \in Calls, \A d \in Calls : d # c => call'[d].pc = call[d].pc,
           registered => registered', recorded => recorded', recorded' => registered',
           call'[c].pc = "record" => registered',
           call'[c].pc \notin {"idle", "done", "registered", "register", "record"} => recorded'
    PROVE  RecordInv'
  BY DEF RecordInv

\* What follows ensureRegistered.
LEMMA RegisteredEffect ==
    ASSUME IntentInv, NEW c \in Calls, call[c].pc \notin {"idle", "done"}, Intents!Registered(c)
    PROVE  \/ Intents!End(c)
           \/ \E label \in {"check", "refresh", "join", "leave"} : Intents!GoTo(c, label)
<1>1. call[c].op \in Intents!Ops
  BY DEF IntentInv, CallInv
<1>2. CASE call[c].op = "send"
  BY <1>2 DEF Intents!Registered
<1>3. CASE call[c].op = "rooms"
  BY <1>3 DEF Intents!Registered
<1>4. CASE call[c].op \in {"join", "leave"}
  BY <1>4 DEF Intents!Registered
<1> QED BY <1>1, <1>2, <1>3, <1>4 DEF Intents!Ops

\* The steps of a call of the bridge that change nothing but the call.
LEMMA AloneKeeps ==
    ASSUME IntentInv, NEW c \in Calls,
           \/ Intents!CheckRegistered(c) \/ Intents!Register(c) \/ Intents!RegisterFails(c)
           \/ Intents!Record(c) \/ Intents!CheckKnown(c) \/ Intents!JoinFails(c)
           \/ Intents!Send(c)
    PROVE  IntentInv'
<1>1. c \in Intents!All /\ c # Handler
  BY AppserviceAssumption DEF Intents!All
<1>2. Same
  BY DEF Same, Intents!CheckRegistered, Intents!Register, Intents!RegisterFails, Intents!Record,
         Intents!CheckKnown, Intents!JoinFails, Intents!Send, Intents!server,
         Intents!process, Intents!history
<1>3. ASSUME NEW label \in {"register", "record", "check", "refresh", "join", "leave", "send"},
             Intents!GoTo(c, label), call[c].pc \notin {"idle", "done", "apply"},
             label = "send" /\ call[c].calm => call[c].room \in member,
             registered => registered', recorded => recorded', recorded' => registered',
             label = "record" => registered',
             label \notin {"register", "record"} => recorded'
      PROVE  IntentInv'
  <2>1. label \in Places
    BY DEF Places
  <2>2. IntentTypes' /\ CallInv' /\ CalmInv' /\ VersionInv' /\ BroughtInv'
    BY <1>2, <1>3, <2>1, WalkKeeps
  <2>3. call'[c].pc = label /\ \A d \in Intents!All : d # c => call'[d] = call[d]
    BY <1>1, <1>3, <2>1, WalkEffect DEF IntentInv
  <2>4. RecordInv'
    BY <1>3, <2>3, RecordKeeps DEF IntentInv, Intents!All
  <2> QED BY <2>2, <2>4 DEF IntentInv
<1>4. ASSUME Intents!End(c),
             registered => registered', recorded => recorded', recorded' => registered'
      PROVE  IntentInv'
  <2>1. IntentTypes' /\ CallInv' /\ CalmInv' /\ VersionInv' /\ BroughtInv'
    BY <1>2, <1>4, EndKeeps
  <2>2. call'[c].pc = "done" /\ \A d \in Intents!All : d # c => call'[d] = call[d]
    BY <1>1, <1>4, EndEffect DEF IntentInv
  <2>3. RecordInv'
    BY <1>4, <2>2, RecordKeeps DEF IntentInv, Intents!All
  <2> QED BY <2>1, <2>3 DEF IntentInv
<1>5. recorded => registered
  BY DEF IntentInv, RecordInv
<1>6. CASE Intents!CheckRegistered(c)
  <2>1. call[c].pc = "registered" /\ UNCHANGED <<registered, recorded>>
    BY <1>6 DEF Intents!CheckRegistered, Intents!server
  <2>2. CASE recorded
    <3>1. Intents!Registered(c)
      BY <1>6, <2>2 DEF Intents!CheckRegistered
    <3> QED BY <1>3, <1>4, <1>5, <2>1, <2>2, <3>1, RegisteredEffect
  <2>3. CASE ~recorded
    <3>1. Intents!GoTo(c, "register")
      BY <1>6, <2>3 DEF Intents!CheckRegistered
    <3> QED BY <1>3, <1>5, <2>1, <3>1
  <2> QED BY <2>2, <2>3
<1>7. CASE Intents!Register(c)
  BY <1>3, <1>5, <1>7 DEF Intents!Register
<1>8. CASE Intents!RegisterFails(c)
  <2>1. Intents!End(c) /\ recorded' = recorded /\ (registered' = registered \/ registered' = TRUE)
    BY <1>8 DEF Intents!RegisterFails
  <2>2. (registered => registered') /\ (recorded => recorded') /\ (recorded' => registered')
    BY <1>5, <2>1
  <2> QED BY <1>4, <2>1, <2>2
<1>9. CASE Intents!Record(c)
  <2>1. /\ call[c].pc = "record" /\ recorded' = TRUE /\ registered' = registered
        /\ Intents!Registered(c) /\ registered
    BY <1>9 DEF Intents!Record, Intents!server, IntentInv, RecordInv
  <2> QED BY <1>3, <1>4, <2>1, RegisteredEffect
<1>10. CASE Intents!CheckKnown(c)
  <2>1. call[c].pc = "check" /\ UNCHANGED <<registered, recorded>> /\ recorded
    BY <1>10 DEF Intents!CheckKnown, Intents!server, IntentInv, RecordInv
  <2>2. CASE call[c].room \in knownJoinedRooms[call[c].slot]
    <3>1. Intents!GoTo(c, "send")
      BY <1>10, <2>2 DEF Intents!CheckKnown
    <3>2. call[c].calm => call[c].room \in member
      BY <1>1, <2>2 DEF IntentInv, CalmInv, Intents!Calm
    <3> QED BY <1>3, <1>5, <2>1, <3>1, <3>2
  <2>3. CASE call[c].room \notin knownJoinedRooms[call[c].slot]
    <3>1. Intents!GoTo(c, "refresh")
      BY <1>10, <2>3 DEF Intents!CheckKnown
    <3> QED BY <1>3, <1>5, <2>1, <3>1
  <2> QED BY <2>2, <2>3
<1>11. CASE Intents!JoinFails(c) \/ Intents!Send(c)
  BY <1>4, <1>5, <1>11 DEF Intents!JoinFails, Intents!Send, Intents!server
<1> QED BY <1>6, <1>7, <1>8, <1>9, <1>10, <1>11

\* The steps of a call that change the membership.
LEMMA JoinsKeep ==
    ASSUME IntentInv, NEW c \in Calls,
           Intents!Join(c) \/ Intents!JoinLost(c) \/ Intents!Leave(c)
    PROVE  IntentInv'
<1>1. c \in Intents!All /\ c # Handler
  BY AppserviceAssumption DEF Intents!All
<1>2. UNCHANGED <<registered, recorded, intent, used, knownJoinedRooms, due, astray>>
  BY DEF Intents!Join, Intents!JoinLost, Intents!Leave, Intents!process, Intents!history
<1>3. call[c].pc \in {"join", "leave"} /\ recorded /\ registered
  BY DEF Intents!Join, Intents!JoinLost, Intents!Leave, IntentInv, RecordInv
<1>4. PICK room \in Rooms : room = call[c].room
  BY <1>1, <1>3 DEF IntentInv, CallInv
<1>5. member \subseteq Rooms /\ call[c] \in Callings /\ call \in [Intents!All -> Callings]
      /\ version \in Nat
  BY <1>1 DEF IntentInv, IntentTypes
<1>6. ASSUME \A d \in Intents!All : d # c => call'[d].pc = call[d].pc
      PROVE  RecordInv'
  BY <1>1, <1>2, <1>3, <1>6, RecordKeeps DEF IntentInv, Intents!All
<1>7. ASSUME NEW calls \in [Intents!All -> Callings], NEW now \in SUBSET Rooms, NEW gone,
             Intents!Moves(now, gone, calls), gone = {} => member \subseteq now,
             \A d \in Intents!All : d # c => calls[d] = call[d],
             \/ calls[c].pc = "done" /\ calls[c].slot = Nothing /\ ~calls[c].calm
             \/ /\ \/ calls[c].pc = "refresh"
                   \/ calls[c].pc = "push" /\ calls[c].at = version + 1 /\ calls[c].room \in now
                /\ calls[c].op = call[c].op /\ calls[c].room = call[c].room
                /\ calls[c].slot = call[c].slot /\ (calls[c].calm => call[c].calm)
      PROVE  IntentInv'
  <2>1. IntentTypes' /\ CallInv' /\ CalmInv' /\ VersionInv' /\ BroughtInv'
    BY <1>2, <1>3, <1>7, MoveKeeps
  <2>2. \A d \in Intents!All : call'[d].pc = calls[d].pc
    BY <1>7, MovesEffect
  <2>3. RecordInv'
    BY <1>6, <1>7, <2>2
  <2> QED BY <2>1, <2>3 DEF IntentInv
<1>8. CASE Intents!Join(c)
  <2>1. PICK calls :
            calls = [call EXCEPT ![c].pc = IF call[c].op = "send" THEN "push" ELSE "refresh",
                                 ![c].at = IF room \in member THEN version ELSE version + 1]
    OBVIOUS
  <2>2. /\ calls \in [Intents!All -> Callings]
        /\ \A d \in Intents!All : d # c => calls[d] = call[d]
        /\ calls[c].pc = (IF call[c].op = "send" THEN "push" ELSE "refresh")
        /\ calls[c].at = (IF room \in member THEN version ELSE version + 1)
        /\ calls[c].op = call[c].op /\ calls[c].room = call[c].room
        /\ calls[c].slot = call[c].slot /\ calls[c].answer = call[c].answer
        /\ calls[c].calm = call[c].calm
    <3>1. PICK to \in Places : to = IF call[c].op = "send" THEN "push" ELSE "refresh"
      BY DEF Places
    <3>2. PICK at \in Nat : at = IF room \in member THEN version ELSE version + 1
      BY <1>5
    <3>3. calls = [call EXCEPT ![c] = [[call[c] EXCEPT !.pc = to] EXCEPT !.at = at]]
      BY <2>1, <3>1, <3>2
    <3>4. PICK now : now = [[call[c] EXCEPT !.pc = to] EXCEPT !.at = at]
      OBVIOUS
    <3>5. /\ now \in Callings /\ now.pc = to /\ now.at = at /\ now.op = call[c].op
          /\ now.room = call[c].room /\ now.slot = call[c].slot
          /\ now.answer = call[c].answer /\ now.calm = call[c].calm
      BY <1>5, <3>4 DEF Callings
    <3>6. calls = [call EXCEPT ![c] = now]
      BY <3>3, <3>4
    <3>7. calls \in [Intents!All -> Callings] /\ calls[c] = now
          /\ \A d \in Intents!All : d # c => calls[d] = call[d]
      BY <1>1, <1>5, <3>5, <3>6
    <3> QED BY <1>4, <3>1, <3>2, <3>5, <3>7
  <2>3. CASE room \in member
    <3>1. call' = calls /\ UNCHANGED <<member, version, unheard>>
      BY <1>4, <1>8, <2>1, <2>3 DEF Intents!Join
    <3> USE DEF IntentInv
    <3>2. IntentTypes'
      BY <1>2, <2>2, <3>1 DEF IntentTypes
    <3>3. CallInv'
      BY <1>1, <1>2, <1>3, <2>2, <3>1 DEF CallInv, Intents!All
    <3>4. CalmInv'
      BY <1>1, <1>2, <1>4, <2>2, <2>3, <3>1 DEF CalmInv, Intents!Calm
    <3>5. VersionInv'
      BY <1>1, <1>2, <1>4, <1>5, <2>2, <2>3, <3>1 DEF VersionInv
    <3>6. BroughtInv'
      BY <1>1, <1>2, <2>2, <3>1 DEF BroughtInv, Intents!All
    <3>7. RecordInv'
      BY <1>6, <2>2, <3>1
    <3> QED BY <3>2, <3>3, <3>4, <3>5, <3>6, <3>7
  <2>4. CASE room \notin member
    <3>1. Intents!Moves(member \cup {room}, {}, calls)
      BY <1>4, <1>8, <2>1, <2>4 DEF Intents!Join
    <3>2. PICK now \in SUBSET Rooms : now = member \cup {room}
      BY <1>5
    <3>3. Intents!Moves(now, {}, calls) /\ call[c].room \in now /\ member \subseteq now
      BY <1>4, <3>1, <3>2
    <3> QED BY <1>7, <2>2, <2>4, <3>3
  <2> QED BY <2>3, <2>4
<1>9. CASE Intents!JoinLost(c)
  <2>1. PICK calls : calls = [call EXCEPT ![c] = Intents!Ended(c)]
    OBVIOUS
  <2>2. /\ calls \in [Intents!All -> Callings]
        /\ \A d \in Intents!All : d # c => calls[d] = call[d]
        /\ calls[c].pc = "done" /\ calls[c].slot = Nothing /\ ~calls[c].calm
    BY <1>1, <1>5, <2>1 DEF Callings, Places, Intents!Ended, Intents!Idle
  <2>3. PICK now \in SUBSET Rooms : now = member \cup {room}
    BY <1>5
  <2>4. Intents!Moves(now, {}, calls) /\ member \subseteq now
    BY <1>4, <1>9, <2>1, <2>3 DEF Intents!JoinLost
  <2> QED BY <1>7, <2>2, <2>4
<1>10. CASE Intents!Leave(c)
  <2>1. CASE room \in member
    <3>1. PICK calls : calls = [call EXCEPT ![c].pc = "refresh"]
      OBVIOUS
    <3>2. /\ calls \in [Intents!All -> Callings]
          /\ \A d \in Intents!All : d # c => calls[d] = call[d]
          /\ calls[c].pc = "refresh" /\ calls[c].op = call[c].op /\ calls[c].room = call[c].room
          /\ calls[c].slot = call[c].slot /\ calls[c].calm = call[c].calm
      BY <1>1, <1>5, <3>1 DEF Callings, Places
    <3>3. PICK now \in SUBSET Rooms : now = member \ {room}
      BY <1>5
    <3>4. Intents!Moves(now, {room}, calls) /\ {room} # {}
      BY <1>4, <1>10, <2>1, <3>1, <3>3 DEF Intents!Leave
    <3> QED BY <1>7, <3>2, <3>4
  <2>2. CASE room \notin member
    <3>1. Intents!End(c) /\ UNCHANGED <<member, version, unheard>>
      BY <1>4, <1>10, <2>2 DEF Intents!Leave
    <3>2. IntentTypes' /\ CallInv' /\ CalmInv' /\ VersionInv' /\ BroughtInv'
      BY <1>2, <3>1, EndKeeps DEF Same
    <3>3. \A d \in Intents!All : d # c => call'[d] = call[d]
      BY <1>1, <3>1, EndEffect DEF IntentInv
    <3>4. RecordInv'
      BY <1>6, <3>3
    <3> QED BY <3>2, <3>4 DEF IntentInv
  <2> QED BY <2>1, <2>2
<1> QED BY <1>8, <1>9, <1>10

\* The request for the joined rooms.
LEMMA RefreshKeeps ==
    ASSUME IntentInv, NEW c \in Intents!All, Intents!Refresh(c)
    PROVE  IntentInv'
<1> USE DEF IntentInv
<1>1. /\ call[c].pc = "refresh" /\ Same /\ UNCHANGED <<registered, recorded>>
      /\ call' = [call EXCEPT ![c].pc = "apply", ![c].answer = member, ![c].at = version]
  BY DEF Intents!Refresh, Intents!server, Intents!process, Intents!history, Same
<1>2. Handler \in Intents!All /\ Handler \notin Calls /\ Calls \subseteq Intents!All
  BY AppserviceAssumption DEF Intents!All
<1>3. call \in [Intents!All -> Callings] /\ member \in SUBSET Rooms /\ version \in Nat
  BY DEF IntentTypes
<1>4. /\ call' \in [Intents!All -> Callings]
      /\ \A d \in Intents!All : d # c => call'[d] = call[d]
      /\ call'[c].pc = "apply" /\ call'[c].answer = member /\ call'[c].at = version
      /\ call'[c].op = call[c].op /\ call'[c].room = call[c].room
      /\ call'[c].slot = call[c].slot /\ call'[c].calm = call[c].calm
  <2>1. PICK to : to = [[[call[c] EXCEPT !.pc = "apply"] EXCEPT !.answer = member]
                           EXCEPT !.at = version]
    OBVIOUS
  <2>2. /\ to \in Callings /\ to.pc = "apply" /\ to.answer = member /\ to.at = version
        /\ to.op = call[c].op /\ to.room = call[c].room /\ to.slot = call[c].slot
        /\ to.calm = call[c].calm
    <3>1. PICK k \in Callings : k = call[c]
      BY <1>3
    <3>2. to = [k EXCEPT !.pc = "apply", !.answer = member, !.at = version]
      BY <2>1, <3>1
    <3>3. "apply" \in Places
      BY DEF Places
    <3> QED BY <1>3, <3>1, <3>2, <3>3 DEF Callings
  <2>3. call' = [call EXCEPT ![c] = to]
    BY <1>1, <2>1
  <2> QED BY <1>3, <2>2, <2>3
<1>5. IntentTypes'
  BY <1>1, <1>4 DEF IntentTypes, Same
<1>6. CallInv'
  BY <1>1, <1>2, <1>4 DEF CallInv, Same
<1>7. RecordInv'
  BY <1>1, <1>2, <1>4 DEF RecordInv
<1>8. CalmInv'
  BY <1>1, <1>4 DEF CalmInv, Intents!Calm, Same
<1>9. VersionInv'
  BY <1>1, <1>3, <1>4 DEF VersionInv, Same
<1>10. BroughtInv'
  <2>1. version + unheard >= version
    BY DEF IntentTypes
  <2> QED BY <1>1, <1>2, <1>4, <2>1 DEF BroughtInv, Same
<1> QED BY <1>5, <1>6, <1>7, <1>8, <1>9, <1>10

LEMMA RefreshFailsKeeps ==
    ASSUME IntentInv, NEW c \in Intents!All, Intents!RefreshFails(c)
    PROVE  IntentInv'
<1> USE DEF IntentInv
<1>1. /\ call[c].pc = "refresh" /\ Intents!End(c)
      /\ UNCHANGED <<registered, recorded, member, version, unheard, intent, used, knownJoinedRooms>>
  BY DEF Intents!RefreshFails, Intents!server, Intents!process
<1>2. Handler \in Intents!All /\ Handler \notin Calls /\ Calls \subseteq Intents!All
  BY AppserviceAssumption DEF Intents!All
<1>3. PICK s \in Slots : s = call[c].slot
  BY <1>1 DEF CallInv, IntentTypes
<1>4. /\ due' = [due EXCEPT ![s] = version] /\ astray' = [astray EXCEPT ![s] = TRUE]
      /\ version \in Nat /\ unheard \in Nat
  BY <1>3 DEF Intents!RefreshFails, IntentTypes
<1>5. /\ due' \in [Slots -> Nat] /\ astray' \in [Slots -> BOOLEAN]
      /\ due'[s] = version /\ astray'[s]
      /\ \A t \in Slots : t # s => due'[t] = due[t] /\ astray'[t] = astray[t]
  BY <1>4 DEF IntentTypes
<1>6. /\ call' \in [Intents!All -> Callings]
      /\ call'[c].pc = (IF c = Handler THEN "idle" ELSE "done")
      /\ call'[c].op = "member" /\ call'[c].slot = Nothing /\ ~call'[c].calm
      /\ \A d \in Intents!All : d # c => call'[d] = call[d]
  BY <1>1, EndEffect
<1>7. IntentTypes'
  BY <1>1, <1>5, <1>6 DEF IntentTypes
<1>8. CallInv'
  BY <1>1, <1>2, <1>6 DEF CallInv
<1>9. RecordInv'
  BY <1>1, <1>2, <1>6 DEF RecordInv
<1>10. CalmInv'
  BY <1>1, <1>6 DEF CalmInv, Intents!Calm
<1>11. VersionInv'
  BY <1>1, <1>3, <1>4, <1>5, <1>6 DEF VersionInv, CallInv
<1>12. BroughtInv'
  <2>1. version + unheard >= version
    BY <1>4
  <2>2. ASSUME NEW t \in Slots, t = intent, t # s
        PROVE  \/ due'[t] + unheard >= version
               \/ call'[Handler].pc \in {"refresh", "apply"} /\ call'[Handler].slot = t
               \/ /\ astray'[t]
                  /\ \A d \in Intents!All : call'[d].pc = "apply" /\ call'[d].slot = t =>
                         call'[d].at + unheard >= version
    <3>1. CASE call[Handler].pc \in {"refresh", "apply"} /\ call[Handler].slot = t
      BY <1>2, <1>3, <1>6, <2>2, <3>1
    <3>2. CASE due[t] + unheard >= version
      BY <1>5, <2>2, <3>2
    <3>3. CASE /\ astray[t]
               /\ \A d \in Intents!All : call[d].pc = "apply" /\ call[d].slot = t =>
                      call[d].at + unheard >= version
      <4>1. \A d \in Intents!All : call'[d].pc = "apply" => call'[d] = call[d]
        BY <1>6
      <4> QED BY <1>5, <2>2, <3>3, <4>1
    <3> QED BY <2>2, <3>1, <3>2, <3>3 DEF BroughtInv
  <2> QED BY <1>1, <1>2, <1>5, <1>6, <2>1, <2>2 DEF BroughtInv
<1> QED BY <1>7, <1>8, <1>9, <1>10, <1>11, <1>12

\* The answer replaces the list.
LEMMA ApplyKeeps ==
    ASSUME IntentInv, NEW c \in Intents!All, Intents!Apply(c)
    PROVE  IntentInv'
<1> USE DEF IntentInv
<1>1. /\ call[c].pc = "apply"
      /\ UNCHANGED <<registered, recorded, member, version, unheard, intent, used>>
  BY DEF Intents!Apply, Intents!server
<1>2. Handler \in Intents!All /\ Handler \notin Calls /\ Calls \subseteq Intents!All
  BY AppserviceAssumption DEF Intents!All
<1>3. PICK s \in Slots : s = call[c].slot
  BY <1>1 DEF CallInv, IntentTypes
<1>4. PICK at \in Nat, answer \in SUBSET Rooms : at = call[c].at /\ answer = call[c].answer
  BY DEF IntentTypes, Callings
<1>5. /\ knownJoinedRooms' = [knownJoinedRooms EXCEPT ![s] = answer]
      /\ due' = [due EXCEPT ![s] = IF at > @ THEN at ELSE @]
      /\ astray' = [astray EXCEPT ![s] = at < due[s]]
      /\ version \in Nat /\ unheard \in Nat /\ due[s] \in Nat
      /\ \/ Intents!End(c)
         \/ /\ c # Handler
            /\ \E label \in {"send", "join"} :
                  /\ Intents!GoTo(c, label)
                  /\ label = "send" => call[c].room \in answer
  <2>1. /\ knownJoinedRooms' = [knownJoinedRooms EXCEPT ![s] = answer]
        /\ due' = [due EXCEPT ![s] = IF at > @ THEN at ELSE @]
        /\ astray' = [astray EXCEPT ![s] = at < due[s]]
    BY <1>3, <1>4 DEF Intents!Apply, Intents!Answered
  <2>2. CASE call[c].op # "send"
    <3>1. Intents!End(c)
      BY <2>2 DEF Intents!Apply
    <3> QED BY <2>1, <3>1 DEF IntentTypes
  <2>3. CASE call[c].op = "send"
    <3>1. c # Handler
      BY <2>3 DEF CallInv
    <3>2. Intents!GoTo(c, IF call[c].room \in answer THEN "send" ELSE "join")
      BY <1>4, <2>3 DEF Intents!Apply
    <3>3. \E label \in {"send", "join"} :
              Intents!GoTo(c, label) /\ (label = "send" => call[c].room \in answer)
      <4>1. CASE call[c].room \in answer
        BY <3>2, <4>1
      <4>2. CASE call[c].room \notin answer
        BY <3>2, <4>2
      <4> QED BY <4>1, <4>2
    <3> QED BY <2>1, <3>1, <3>3 DEF IntentTypes
  <2> QED BY <2>2, <2>3
<1>6. /\ knownJoinedRooms' \in [Slots -> SUBSET Rooms]
      /\ due' \in [Slots -> Nat] /\ astray' \in [Slots -> BOOLEAN]
      /\ knownJoinedRooms'[s] = answer
      /\ due'[s] = (IF at > due[s] THEN at ELSE due[s])
      /\ at < due[s] => astray'[s]
      /\ \A t \in Slots : t # s => /\ due'[t] = due[t] /\ astray'[t] = astray[t]
                                   /\ knownJoinedRooms'[t] = knownJoinedRooms[t]
  <2>1. (at < due[s]) \in BOOLEAN /\ (IF at > due[s] THEN at ELSE due[s]) \in Nat
    BY <1>4, <1>5
  <2>2. /\ knownJoinedRooms' \in [Slots -> SUBSET Rooms] /\ knownJoinedRooms'[s] = answer
        /\ \A t \in Slots : t # s => knownJoinedRooms'[t] = knownJoinedRooms[t]
    BY <1>4, <1>5 DEF IntentTypes
  <2>3. /\ due' \in [Slots -> Nat] /\ due'[s] = (IF at > due[s] THEN at ELSE due[s])
        /\ \A t \in Slots : t # s => due'[t] = due[t]
    BY <1>4, <1>5, <2>1 DEF IntentTypes
  <2>4. /\ astray' \in [Slots -> BOOLEAN] /\ astray'[s] = (at < due[s])
        /\ \A t \in Slots : t # s => astray'[t] = astray[t]
    BY <1>5, <2>1 DEF IntentTypes
  <2> QED BY <2>2, <2>3, <2>4
<1>7. /\ call' \in [Intents!All -> Callings]
      /\ \A d \in Intents!All : d # c => call'[d] = call[d]
      /\ \/ /\ call'[c].pc = (IF c = Handler THEN "idle" ELSE "done")
            /\ call'[c].op = "member" /\ call'[c].slot = Nothing /\ ~call'[c].calm
         \/ /\ c # Handler /\ call'[c].pc \in {"send", "join"}
            /\ call'[c].pc = "send" => call[c].room \in answer
            /\ call'[c].op = call[c].op /\ call'[c].room = call[c].room
            /\ call'[c].slot = s /\ call'[c].calm = call[c].calm
  <2>1. CASE Intents!End(c)
    BY <2>1, EndEffect
  <2>2. CASE ~Intents!End(c)
    <3>1. PICK label \in {"send", "join"} : Intents!GoTo(c, label) /\ c # Handler /\
                                             (label = "send" => call[c].room \in answer)
      BY <1>5, <2>2
    <3>2. label \in Places
      BY DEF Places
    <3> QED BY <1>3, <3>1, <3>2, WalkEffect
  <2> QED BY <2>1, <2>2
<1>8. IntentTypes'
  BY <1>1, <1>6, <1>7 DEF IntentTypes
<1>9. CallInv'
  <2>1. /\ call'[c].pc \in {"idle", "done"} => call'[c].slot = Nothing /\ ~call'[c].calm
        /\ call'[c].pc \notin {"idle", "done"} => call'[c].slot \in used
        /\ call'[c].pc \in {"check", "join", "leave", "push", "send"} => call'[c].room \in Rooms
        /\ c \in Calls /\ call'[c].pc \notin {"idle", "done"} =>
               call'[c].op \in Intents!Ops /\ call'[c].room \in Rooms
        /\ c = Handler => call'[c].pc = "idle" /\ call'[c].op = "member"
    BY <1>1, <1>2, <1>3, <1>7 DEF CallInv, Intents!All
  <2> QED BY <1>1, <1>2, <1>7, <2>1 DEF CallInv
<1>10. RecordInv'
  BY <1>1, <1>2, <1>7 DEF RecordInv
<1>11. CalmInv'
  <2>1. ASSUME NEW d \in Intents!All, call[d].calm, call[d].slot = s
        PROVE  answer \subseteq member
    BY <1>1, <1>3, <1>4, <2>1 DEF CalmInv, Intents!Calm
  <2>2. ASSUME NEW d \in Intents!All, call'[d].calm
        PROVE  call[d].calm /\ call'[d].slot = call[d].slot
    BY <1>3, <1>7, <2>2
  <2>3. ASSUME NEW d \in Intents!All, call'[d].calm
        PROVE  Intents!Calm(call[d].slot)
    BY <2>2, <2>3 DEF CalmInv
  <2>4. ASSUME NEW d \in Intents!All, call'[d].calm
        PROVE  \A e \in Intents!All : call'[e].slot = call'[d].slot =>
                   /\ call'[e].pc = "apply" => call'[e].answer \subseteq member
                   /\ call'[e].pc = "push" => call'[e].room \in member
    BY <1>7, <2>2, <2>3, <2>4 DEF Intents!Calm
  <2>5. ASSUME NEW d \in Intents!All, call'[d].calm
        PROVE  knownJoinedRooms'[call'[d].slot] \subseteq member
    <3>1. call[d].calm /\ call'[d].slot = call[d].slot /\ Intents!Calm(call[d].slot)
      BY <2>2, <2>3, <2>5
    <3>2. CASE call[d].slot = s
      BY <1>6, <2>1, <3>1, <3>2
    <3>3. CASE call[d].slot # s
      <4>1. call[d].slot \in Slots
        BY <3>1 DEF CallInv, IntentTypes
      <4> QED BY <1>6, <3>1, <3>3, <4>1 DEF Intents!Calm
    <3> QED BY <3>2, <3>3
  <2>6. ASSUME NEW d \in Intents!All, call'[d].calm, call'[d].pc = "send"
        PROVE  call'[d].room \in member
    <3>1. CASE d = c
      BY <1>3, <1>7, <2>1, <2>2, <2>6, <3>1
    <3>2. CASE d # c
      BY <1>7, <2>6, <3>2 DEF CalmInv
    <3> QED BY <3>1, <3>2
  <2> QED BY <1>1, <2>4, <2>5, <2>6 DEF CalmInv, Intents!Calm
<1>12. VersionInv'
  <2>1. at <= version /\ (at = version => answer = member) /\ due[s] <= version
    BY <1>1, <1>4 DEF VersionInv
  <2>2. due'[s] <= version /\ (~astray'[s] /\ due'[s] = version => answer = member)
    BY <1>5, <1>6, <2>1
  <2>3. s \in used
    BY <1>1, <1>3 DEF CallInv
  <2> QED BY <1>1, <1>6, <1>7, <2>2, <2>3 DEF VersionInv
<1>13. BroughtInv'
  <2>1. CASE c # Handler /\ call[Handler].pc \in {"refresh", "apply"} /\ call[Handler].slot = s
    BY <1>1, <1>2, <1>6, <1>7, <2>1 DEF BroughtInv
  <2>2. CASE ~(c # Handler /\ call[Handler].pc \in {"refresh", "apply"} /\ call[Handler].slot = s)
    <3>1. s = intent => at + unheard >= version \/ due[s] + unheard >= version
      <4>1. CASE c = Handler
        BY <1>1, <1>4, <4>1 DEF BroughtInv
      <4>2. CASE c # Handler
        BY <1>1, <1>3, <1>4, <2>2, <4>2 DEF BroughtInv
      <4> QED BY <4>1, <4>2
    <3>2. due'[s] \in Nat /\ due'[s] >= at /\ due'[s] >= due[s]
      BY <1>4, <1>5, <1>6
    <3>3. s = intent => due'[s] + unheard >= version
      BY <1>4, <1>5, <3>1, <3>2
    <3>4. ASSUME NEW t \in Slots, t = intent, t # s
          PROVE  \/ due'[t] + unheard >= version
                 \/ call'[Handler].pc \in {"refresh", "apply"} /\ call'[Handler].slot = t
                 \/ /\ astray'[t]
                    /\ \A d \in Intents!All : call'[d].pc = "apply" /\ call'[d].slot = t =>
                           call'[d].at + unheard >= version
      <4>1. CASE call[Handler].pc \in {"refresh", "apply"} /\ call[Handler].slot = t
        BY <1>2, <1>3, <1>7, <3>4, <4>1
      <4>2. CASE due[t] + unheard >= version
        BY <1>6, <3>4, <4>2
      <4>3. CASE /\ astray[t]
                 /\ \A d \in Intents!All : call[d].pc = "apply" /\ call[d].slot = t =>
                        call[d].at + unheard >= version
        <5>1. \A d \in Intents!All : call'[d].pc = "apply" => call'[d] = call[d]
          BY <1>7
        <5> QED BY <1>6, <3>4, <4>3, <5>1
      <4> QED BY <3>4, <4>1, <4>2, <4>3 DEF BroughtInv
    <3>5. call'[Handler].pc = "apply" => call'[Handler].at + unheard >= version
      BY <1>2, <1>7 DEF BroughtInv
    <3> QED BY <1>1, <1>2, <3>3, <3>4, <3>5 DEF BroughtInv
  <2> QED BY <2>1, <2>2
<1> QED BY <1>8, <1>9, <1>10, <1>11, <1>12, <1>13

\* ensureJoined pushes the room it joined.
LEMMA PushKeeps ==
    ASSUME IntentInv, NEW c \in Calls, Intents!Push(c)
    PROVE  IntentInv'
<1> USE DEF IntentInv
<1>1. /\ call[c].pc = "push" /\ Intents!GoTo(c, "send") /\ "send" \in Places
      /\ UNCHANGED <<registered, recorded, member, version, unheard, intent, used, due>>
  BY DEF Intents!Push, Intents!server, Places
<1>2. Handler \in Intents!All /\ Handler \notin Calls /\ Calls \subseteq Intents!All
      /\ c \in Intents!All /\ c # Handler
  BY AppserviceAssumption DEF Intents!All
<1>3. PICK s \in Slots : s = call[c].slot
  BY <1>1, <1>2 DEF CallInv, IntentTypes
<1>4. PICK at \in Nat, room \in Rooms : at = call[c].at /\ room = call[c].room
  BY <1>1, <1>2 DEF IntentTypes, Callings, CallInv
<1>5. /\ knownJoinedRooms' = [knownJoinedRooms EXCEPT ![s] = @ \cup {room}]
      /\ astray' = [astray EXCEPT ![s] = @ \/ at < due[s]]
      /\ version \in Nat /\ due[s] \in Nat
  BY <1>3, <1>4 DEF Intents!Push, IntentTypes
<1>6. /\ knownJoinedRooms' \in [Slots -> SUBSET Rooms]
      /\ knownJoinedRooms'[s] = knownJoinedRooms[s] \cup {room}
      /\ \A t \in Slots : t # s => knownJoinedRooms'[t] = knownJoinedRooms[t]
  BY <1>5 DEF IntentTypes
<1>7. /\ astray' \in [Slots -> BOOLEAN]
      /\ astray[s] \/ at < due[s] => astray'[s]
      /\ \A t \in Slots : t # s => astray'[t] = astray[t]
  <2>1. (astray[s] \/ at < due[s]) \in BOOLEAN
    OBVIOUS
  <2> QED BY <1>5, <2>1 DEF IntentTypes
<1>8. /\ call' \in [Intents!All -> Callings]
      /\ call'[c].pc = "send" /\ call'[c].op = call[c].op /\ call'[c].room = room
      /\ call'[c].slot = s /\ call'[c].calm = call[c].calm
      /\ \A d \in Intents!All : d # c => call'[d] = call[d]
  BY <1>1, <1>2, <1>3, <1>4, WalkEffect
<1>9. IntentTypes'
  BY <1>1, <1>6, <1>7, <1>8 DEF IntentTypes
<1>10. CallInv'
  BY <1>1, <1>2, <1>3, <1>4, <1>8 DEF CallInv
<1>11. RecordInv'
  BY <1>1, <1>2, <1>8 DEF RecordInv
<1>12. CalmInv'
  <2>1. ASSUME NEW d \in Intents!All, call[d].calm, call[d].slot = s
        PROVE  room \in member /\ knownJoinedRooms[s] \subseteq member
    BY <1>1, <1>2, <1>3, <1>4, <2>1 DEF CalmInv, Intents!Calm
  <2>2. ASSUME NEW d \in Intents!All, call'[d].calm
        PROVE  call[d].calm /\ call'[d].slot = call[d].slot /\ Intents!Calm(call[d].slot)
    BY <1>3, <1>8, <2>2 DEF CalmInv
  <2>3. ASSUME NEW d \in Intents!All, call'[d].calm
        PROVE  \A e \in Intents!All : call'[e].slot = call'[d].slot =>
                   /\ call'[e].pc = "apply" => call'[e].answer \subseteq member
                   /\ call'[e].pc = "push" => call'[e].room \in member
    BY <1>8, <2>2, <2>3 DEF Intents!Calm
  <2>4. ASSUME NEW d \in Intents!All, call'[d].calm
        PROVE  knownJoinedRooms'[call'[d].slot] \subseteq member
    <3>1. CASE call[d].slot = s
      BY <1>6, <2>1, <2>2, <2>4, <3>1
    <3>2. CASE call[d].slot # s
      <4>1. call[d].slot \in Slots
        BY <2>2, <2>4 DEF CallInv, IntentTypes
      <4> QED BY <1>6, <2>2, <2>4, <3>2, <4>1 DEF Intents!Calm
    <3> QED BY <3>1, <3>2
  <2>5. ASSUME NEW d \in Intents!All, call'[d].calm, call'[d].pc = "send"
        PROVE  call'[d].room \in member
    <3>1. CASE d = c
      BY <1>3, <1>8, <2>1, <2>2, <2>5, <3>1
    <3>2. CASE d # c
      BY <1>8, <2>5, <3>2 DEF CalmInv
    <3> QED BY <3>1, <3>2
  <2> QED BY <1>1, <2>3, <2>4, <2>5 DEF CalmInv, Intents!Calm
<1>13. VersionInv'
  <2>1. at <= version /\ (at = version => room \in member) /\ due[s] <= version
        /\ (~astray[s] /\ due[s] = version => knownJoinedRooms[s] = member)
    BY <1>1, <1>2, <1>4 DEF VersionInv
  <2>2. ~astray'[s] /\ due[s] = version => knownJoinedRooms'[s] = member
    BY <1>4, <1>5, <1>6, <1>7, <2>1
  <2>3. s \in used
    BY <1>1, <1>2, <1>3 DEF CallInv
  <2>4. ASSUME NEW t \in Slots
        PROVE  /\ due'[t] <= version'
               /\ ~astray'[t] /\ due'[t] = version' => knownJoinedRooms'[t] = member'
               /\ t \notin used' => astray'[t]
    <3>1. CASE t = s
      BY <1>1, <2>1, <2>2, <2>3, <3>1
    <3>2. CASE t # s
      BY <1>1, <1>6, <1>7, <3>2 DEF VersionInv
    <3> QED BY <3>1, <3>2
  <2>5. \A d \in Intents!All : call'[d].pc \in {"apply", "push"} => call'[d] = call[d]
    BY <1>8
  <2> QED BY <1>1, <2>4, <2>5 DEF VersionInv
<1>14. BroughtInv'
  BY <1>1, <1>2, <1>7, <1>8 DEF BroughtInv
<1> QED BY <1>9, <1>10, <1>11, <1>12, <1>13, <1>14

\* An Intent is asked for, by a call or by the handler.
LEMMA BeginKeeps ==
    ASSUME IntentInv, NEW c \in Intents!All, NEW s \in Slots,
           NEW op \in Intents!Ops \cup {"member"}, NEW room \in Rooms \cup {Nothing},
           NEW label \in {"registered", "refresh"},
           call[c].pc = "idle", Intents!GetIntent(s) \/ Intents!KeepIntent(s),
           Intents!Begin(c, op, room, s, label),
           UNCHANGED <<registered, recorded, member, version, due, astray>>,
           \/ /\ c # Handler /\ unheard' = unheard /\ label = "registered"
              /\ op \in Intents!Ops /\ room \in Rooms
           \/ /\ c = Handler /\ unheard > 0 /\ unheard' = unheard - 1 /\ label = "refresh"
              /\ op = "member" /\ Intents!GetIntent(s)
    PROVE  IntentInv'
<1> USE DEF IntentInv
<1>1. Handler \in Intents!All /\ Handler \notin Calls /\ Calls \subseteq Intents!All
      /\ label \in Places /\ Nothing \notin Slots
  BY AppserviceAssumption DEF Intents!All, Places
<1>2. /\ call' \in [Intents!All -> Callings]
      /\ call'[c].pc = label /\ call'[c].op = op /\ call'[c].room = room
      /\ call'[c].slot = s /\ (call'[c].calm => Intents!Calm(s))
      /\ \A d \in Intents!All : d # c => call'[d] = call[d]
  BY <1>1, BeginEffect
<1>3. /\ knownJoinedRooms' = knownJoinedRooms /\ s \in used' /\ used \subseteq used'
      /\ used' \subseteq Slots
      /\ intent' \in used' \cup {Nothing} /\ intent' \in {intent, s}
      /\ intent' # intent => s \notin used
  BY DEF Intents!GetIntent, Intents!KeepIntent, Intents!Fresh, Intents!process, IntentTypes,
         BroughtInv
<1>4. IntentTypes'
  <2>1. unheard' \in Nat
    BY DEF IntentTypes
  <2> QED BY <1>2, <1>3, <2>1 DEF IntentTypes
<1>5. CallInv'
  BY <1>1, <1>2, <1>3 DEF CallInv
<1>6. RecordInv'
  BY <1>1, <1>2 DEF RecordInv
<1>7. CalmInv'
  <2>1. ASSUME NEW t \in Slots \cup {Nothing}, Intents!Calm(t)
        PROVE  Intents!Calm(t)'
    BY <1>2, <1>3, <2>1 DEF Intents!Calm
  <2>2. ASSUME NEW d \in Intents!All, call'[d].calm
        PROVE  /\ Intents!Calm(call'[d].slot) /\ call'[d].slot \in Slots \cup {Nothing}
               /\ call'[d].pc = "send" => call'[d].room \in member
    BY <1>2, <2>2 DEF CalmInv, IntentTypes, Callings
  <2>3. ASSUME NEW d \in Intents!All, call'[d].calm
        PROVE  /\ knownJoinedRooms'[call'[d].slot] \subseteq member'
               /\ \A e \in Intents!All : call'[e].slot = call'[d].slot =>
                   /\ call'[e].pc = "apply" => call'[e].answer \subseteq member'
                   /\ call'[e].pc = "push" => call'[e].room \in member'
    <3>1. PICK t \in Slots \cup {Nothing} : t = call'[d].slot
      BY <2>2, <2>3
    <3>2. Intents!Calm(t)
      BY <2>2, <2>3, <3>1
    <3>3. Intents!Calm(t)'
      BY <2>1, <3>2
    <3> QED BY <3>1, <3>3 DEF Intents!Calm
  <2> QED BY <2>2, <2>3 DEF CalmInv, Intents!Calm
<1>8. VersionInv'
  BY <1>2, <1>3 DEF VersionInv
<1>9. BroughtInv'
  <2>1. CASE c = Handler
    <3>1. call'[Handler].pc = "refresh" /\ call'[Handler].slot = s /\ intent' = s
      BY <1>2, <2>1 DEF Intents!GetIntent
    <3> QED BY <1>1, <1>3, <3>1 DEF BroughtInv
  <2>2. CASE c # Handler
    <3>1. call'[Handler] = call[Handler] /\ unheard' = unheard
          /\ \A d \in Intents!All : call'[d].pc = "apply" => call'[d] = call[d]
      BY <1>1, <1>2, <2>2
    <3>2. CASE intent' = intent
      BY <1>1, <1>3, <3>1, <3>2 DEF BroughtInv
    <3>3. CASE intent' # intent
      <4>1. astray'[s] /\ \A d \in Intents!All : call'[d].pc = "apply" => call'[d].slot # s
        BY <1>3, <3>1, <3>3 DEF VersionInv, CallInv
      <4> QED BY <1>1, <1>3, <3>1, <3>3, <4>1 DEF BroughtInv
    <3> QED BY <3>2, <3>3
  <2> QED BY <2>1, <2>2
<1> QED BY <1>4, <1>5, <1>6, <1>7, <1>8, <1>9

\* What others do to the membership.
LEMMA OthersKeep ==
    ASSUME IntentInv, NEW room \in Rooms, Intents!Invite(room) \/ Intents!Kick(room)
    PROVE  IntentInv'
<1>1. UNCHANGED <<registered, recorded, intent, used, knownJoinedRooms, due, astray>>
  BY DEF Intents!Invite, Intents!Kick, Intents!process, Intents!history
<1>2. member \subseteq Rooms /\ call \in [Intents!All -> Callings]
  BY DEF IntentInv, IntentTypes
<1>3. PICK calls \in [Intents!All -> Callings] : calls = call
  BY <1>2
<1>4. \E now \in SUBSET Rooms : \E gone :
          Intents!Moves(now, gone, calls) /\ (gone = {} => member \subseteq now)
  <2>1. CASE Intents!Invite(room)
    <3>1. PICK now \in SUBSET Rooms : now = member
      BY <1>2
    <3>2. Intents!Moves(now, {}, calls) /\ member \subseteq now
      BY <1>3, <2>1, <3>1 DEF Intents!Invite
    <3> QED BY <3>2
  <2>2. CASE Intents!Kick(room)
    <3>1. PICK now \in SUBSET Rooms : now = member \ {room}
      BY <1>2
    <3>2. Intents!Moves(now, {room}, calls) /\ {room} # {}
      BY <1>3, <2>2, <3>1 DEF Intents!Kick
    <3> QED BY <3>2
  <2> QED BY <2>1, <2>2
<1>5. PICK now \in SUBSET Rooms :
          \E gone : Intents!Moves(now, gone, calls) /\ (gone = {} => member \subseteq now)
  BY <1>4
<1>6. PICK gone : Intents!Moves(now, gone, calls) /\ (gone = {} => member \subseteq now)
  BY <1>5
<1>7. IntentTypes' /\ CallInv' /\ CalmInv' /\ VersionInv' /\ BroughtInv'
  BY <1>1, <1>3, <1>6, MoveKeeps
<1>8. \A d \in Intents!All : call'[d].pc = call[d].pc
  BY <1>3, <1>6, MovesEffect
<1>9. RecordInv'
  BY <1>1, <1>8 DEF IntentInv, RecordInv, Intents!All
<1> QED BY <1>7, <1>9 DEF IntentInv

LEMMA CrashKeeps ==
    ASSUME IntentInv, Intents!Crash \/ Intents!Evict
    PROVE  IntentInv'
<1> USE DEF IntentInv
<1>1. CASE Intents!Evict
  <2>1. /\ intent' = Nothing /\ Nothing \notin Slots
        /\ UNCHANGED <<registered, recorded, member, version, unheard, used, knownJoinedRooms,
                       call, due, astray>>
    BY <1>1, AppserviceAssumption DEF Intents!Evict, Intents!server, Intents!history
  <2>2. IntentTypes' /\ CallInv' /\ RecordInv'
    BY <2>1 DEF IntentTypes, CallInv, RecordInv
  <2>3. CalmInv' /\ VersionInv'
    BY <2>1 DEF CalmInv, Intents!Calm, VersionInv
  <2>4. BroughtInv'
    BY <2>1 DEF BroughtInv
  <2> QED BY <2>2, <2>3, <2>4
<1>2. CASE Intents!Crash
  <2>1. /\ intent' = Nothing /\ Nothing \notin Slots /\ used' = {}
        /\ knownJoinedRooms' = [s \in Slots |-> {}]
        /\ due' = [s \in Slots |-> 0] /\ astray' = [s \in Slots |-> TRUE]
        /\ UNCHANGED <<registered, recorded, member, version, unheard>>
        /\ call' = [c \in Intents!All |-> IF call[c].pc = "idle" THEN call[c] ELSE Intents!Ended(c)]
    BY <1>2, AppserviceAssumption DEF Intents!Crash, Intents!server
  <2>2. ASSUME NEW c \in Intents!All
        PROVE  /\ Intents!Ended(c) \in Callings
               /\ Intents!Ended(c).pc = (IF c = Handler THEN "idle" ELSE "done")
               /\ Intents!Ended(c).op = "member" /\ Intents!Ended(c).slot = Nothing
               /\ ~Intents!Ended(c).calm
    BY DEF Intents!Ended, Intents!Idle, Callings, Places
  <2>3. call' \in [Intents!All -> Callings]
    BY <2>1, <2>2 DEF IntentTypes
  <2>4. \A c \in Intents!All :
            call'[c].pc \in {"idle", "done"} /\ call'[c].slot = Nothing /\ ~call'[c].calm
    BY <2>1, <2>2 DEF CallInv
  <2>5. Handler \in Intents!All /\ Calls \subseteq Intents!All
    BY DEF Intents!All
  <2>6. call'[Handler].pc = "idle" /\ call'[Handler].op = "member"
    <3>1. CASE call[Handler].pc = "idle"
      BY <2>1, <2>5, <3>1 DEF CallInv
    <3>2. CASE call[Handler].pc # "idle"
      BY <2>1, <2>2, <2>5, <3>2
    <3> QED BY <3>1, <3>2
  <2>7. IntentTypes'
    BY <2>1, <2>3 DEF IntentTypes
  <2>8. CallInv'
    BY <2>4, <2>5, <2>6 DEF CallInv
  <2>9. RecordInv'
    BY <2>1, <2>4, <2>5 DEF RecordInv
  <2>10. CalmInv'
    BY <2>4 DEF CalmInv
  <2>11. VersionInv'
    BY <2>1, <2>4 DEF VersionInv, IntentTypes
  <2>12. BroughtInv'
    BY <2>1, <2>6 DEF BroughtInv
  <2> QED BY <2>7, <2>8, <2>9, <2>10, <2>11, <2>12
<1> QED BY <1>1, <1>2

LEMMA IntentKeeps ==
    ASSUME IntentInv, Intents!Next \/ UNCHANGED intentVars
    PROVE  IntentInv'
<1>1. CASE UNCHANGED intentVars
  <2>1. UNCHANGED <<registered, recorded, member, version, unheard, intent, used,
                    knownJoinedRooms, call, due, astray>>
    BY <1>1 DEF intentVars
  <2>2. IntentTypes' /\ CallInv' /\ RecordInv' /\ VersionInv' /\ BroughtInv'
    BY <2>1 DEF IntentInv, IntentTypes, CallInv, RecordInv, VersionInv, BroughtInv
  <2>3. CalmInv'
    BY <2>1 DEF IntentInv, CalmInv, Intents!Calm
  <2> QED BY <2>2, <2>3 DEF IntentInv
<1>2. ASSUME NEW c \in Calls, NEW op \in Intents!Ops, NEW r \in Rooms, NEW s \in Slots,
             Intents!Call(c, op, r, s)
      PROVE  IntentInv'
  <2>1. c \in Intents!All /\ c # Handler
    BY AppserviceAssumption DEF Intents!All
  <2>2. /\ call[c].pc = "idle"
        /\ Intents!GetIntent(s) \/ Intents!KeepIntent(s)
        /\ Intents!Begin(c, op, r, s, "registered")
        /\ UNCHANGED <<registered, recorded, member, version, unheard, due, astray>>
    BY <1>2 DEF Intents!Call, Intents!server, Intents!history
  <2> QED BY <2>1, <2>2, BeginKeeps
<1>3. ASSUME NEW s \in Slots, Intents!MembershipEvent(s)
      PROVE  IntentInv'
  <2>1. Handler \in Intents!All
    BY DEF Intents!All
  <2>2. /\ call[Handler].pc = "idle" /\ Intents!GetIntent(s)
        /\ unheard > 0 /\ unheard' = unheard - 1
        /\ Intents!Begin(Handler, "member", Nothing, s, "refresh")
        /\ UNCHANGED <<registered, recorded, member, version, due, astray>>
    BY <1>3 DEF Intents!MembershipEvent, Intents!history
  <2> QED BY <2>1, <2>2, BeginKeeps
<1>4. ASSUME NEW c \in Intents!All, Intents!CallStep(c)
      PROVE  IntentInv'
  <2>1. CASE Intents!Refresh(c)
    BY <2>1, RefreshKeeps
  <2>2. CASE Intents!RefreshFails(c)
    BY <2>2, RefreshFailsKeeps
  <2>3. CASE Intents!Apply(c)
    BY <2>3, ApplyKeeps
  <2>4. ASSUME call[c].pc \notin {"idle", "refresh", "apply"} PROVE c \in Calls
    BY <2>4 DEF Intents!All, IntentInv, CallInv
  <2>5. CASE Intents!Push(c)
    <3>1. c \in Calls
      BY <2>4, <2>5 DEF Intents!Push
    <3> QED BY <2>5, <3>1, PushKeeps
  <2>6. CASE Intents!Join(c) \/ Intents!JoinLost(c) \/ Intents!Leave(c)
    <3>1. c \in Calls
      BY <2>4, <2>6 DEF Intents!Join, Intents!JoinLost, Intents!Leave
    <3> QED BY <2>6, <3>1, JoinsKeep
  <2>7. CASE \/ Intents!CheckRegistered(c) \/ Intents!Register(c) \/ Intents!RegisterFails(c)
             \/ Intents!Record(c) \/ Intents!CheckKnown(c) \/ Intents!JoinFails(c)
             \/ Intents!Send(c)
    <3>1. c \in Calls
      BY <2>4, <2>7 DEF Intents!CheckRegistered, Intents!Register, Intents!RegisterFails,
         Intents!Record, Intents!CheckKnown, Intents!JoinFails, Intents!Send
    <3> QED BY <2>7, <3>1, AloneKeeps
  <2> QED BY <1>4, <2>1, <2>2, <2>3, <2>5, <2>6, <2>7 DEF Intents!CallStep
<1>5. ASSUME NEW r \in Rooms, Intents!Invite(r) \/ Intents!Kick(r)
      PROVE  IntentInv'
  BY <1>5, OthersKeep
<1>6. ASSUME Intents!Evict \/ Intents!Crash
      PROVE  IntentInv'
  BY <1>6, CrashKeeps
<1>7. CASE Intents!Next
  BY <1>2, <1>3, <1>4, <1>5, <1>6, <1>7 DEF Intents!Next
<1> QED BY <1>1, <1>7

\* For any rooms, Intents, calls and faults: what is sent through an Intent is
\* sent as a registered user and from inside the room, as long as nothing the
\* Intent believed at the call was false and the user left no room since.
THEOREM SentFromInside == PartsSpec => []SendsFromInside
<1> DEFINE Inv == part = "intents" => IntentInv
<1>1. PartsInit => Inv
  BY IntentStarts DEF PartsInit
<1>2. Inv /\ [PartsNext]_partsVars => Inv'
  BY IntentKeeps, PartSteps
<1>3. IntentInv => Intents!SendsFromInside
  <2>1. Calls \subseteq Intents!All
    BY DEF Intents!All
  <2> QED BY <2>1 DEF IntentInv, CalmInv, RecordInv, Intents!SendsFromInside
<1>4. Inv => SendsFromInside
  BY <1>3 DEF SendsFromInside
<1> QED BY <1>1, <1>2, <1>4, PTL DEF PartsSpec

\* For any rooms, Intents, calls and faults: once transactions have brought every
\* change and nothing is in flight, the Intent of the LRU knows exactly the rooms
\* the user is in, unless its last read failed or was overtaken.
THEOREM IntentKnows == PartsSpec => []KnownIsTrue
<1> DEFINE Inv == part = "intents" => IntentInv
<1>1. PartsInit => Inv
  BY IntentStarts DEF PartsInit
<1>2. Inv /\ [PartsNext]_partsVars => Inv'
  BY IntentKeeps, PartSteps
<1>3. IntentInv => Intents!KnownIsTrue
  <2> SUFFICES ASSUME IntentInv, Intents!Quiet, intent # Nothing, ~astray[intent]
               PROVE  knownJoinedRooms[intent] = member
    BY DEF Intents!KnownIsTrue
  <2>1. intent \in Slots /\ Handler \in Intents!All /\ version \in Nat /\ due[intent] \in Nat
    BY DEF IntentInv, IntentTypes, Intents!All
  <2>2. unheard = 0 /\ call[Handler].pc \in {"idle", "done"}
    BY <2>1 DEF Intents!Quiet
  <2>3. due[intent] + unheard >= version
    BY <2>1, <2>2 DEF IntentInv, BroughtInv
  <2>4. due[intent] <= version
    BY <2>1 DEF IntentInv, VersionInv
  <2>5. due[intent] = version
    BY <2>1, <2>2, <2>3, <2>4
  <2> QED BY <2>1, <2>5 DEF IntentInv, VersionInv
<1>4. Inv => KnownIsTrue
  BY <1>3 DEF KnownIsTrue
<1> QED BY <1>1, <1>2, <1>4, PTL DEF PartsSpec
=============================================================================
