----------------------------- MODULE ClientProofs -----------------------------
(***************************************************************************)
(* Theorems about the parts of a client, for any users, calls, rooms,       *)
(* bounds and faults. The operators of the parts have the prefix they have  *)
(* in ClientParts; each part has an inductive invariant of its own.         *)
(***************************************************************************)
EXTENDS ClientParts, FiniteSetTheorems, SequenceTheorems, WellFoundedInduction, TLAPS

-----------------------------------------------------------------------------
(* Only the chosen part takes steps                                         *)

LEMMA PartSteps ==
    ASSUME [PartsNext]_partsVars
    PROVE  /\ part' = part
           /\ part = "storages" => Storages!Next \/ UNCHANGED storagesVars
           /\ part = "profiles" => Profiles!Next \/ UNCHANGED profilesVars
           /\ part = "engine"   => Engine!Next   \/ UNCHANGED engineVars
           /\ part = "powers"   => Powers!Next   \/ UNCHANGED powersVars
           /\ part = "identity" => Identity!Next \/ UNCHANGED identityVars
           /\ part = "logins"   => Logins!Next   \/ UNCHANGED loginsVars
           /\ part = "sends"    => Sends!Next    \/ UNCHANGED sendsVars
           /\ part = "members"  => Members!Next  \/ UNCHANGED membersVars
           /\ part = "upgrades" => Upgrades!Next \/ UNCHANGED upgradesVars
           /\ part = "spaces"   => Spaces!Next   \/ UNCHANGED spacesVars
           /\ part = "server"   => Server!Next   \/ UNCHANGED serverVars
           /\ part = "requests" => Requests!Next \/ UNCHANGED requestsVars
           /\ part = "replies"  => Replies!Next  \/ UNCHANGED repliesVars
           /\ part = "timeline" => Timeline!Next \/ UNCHANGED timelineVars
<1>1. CASE UNCHANGED partsVars
  BY <1>1 DEF partsVars, oneHalf, otherHalf
<1>2. CASE PartsNext
  BY <1>2 DEF PartsNext
<1> QED BY <1>1, <1>2

-----------------------------------------------------------------------------
(* Room keys and the messages of the machine                                *)

EngineKeys == INSTANCE OutgoingRequestsProofs WITH
    Users <- Objects, Tasks <- Calls, Messages <- Objects, Nobody <- Nothing

LEMMA EngineStarts == Engine!Init => EngineKeys!Init
BY DEF Engine!New, EngineKeys!New, Engine!Init, EngineKeys!Init

LEMMA EngineSteps ==
    Engine!Next \/ UNCHANGED engineVars => [EngineKeys!Next]_EngineKeys!engineVars
<1>1. Engine!Next => EngineKeys!Next
  BY DEF Engine!At, EngineKeys!At, Engine!GoTo, EngineKeys!GoTo, Engine!End,
     EngineKeys!End, Engine!GetMembers, EngineKeys!GetMembers, Engine!Call,
     EngineKeys!Call, Engine!AcquireSync, EngineKeys!AcquireSync,
     Engine!KeysQuery, EngineKeys!KeysQuery, Engine!KeysClaim,
     EngineKeys!KeysClaim, Engine!RequestFails, EngineKeys!RequestFails,
     Engine!AcquireRoom, EngineKeys!AcquireRoom, Engine!ShareKey,
     EngineKeys!ShareKey, Engine!Shared, EngineKeys!Shared, Engine!Encrypt,
     EngineKeys!Encrypt, Engine!Outgoing, EngineKeys!Outgoing, Engine!Deliver,
     EngineKeys!Deliver, Engine!AnswerLost, EngineKeys!AnswerLost,
     Engine!MarkAsSent, EngineKeys!MarkAsSent, Engine!RunEnds,
     EngineKeys!RunEnds, Engine!JoinOrLeave, EngineKeys!JoinOrLeave,
     Engine!TaskStep, EngineKeys!TaskStep, Engine!Next, EngineKeys!Next,
     Engine!New, EngineKeys!New, Engine!machine, EngineKeys!machine,
     Engine!locks, EngineKeys!locks
<1>2. UNCHANGED engineVars => UNCHANGED EngineKeys!engineVars
  BY DEF engineVars, EngineKeys!engineVars, EngineKeys!machine, EngineKeys!locks
<1> QED BY <1>1, <1>2

\* Everyone in the room has its key before a message is encrypted, and the
\* machine's own messages arrive, once, with the exceptions the definition
\* names, whatever calls overlap and fail (RustEngine.run and prepareEncrypt,
\* src/src/e2ee/RustEngine.ts). It is the theorem KeysAndMessages of
\* OutgoingRequestsProofs, of this part of the client.
THEOREM KeysAreThere == PartsSpec => []MessagesHaveKeys
<1> DEFINE Inv == part = "engine" => EngineKeys!IInv
<1>1. PartsInit => Inv
  <2>1. Engine!Init => EngineKeys!IInv
    BY EngineStarts, EngineKeys!InitHolds
  <2> QED BY <2>1 DEF PartsInit
<1>2. Inv /\ [PartsNext]_partsVars => Inv'
  <2> SUFFICES ASSUME part = "engine", EngineKeys!IInv, [PartsNext]_partsVars
               PROVE  EngineKeys!IInv'
    BY PartSteps
  <2>1. [EngineKeys!Next]_EngineKeys!engineVars
    BY PartSteps, EngineSteps
  <2>2. Nothing \notin Calls
    BY ClientAssumption
  <2> QED BY <2>1, <2>2, EngineKeys!NextKeeps
<1>3. Inv => MessagesHaveKeys
  <2> SUFFICES ASSUME EngineKeys!IInv PROVE Engine!MessagesHaveKeys
    BY DEF MessagesHaveKeys
  <2>1. Engine!KeyBeforeMessage
    BY DEF EngineKeys!IInv, EngineKeys!KeyInv, EngineKeys!Keys,
           Engine!KeyBeforeMessage, Engine!At
  <2>2. Engine!SentForSure
    BY DEF EngineKeys!IInv, EngineKeys!MessageInv, EngineKeys!Sent,
           Engine!SentForSure
  <2> QED BY <2>1, <2>2 DEF Engine!MessagesHaveKeys
<1> QED BY <1>1, <1>2, <1>3, PTL DEF PartsSpec

-----------------------------------------------------------------------------
(* Profiles                                                                 *)

FetchRecords ==
    [pc : {"idle", "asked", "answered"}, entry : Profiles!Entries,
     profile : Nat \cup {Nothing, Blank}, late : BOOLEAN]

\* A general profile that a change left behind is being asked for.
Asked(e) ==
    e = "general" /\ \E f \in Calls : fetch[f].pc # "idle" /\ fetch[f].entry = e

\* The last change is the last event's. An answer in time is the present
\* profile, or an event is on its way that will mark it late; so is a cached one
\* that is neither late nor asked for again.
ProfileInv ==
    /\ profile \in [Profiles!Entries -> Nat]
    /\ profileEvents \in Seq(Nat)
    /\ cache \in [Profiles!Entries -> Nat \cup {Nothing, Blank}]
    /\ fetch \in [Calls -> FetchRecords]
    /\ profileEvents # <<>> => profileEvents[Len(profileEvents)] = profile["room"]
    /\ profileEvents = <<>> =>
           \A f \in Calls :
               fetch[f].pc = "answered" /\ ~fetch[f].late /\ fetch[f].profile # Blank =>
                   fetch[f].profile = profile[fetch[f].entry]
    /\ profileEvents = <<>> =>
           \A e \in Profiles!Entries :
               cache[e] \in {Nothing, profile[e]} \/ e \in overtaken \/ Asked(e)

LEMMA NewFetch ==
    ASSUME NEW e \in Profiles!Entries
    PROVE  \E new \in FetchRecords :
               /\ new = [Profiles!NoFetch EXCEPT !.pc = "asked", !.entry = e]
               /\ new.pc = "asked" /\ new.entry = e
<1>1. PICK none \in FetchRecords : none = Profiles!NoFetch
  BY DEF FetchRecords, Profiles!NoFetch, Profiles!Entries
<1>2. /\ [none EXCEPT !.pc = "asked", !.entry = e] \in FetchRecords
      /\ [none EXCEPT !.pc = "asked", !.entry = e].pc = "asked"
      /\ [none EXCEPT !.pc = "asked", !.entry = e].entry = e
  BY DEF FetchRecords
<1> QED BY <1>1, <1>2

LEMMA ProfileStarts == Profiles!Init => ProfileInv
<1> SUFFICES ASSUME Profiles!Init PROVE ProfileInv
  OBVIOUS
<1>1. Profiles!NoFetch \in FetchRecords /\ Profiles!NoFetch.pc = "idle"
  BY DEF Profiles!NoFetch, FetchRecords, Profiles!Entries
<1>2. \A f \in Calls : fetch[f].pc = "idle"
  BY <1>1 DEF Profiles!Init
<1>3. profileEvents = <<>> /\ \A e \in Profiles!Entries : cache[e] = Nothing
  BY DEF Profiles!Init
<1> QED BY <1>1, <1>2, <1>3 DEF Profiles!Init, ProfileInv

LEMMA ProfileChanges ==
    ASSUME ProfileInv, NEW entries \in {Profiles!Entries, {"room"}},
           Profiles!Change(entries)
    PROVE  ProfileInv'
<1>1. PICK n \in Nat : n = profile["room"] + 1
  BY DEF ProfileInv, Profiles!Entries
<1>2. /\ profile' = [e \in Profiles!Entries |-> IF e \in entries THEN n ELSE profile[e]]
      /\ profileEvents' = Append(profileEvents, n)
      /\ UNCHANGED <<cache, fetch, overtaken>>
  BY <1>1 DEF Profiles!Change
<1>3. "room" \in entries /\ "room" \in Profiles!Entries
  BY DEF Profiles!Entries
<1>4. profile' \in [Profiles!Entries -> Nat] /\ profile'["room"] = n
  BY <1>2, <1>3 DEF ProfileInv
<1>5. /\ profileEvents' \in Seq(Nat) /\ profileEvents' # <<>>
      /\ profileEvents'[Len(profileEvents')] = n
  <2>1. PICK s \in Seq(Nat) : s = profileEvents
    BY DEF ProfileInv
  <2>2. /\ Append(s, n) \in Seq(Nat) /\ Append(s, n) # <<>>
        /\ Append(s, n)[Len(Append(s, n))] = n
    OBVIOUS
  <2> QED BY <1>2, <2>1, <2>2
<1> QED BY <1>2, <1>4, <1>5 DEF ProfileInv

LEMMA ProfileFetches ==
    ASSUME ProfileInv, NEW f \in Calls,
           \/ \E e \in Profiles!Entries : Profiles!GetUserProfile(f, e)
           \/ Profiles!Answer(f) \/ Profiles!Fill(f)
    PROVE  ProfileInv'
<1>1. /\ profile' = profile /\ profileEvents' = profileEvents
      /\ profile \in [Profiles!Entries -> Nat] /\ profileEvents \in Seq(Nat)
      /\ cache \in [Profiles!Entries -> Nat \cup {Nothing, Blank}]
      /\ fetch \in [Calls -> FetchRecords]
  BY DEF ProfileInv, Profiles!GetUserProfile, Profiles!Answer, Profiles!Fill
<1>2. ASSUME NEW e \in Profiles!Entries, Profiles!GetUserProfile(f, e)
      PROVE  ProfileInv'
  <2>1. PICK new \in FetchRecords :
            /\ new = [Profiles!NoFetch EXCEPT !.pc = "asked", !.entry = e]
            /\ new.pc = "asked" /\ new.entry = e
    BY NewFetch
  <2>2. /\ fetch[f].pc = "idle" /\ fetch' = [fetch EXCEPT ![f] = new]
        /\ UNCHANGED <<cache, overtaken>>
    BY <1>2, <2>1 DEF Profiles!GetUserProfile, Profiles!Ask
  <2>3. /\ fetch' \in [Calls -> FetchRecords] /\ fetch'[f] = new
        /\ \A g \in Calls : g # f => fetch'[g] = fetch[g]
    BY <1>1, <2>1, <2>2
  <2>4. \A d \in Profiles!Entries : Asked(d) => Asked(d)'
    BY <2>2, <2>3 DEF Asked
  <2> QED BY <1>1, <2>1, <2>2, <2>3, <2>4 DEF ProfileInv
<1>3. ASSUME Profiles!Answer(f) PROVE ProfileInv'
  <2>1. /\ fetch[f].pc = "asked" /\ fetch[f].entry \in Profiles!Entries
        /\ UNCHANGED <<cache, overtaken>>
    BY <1>1, <1>3 DEF Profiles!Answer, FetchRecords
  <2>2. PICK p \in {profile[fetch[f].entry], Blank} :
            fetch' = [fetch EXCEPT ![f].pc = "answered", ![f].profile = p]
    BY <1>3 DEF Profiles!Answer
  <2>3. p \in Nat \cup {Nothing, Blank} /\ fetch[f] \in FetchRecords
    BY <1>1, <2>1
  <2>4. /\ fetch' \in [Calls -> FetchRecords]
        /\ fetch'[f].pc = "answered" /\ fetch'[f].profile = p
        /\ fetch'[f].entry = fetch[f].entry
        /\ \A g \in Calls : g # f => fetch'[g] = fetch[g]
    BY <1>1, <2>2, <2>3 DEF FetchRecords
  <2>5. \A d \in Profiles!Entries : Asked(d) => Asked(d)'
    BY <2>1, <2>4 DEF Asked
  <2> QED BY <1>1, <2>1, <2>2, <2>4, <2>5 DEF ProfileInv
<1>4. ASSUME Profiles!Fill(f) PROVE ProfileInv'
  <2>1. PICK e \in Profiles!Entries, p \in Nat \cup {Nothing, Blank} :
            e = fetch[f].entry /\ p = fetch[f].profile
    BY <1>1 DEF FetchRecords
  <2>2. /\ fetch[f].pc = "answered" /\ cache' = [cache EXCEPT ![e] = p]
        /\ fetch' = [fetch EXCEPT ![f] = Profiles!NoFetch]
        /\ overtaken' = IF fetch[f].late \/ p = Blank THEN overtaken \cup {e}
                        ELSE overtaken \ {e}
    BY <1>4, <2>1 DEF Profiles!Fill
  <2>3. Profiles!NoFetch \in FetchRecords /\ Profiles!NoFetch.pc = "idle"
    BY DEF Profiles!NoFetch, FetchRecords, Profiles!Entries
  <2>4. /\ fetch' \in [Calls -> FetchRecords] /\ fetch'[f].pc = "idle"
        /\ \A g \in Calls : g # f => fetch'[g] = fetch[g]
    BY <1>1, <2>2, <2>3
  <2>5. /\ cache' \in [Profiles!Entries -> Nat \cup {Nothing, Blank}]
        /\ cache'[e] = p /\ \A d \in Profiles!Entries : d # e => cache'[d] = cache[d]
    BY <1>1, <2>1, <2>2
  <2>6. profileEvents = <<>> => p = profile[e] \/ e \in overtaken'
    BY <2>1, <2>2 DEF ProfileInv
  <2>7. \A d \in Profiles!Entries : d # e =>
            (Asked(d) => Asked(d)') /\ (d \in overtaken => d \in overtaken')
    BY <2>1, <2>2, <2>4 DEF Asked
  <2> QED BY <1>1, <2>4, <2>5, <2>6, <2>7 DEF ProfileInv
<1> QED BY <1>2, <1>3, <1>4

\* An event marks the answers that are on their way, sets the profile in the
\* room and has the general one asked for.
LEMMA ProfileUpdates ==
    ASSUME ProfileInv, NEW f \in Calls, Profiles!TryUpdateProfile(f)
    PROVE  ProfileInv'
<1>1. /\ profile' = profile /\ profileEvents # <<>>
      /\ profileEvents' = Tail(profileEvents) /\ fetch[f].pc = "idle"
      /\ overtaken' = overtaken \ {"room"}
      /\ cache' = [cache EXCEPT !["room"] =
                      IF @ = Nothing THEN @ ELSE Head(profileEvents)]
      /\ profile \in [Profiles!Entries -> Nat] /\ profileEvents \in Seq(Nat)
      /\ cache \in [Profiles!Entries -> Nat \cup {Nothing, Blank}]
      /\ fetch \in [Calls -> FetchRecords]
      /\ "room" \in Profiles!Entries /\ "general" \in Profiles!Entries
      /\ profileEvents[Len(profileEvents)] = profile["room"]
  BY DEF ProfileInv, Profiles!TryUpdateProfile, Profiles!Entries
<1>2. /\ Head(profileEvents) \in Nat /\ profileEvents' \in Seq(Nat)
      /\ profileEvents' = <<>> => Head(profileEvents) = profile["room"]
      /\ profileEvents' # <<>> => profileEvents'[Len(profileEvents')] = profile["room"]
  <2>1. PICK s \in Seq(Nat) : s = profileEvents /\ s # <<>>
    BY <1>1
  <2>2. PICK t : t = Tail(s)
    OBVIOUS
  <2>3. /\ Head(s) \in Nat /\ Len(s) \in Nat \ {0} /\ Len(t) = Len(s) - 1
        /\ \A i \in 1..Len(t) : t[i] = s[i + 1]
        /\ Head(s) = s[1] /\ t \in Seq(Nat)
    BY <2>1, <2>2, HeadTailProperties
  <2>4. t = <<>> => Len(s) = 1
    BY <2>3
  <2>5. t # <<>> => Len(t) \in 1..Len(t) /\ t[Len(t)] = s[Len(s)]
    BY <2>3
  <2> QED BY <1>1, <2>1, <2>2, <2>3, <2>4, <2>5
<1>3. /\ cache' \in [Profiles!Entries -> Nat \cup {Nothing, Blank}]
      /\ cache'["room"] \in {Nothing, Head(profileEvents)}
      /\ cache'["general"] = cache["general"]
  BY <1>1, <1>2
<1>4. PICK over \in [Calls -> FetchRecords] :
          /\ over = Profiles!Overtake(fetch)
          /\ \A g \in Calls : over[g].pc = "answered" => over[g].late
  <2> DEFINE o == Profiles!Overtake(fetch)
  <2>1. \A g \in Calls : fetch[g] \in FetchRecords
    BY <1>1
  <2>2. \A g \in Calls : /\ [fetch[g] EXCEPT !.late = TRUE] \in FetchRecords
                         /\ [fetch[g] EXCEPT !.late = TRUE].late
    BY <2>1 DEF FetchRecords
  <2>3. o = [g \in Calls |-> IF fetch[g].pc = "answered"
                             THEN [fetch[g] EXCEPT !.late = TRUE] ELSE fetch[g]]
    BY DEF Profiles!Overtake
  <2>4. o \in [Calls -> FetchRecords]
    BY <2>1, <2>2, <2>3
  <2>5. ASSUME NEW g \in Calls, o[g].pc = "answered" PROVE o[g].late
    BY <2>1, <2>2, <2>3, <2>5
  <2> QED BY <2>4, <2>5
<1>5. PICK new \in FetchRecords :
          /\ new = [Profiles!NoFetch EXCEPT !.pc = "asked", !.entry = "general"]
          /\ new.pc = "asked" /\ new.entry = "general"
  BY <1>1, NewFetch
<1>6. fetch' = IF cache["general"] = Nothing THEN over ELSE [over EXCEPT ![f] = new]
  BY <1>4, <1>5 DEF Profiles!TryUpdateProfile
<1>7. /\ fetch' \in [Calls -> FetchRecords]
      /\ \A g \in Calls : fetch'[g].pc = "answered" => fetch'[g].late
      /\ cache["general"] # Nothing => fetch'[f] = new
  BY <1>4, <1>5, <1>6
<1>8. cache["general"] = Nothing \/ Asked("general")'
  BY <1>5, <1>7 DEF Asked
<1>9. \A e \in Profiles!Entries : e = "room" \/ e = "general"
  BY DEF Profiles!Entries
<1> QED BY <1>1, <1>2, <1>3, <1>7, <1>8, <1>9 DEF ProfileInv

LEMMA ProfileEvicts ==
    ASSUME ProfileInv, NEW e \in Profiles!Entries, Profiles!Evict(e)
    PROVE  ProfileInv'
<1>1. /\ UNCHANGED <<profile, profileEvents, fetch>>
      /\ cache' = [cache EXCEPT ![e] = Nothing] /\ overtaken' = overtaken \ {e}
  BY DEF Profiles!Evict
<1>2. \A d \in Profiles!Entries : Asked(d)' <=> Asked(d)
  BY <1>1 DEF Asked
<1> QED BY <1>1, <1>2 DEF ProfileInv

\* With every event seen and nothing in flight a cached profile is the current
\* one, unless an answer that an event overtook or a failed request set it,
\* whatever fetches overlap (ProfileCache, src/src/helpers/ProfileCache.ts).
THEOREM ProfilesAreCurrent == PartsSpec => []CacheIsCurrent
<1> DEFINE Inv == part = "profiles" => ProfileInv
<1>1. PartsInit => Inv
  BY ProfileStarts DEF PartsInit
<1>2. Inv /\ [PartsNext]_partsVars => Inv'
  <2> SUFFICES ASSUME part = "profiles", ProfileInv, [PartsNext]_partsVars PROVE ProfileInv'
    BY PartSteps
  <2>1. CASE Profiles!Next
    BY <2>1, ProfileChanges, ProfileFetches, ProfileUpdates, ProfileEvicts
       DEF Profiles!Next
  <2>2. CASE UNCHANGED profilesVars
    <3>1. \A e : Asked(e)' <=> Asked(e)
      BY <2>2 DEF profilesVars, Asked
    <3> QED BY <2>2, <3>1 DEF profilesVars, ProfileInv
  <2> QED BY <2>1, <2>2, PartSteps
<1>3. Inv => CacheIsCurrent
  BY DEF CacheIsCurrent, Profiles!CacheIsCurrent, ProfileInv, Asked
<1> QED BY <1>1, <1>2, <1>3, PTL DEF PartsSpec

-----------------------------------------------------------------------------
(* Power levels                                                             *)

Everyone == {Me} \cup Others

PowerEvents ==
    [users : [Everyone -> Powers!Maybe], users_default : Powers!Maybe,
     state_default : {Nothing, 0}, events_default : {Nothing, 0},
     events : [Powers!Types -> {Nothing, 100}], actions : [Actions -> {Nothing, 0}]]

PowerRecords ==
    [pc : {"idle", "write", "read", "told"}, user : Everyone, level : Powers!Maybe,
     read : PowerEvents \cup {Nothing}, stable : BOOLEAN, can : BOOLEAN, max : Int]

\* The client may write the levels, as the homeserver sees it.
MayWrite(pl) == Powers!UserHasPowerLevelFor(pl, Me, "m.room.power_levels", TRUE)

\* What was read is what there is, as long as nothing changed.
Current(pl, k) ==
    /\ k.pc = "write" => k.read = pl
    /\ k.pc = "read" => MayWrite(pl)
    /\ k.pc = "told" =>
           \/ ~MayWrite(pl) /\ ~k.can
           \/ /\ MayWrite(pl) /\ k.max = Powers!Or(pl.users[Me], 0)
              /\ k.can <=> (k.user = Me \/ Powers!Or(pl.users[k.user], 0) < k.max)

PowerInv ==
    /\ levels \in PowerEvents
    /\ levelCall \in [PowerCalls -> PowerRecords]
    /\ \A c \in PowerCalls :
           /\ levelCall[c].stable => Current(levels, levelCall[c])
           /\ levelCall[c].pc = "write" =>
                  levelCall[c].read \in PowerEvents /\ levelCall[c].level \in Levels
    /\ ~undone

LEMMA LevelsAreIntegers ==
    /\ \A l \in Powers!Maybe, d \in Int : Powers!Or(l, d) \in Int
    /\ \A l \in {Nothing, 0}, d \in Int : Powers!Or(l, d) \in Int
    /\ \A l \in {Nothing, 100}, d \in Int : Powers!Or(l, d) \in Int
    /\ \A l \in Levels, d \in Int : Powers!Or(l, d) = l
BY ClientAssumption DEF Powers!Or, Powers!Maybe

LEMMA NoPowerCall ==
    /\ Powers!NoCall \in PowerRecords /\ Powers!NoCall.pc = "idle"
    /\ Powers!NoCall.can = FALSE /\ Powers!NoCall.stable = TRUE
BY DEF Powers!NoCall, PowerRecords, Everyone, Powers!Maybe

LEMMA PowersStart == Powers!Init => PowerInv
<1> SUFFICES ASSUME Powers!Init PROVE PowerInv
  OBVIOUS
<1>1. levels \in PowerEvents /\ ~undone
  BY DEF Powers!Init, PowerEvents, Everyone
<1>2. levelCall = [c \in PowerCalls |-> Powers!NoCall]
  BY DEF Powers!Init
<1> QED BY <1>1, <1>2, NoPowerCall DEF PowerInv, Current

\* One user's level is set.
LEMMA LevelSet ==
    ASSUME NEW pl \in PowerEvents, NEW u \in Everyone, NEW l \in Levels
    PROVE  \E new \in PowerEvents :
               /\ new = [pl EXCEPT !.users[u] = l] /\ new.users[u] = l
               /\ \A v \in Everyone : v # u => new.users[v] = pl.users[v]
<1>1. pl.users \in [Everyone -> Powers!Maybe]
  BY DEF PowerEvents
<1>2. PICK us \in [Everyone -> Powers!Maybe] :
          /\ us = [pl.users EXCEPT ![u] = l] /\ us[u] = l
          /\ \A v \in Everyone : v # u => us[v] = pl.users[v]
  <2> DEFINE f == [pl.users EXCEPT ![u] = l]
  <2>1. /\ f \in [Everyone -> Powers!Maybe] /\ f[u] = l
        /\ \A v \in Everyone : v # u => f[v] = pl.users[v]
    BY <1>1 DEF Powers!Maybe
  <2> QED BY <2>1
<1>3. /\ [pl EXCEPT !.users[u] = l] = [pl EXCEPT !.users = us]
      /\ [pl EXCEPT !.users = us] \in PowerEvents
      /\ [pl EXCEPT !.users = us].users = us
  BY <1>2 DEF PowerEvents
<1> QED BY <1>2, <1>3

\* A change leaves no call that is under way with what it read.
LEMMA AfterChange ==
    ASSUME NEW k \in [PowerCalls -> PowerRecords]
    PROVE  \E new \in [PowerCalls -> PowerRecords] :
               /\ new = Powers!Changed(k)
               /\ \A c \in PowerCalls :
                      /\ new[c].pc = k[c].pc /\ new[c].read = k[c].read
                      /\ new[c].level = k[c].level
                      /\ new[c].pc # "idle" => ~new[c].stable
<1>1. \A c \in PowerCalls : k[c] \in PowerRecords
  OBVIOUS
<1>2. \A r \in PowerRecords :
          LET s == [r EXCEPT !.stable = FALSE]
          IN s \in PowerRecords /\ s.pc = r.pc /\ s.read = r.read
             /\ s.level = r.level /\ ~s.stable
  BY DEF PowerRecords
<1> DEFINE new == Powers!Changed(k)
<1>3. new = [c \in PowerCalls |-> IF k[c].pc = "idle" THEN k[c]
                                  ELSE [k[c] EXCEPT !.stable = FALSE]]
  BY DEF Powers!Changed
<1>4. new \in [PowerCalls -> PowerRecords]
  BY <1>1, <1>2, <1>3
<1>5. \A c \in PowerCalls :
          /\ new[c].pc = k[c].pc /\ new[c].read = k[c].read
          /\ new[c].level = k[c].level
          /\ new[c].pc # "idle" => ~new[c].stable
  BY <1>1, <1>2, <1>3
<1> QED BY <1>4, <1>5

LEMMA PowersChange ==
    ASSUME PowerInv, NEW u \in Everyone, NEW l \in Levels, Powers!OthersChange(u, l)
    PROVE  PowerInv'
<1>1. PICK new \in PowerEvents : new = [levels EXCEPT !.users[u] = l]
  BY LevelSet DEF PowerInv
<1>2. PICK k \in [PowerCalls -> PowerRecords] :
          /\ k = Powers!Changed(levelCall)
          /\ \A c \in PowerCalls :
                 /\ k[c].pc = levelCall[c].pc /\ k[c].read = levelCall[c].read
                 /\ k[c].level = levelCall[c].level
                 /\ k[c].pc # "idle" => ~k[c].stable
  BY AfterChange DEF PowerInv
<1>3. levels' = new /\ levelCall' = k /\ undone' = undone
  BY <1>1, <1>2 DEF Powers!OthersChange
<1> QED BY <1>2, <1>3 DEF PowerInv, Current

\* A call takes a step of its own and nothing else changes.
LEMMA PowerCallMoves ==
    ASSUME PowerInv, NEW c \in PowerCalls, NEW k \in PowerRecords,
           levelCall' = [levelCall EXCEPT ![c] = k], UNCHANGED <<levels, undone>>,
           k.stable => Current(levels, k),
           k.pc = "write" => k.read \in PowerEvents /\ k.level \in Levels
    PROVE  PowerInv'
<1>1. /\ levelCall' \in [PowerCalls -> PowerRecords] /\ levelCall'[c] = k
      /\ \A d \in PowerCalls : d # c => levelCall'[d] = levelCall[d]
  BY DEF PowerInv
<1>2. \A d \in PowerCalls : levelCall'[d].stable => Current(levels, levelCall'[d])
  BY <1>1 DEF PowerInv
<1> QED BY <1>1, <1>2 DEF PowerInv, Current

LEMMA PowersSet ==
    ASSUME PowerInv, NEW c \in PowerCalls, NEW u \in Everyone, NEW l \in Levels,
           Powers!SetUserPowerLevel(c, u, l)
    PROVE  PowerInv'
<1>1. PICK none \in PowerRecords : none = Powers!NoCall
  BY NoPowerCall
<1>2. PICK k \in PowerRecords :
          /\ k = [none EXCEPT !.pc = "write", !.user = u, !.level = l, !.read = levels]
          /\ k.pc = "write" /\ k.read = levels /\ k.level = l
  <2>1. /\ [none EXCEPT !.pc = "write", !.user = u, !.level = l, !.read = levels] \in PowerRecords
        /\ [none EXCEPT !.pc = "write", !.user = u, !.level = l, !.read = levels].pc = "write"
        /\ [none EXCEPT !.pc = "write", !.user = u, !.level = l, !.read = levels].read = levels
        /\ [none EXCEPT !.pc = "write", !.user = u, !.level = l, !.read = levels].level = l
    BY DEF PowerRecords, PowerInv, Powers!Maybe
  <2> QED BY <2>1
<1>3. levelCall' = [levelCall EXCEPT ![c] = k] /\ UNCHANGED <<levels, undone>>
  BY <1>1, <1>2 DEF Powers!SetUserPowerLevel
<1> QED BY <1>2, <1>3, PowerCallMoves DEF Current, PowerInv

LEMMA PowersWritten ==
    ASSUME PowerInv, NEW c \in PowerCalls, Powers!Write(c)
    PROVE  PowerInv'
<1>1. /\ levelCall[c].pc = "write" /\ levelCall[c] \in PowerRecords
      /\ levelCall[c].read \in PowerEvents /\ levelCall[c].level \in Levels
      /\ levelCall[c].user \in Everyone
      /\ levelCall[c].stable => levelCall[c].read = levels
  BY DEF PowerInv, Powers!Write, PowerRecords, Current
<1>2. PICK read \in PowerEvents, u \in Everyone, l \in Levels :
          read = levelCall[c].read /\ u = levelCall[c].user /\ l = levelCall[c].level
  BY <1>1
<1>3. PICK new \in PowerEvents :
          /\ new = [read EXCEPT !.users[u] = l]
          /\ \A v \in Everyone : v # u => new.users[v] = read.users[v]
  BY LevelSet
<1>4. new = Powers!NewLevels(levelCall[c].read, levelCall[c].user, levelCall[c].level)
  BY <1>2, <1>3 DEF Powers!NewLevels
<1>5. PICK none \in PowerRecords :
          none = Powers!NoCall /\ none.pc = "idle" /\ none.stable
  BY NoPowerCall
<1>6. CASE levels' = levels
  <2>1. ~undone'
    <3>1. undone' => undone \/ (levelCall[c].stable
                     /\ \E v \in Everyone \ {u} : new.users[v] # levels.users[v])
      BY <1>2, <1>4 DEF Powers!Write, Everyone
    <3> QED BY <1>1, <1>2, <1>3, <3>1 DEF PowerInv
  <2>2. CASE levelCall' = [levelCall EXCEPT ![c] = none]
    BY <1>5, <1>6, <2>1, <2>2, PowerCallMoves DEF Current, PowerInv
  <2>3. levelCall' = [levelCall EXCEPT ![c] = none]
    BY <1>4, <1>5, <1>6 DEF Powers!Write
  <2> QED BY <2>2, <2>3
<1>7. CASE levels' # levels
  <2>1. PICK k \in [PowerCalls -> PowerRecords] :
            /\ k = Powers!Changed(levelCall)
            /\ \A d \in PowerCalls :
                   /\ k[d].pc = levelCall[d].pc /\ k[d].read = levelCall[d].read
                   /\ k[d].level = levelCall[d].level
                   /\ k[d].pc # "idle" => ~k[d].stable
    BY AfterChange DEF PowerInv
  <2>2. levels' = new /\ levelCall' = [k EXCEPT ![c] = none]
    BY <1>4, <1>5, <1>7, <2>1 DEF Powers!Write
  <2>3. ~undone'
    <3>1. undone' => undone \/ (levelCall[c].stable
                     /\ \E v \in Everyone \ {u} : new.users[v] # levels.users[v])
      BY <1>2, <1>4, <1>7 DEF Powers!Write, Everyone
    <3> QED BY <1>1, <1>2, <1>3, <3>1 DEF PowerInv
  <2>4. /\ levelCall' \in [PowerCalls -> PowerRecords] /\ levelCall'[c] = none
        /\ \A d \in PowerCalls : d # c => levelCall'[d] = k[d]
    BY <1>5, <2>1, <2>2
  <2> QED BY <1>5, <2>1, <2>2, <2>3, <2>4 DEF PowerInv, Current
<1> QED BY <1>6, <1>7

LEMMA PowersCalculated ==
    ASSUME PowerInv, NEW c \in PowerCalls,
           \/ \E u \in Everyone : Powers!CalculateBounds(c, u)
           \/ Powers!Bounds(c) \/ Powers!Forget(c)
    PROVE  PowerInv'
<1>1. PICK none \in PowerRecords :
          none = Powers!NoCall /\ none.pc = "idle" /\ ~none.can
  BY NoPowerCall
<1>2. ASSUME NEW u \in Everyone, Powers!CalculateBounds(c, u) PROVE PowerInv'
  <2>1. PICK p \in {"read", "told"} : p = IF MayWrite(levels) THEN "read" ELSE "told"
    OBVIOUS
  <2>2. PICK k \in PowerRecords :
            /\ k = [none EXCEPT !.user = u, !.pc = p]
            /\ k.pc = p /\ ~k.can
    <3>1. /\ [none EXCEPT !.user = u, !.pc = p] \in PowerRecords
          /\ [none EXCEPT !.user = u, !.pc = p].pc = p
          /\ [none EXCEPT !.user = u, !.pc = p].can = none.can
      BY DEF PowerRecords
    <3> QED BY <1>1, <3>1
  <2>3. levelCall' = [levelCall EXCEPT ![c] = k] /\ UNCHANGED <<levels, undone>>
    BY <1>1, <1>2, <2>1, <2>2 DEF Powers!CalculateBounds, MayWrite
  <2>4. Current(levels, k)
    BY <2>1, <2>2 DEF Current
  <2>5. k.pc # "write"
    BY <2>2
  <2> QED BY <2>3, <2>4, <2>5, PowerCallMoves
<1>3. ASSUME Powers!Bounds(c) PROVE PowerInv'
  <2> DEFINE target == Powers!Or(levels.users[levelCall[c].user], 0)
             mine == Powers!Or(levels.users[Me], 0)
  <2>1. levelCall[c] \in PowerRecords /\ levelCall[c].pc = "read"
        /\ levels.users \in [Everyone -> Powers!Maybe]
    BY <1>3 DEF PowerInv, Powers!Bounds, PowerEvents
  <2>2. levelCall[c].user \in Everyone /\ Me \in Everyone
    BY <2>1 DEF PowerRecords, Everyone
  <2>3. target \in Int /\ mine \in Int
    BY <2>1, <2>2, LevelsAreIntegers
  <2>4. PICK m \in Int, b \in BOOLEAN :
            m = mine /\ b = (levelCall[c].user = Me \/ target < mine)
    BY <2>3
  <2>5. PICK k \in PowerRecords :
            /\ k = [levelCall[c] EXCEPT !.pc = "told", !.max = m, !.can = b]
            /\ k.pc = "told" /\ k.max = m /\ k.can = b
            /\ k.user = levelCall[c].user /\ k.stable = levelCall[c].stable
    <3>1. PICK r \in PowerRecords : r = levelCall[c]
      BY <2>1
    <3>2. /\ [r EXCEPT !.pc = "told", !.max = m, !.can = b] \in PowerRecords
          /\ [r EXCEPT !.pc = "told", !.max = m, !.can = b].pc = "told"
          /\ [r EXCEPT !.pc = "told", !.max = m, !.can = b].max = m
          /\ [r EXCEPT !.pc = "told", !.max = m, !.can = b].can = b
          /\ [r EXCEPT !.pc = "told", !.max = m, !.can = b].user = r.user
          /\ [r EXCEPT !.pc = "told", !.max = m, !.can = b].stable = r.stable
      BY DEF PowerRecords
    <3> QED BY <3>1, <3>2
  <2>6. levelCall' = [levelCall EXCEPT ![c] = k] /\ UNCHANGED <<levels, undone>>
    BY <1>3, <2>1, <2>4, <2>5 DEF Powers!Bounds, PowerInv
  <2>7. k.stable => Current(levels, k)
    BY <2>1, <2>4, <2>5 DEF PowerInv, Current
  <2>8. k.pc # "write"
    BY <2>5
  <2> QED BY <2>6, <2>7, <2>8, PowerCallMoves
<1>4. ASSUME Powers!Forget(c) PROVE PowerInv'
  <2>1. levelCall' = [levelCall EXCEPT ![c] = none] /\ UNCHANGED <<levels, undone>>
    BY <1>1, <1>4 DEF Powers!Forget
  <2> QED BY <1>1, <2>1, PowerCallMoves DEF Current
<1> QED BY <1>2, <1>3, <1>4

LEMMA PowersAgree == PowerInv => Powers!GettersAgree
<1> SUFFICES ASSUME PowerInv PROVE Powers!GettersAgree
  OBVIOUS
<1> QED BY LevelsAreIntegers DEF Powers!GettersAgree, Powers!UserHasPowerLevelForAction,
        Powers!ActionGetter, Powers!UserLevel, Powers!DefaultGetter, Powers!EventLevel,
        Powers!Or

LEMMA BoundsAreTrue == PowerInv => Powers!BoundsHold
<1> SUFFICES ASSUME PowerInv, NEW c \in PowerCalls,
                    levelCall[c].pc = "told", levelCall[c].stable,
                    Powers!Or(levels.users_default, 0) = 0, NEW l \in Levels
             PROVE  LET u == levelCall[c].user
                        Accepts == Powers!Allowed(levels, Powers!NewLevels(levels, u, l))
                    IN /\ levelCall[c].can => (Accepts <=> l <= levelCall[c].max)
                       /\ ~levelCall[c].can /\ levels.users[u] \notin {l, Nothing} => ~Accepts
  BY DEF Powers!BoundsHold
<1>1. /\ levels \in PowerEvents /\ levelCall[c] \in PowerRecords
      /\ Current(levels, levelCall[c])
  BY DEF PowerInv
<1>2. PICK u \in Everyone, m \in Int :
          u = levelCall[c].user /\ m = Powers!Or(levels.users[Me], 0)
  BY <1>1, LevelsAreIntegers DEF PowerRecords, PowerEvents, Everyone
<1>3. PICK new \in PowerEvents :
          /\ new = [levels EXCEPT !.users[u] = l] /\ new.users[u] = l
          /\ \A v \in Everyone : v # u => new.users[v] = levels.users[v]
  BY <1>1, LevelSet
<1>4. new = Powers!NewLevels(levels, u, l) /\ Powers!UserLevel(levels, Me) = m
  BY <1>2, <1>3 DEF Powers!NewLevels, Powers!UserLevel
<1>5. Powers!Or(new.users[u], -1) = l
  BY <1>3, LevelsAreIntegers
<1>6. Powers!Allowed(levels, new) <=>
          /\ MayWrite(levels)
          /\ l # levels.users[u] =>
                 /\ u # Me => Powers!Or(levels.users[u], -1) < m
                 /\ l <= m
  BY <1>1, <1>2, <1>3, <1>4, <1>5 DEF Powers!Allowed, MayWrite, Everyone
<1>7. /\ l \in Int
      /\ levels.users[u] = Nothing =>
             Powers!Or(levels.users[u], -1) = -1 /\ Powers!Or(levels.users[u], 0) = 0
      /\ levels.users[u] # Nothing =>
             /\ levels.users[u] \in Int
             /\ Powers!Or(levels.users[u], -1) = levels.users[u]
             /\ Powers!Or(levels.users[u], 0) = levels.users[u]
      /\ l # Nothing
  BY <1>1, ClientAssumption DEF Powers!Or, PowerEvents, Powers!Maybe
<1>8. \/ ~MayWrite(levels) /\ ~levelCall[c].can
      \/ /\ MayWrite(levels) /\ levelCall[c].max = m
         /\ levelCall[c].can <=> (u = Me \/ Powers!Or(levels.users[u], 0) < m)
  BY <1>1, <1>2 DEF Current
<1>9. levelCall[c].can => (Powers!Allowed(levels, new) <=> l <= levelCall[c].max)
  BY <1>2, <1>6, <1>7, <1>8
<1>10. ~levelCall[c].can /\ levels.users[u] \notin {l, Nothing} => ~Powers!Allowed(levels, new)
  BY <1>2, <1>6, <1>7, <1>8
<1> QED BY <1>2, <1>4, <1>9, <1>10

\* Whatever others change meanwhile, the bounds that are told are those of the
\* homeserver while nothing changed, no other user's level is undone, and the
\* getters give what is required, with the exceptions the definition names
\* (setUserPowerLevel and calculatePowerLevelChangeBoundsOn,
\* src/src/MatrixClient.ts, and src/src/models/events/PowerLevelsEvent.ts).
THEOREM PowersHold == PartsSpec => []PowerIsAsTold
<1> DEFINE Inv == part = "powers" => PowerInv
<1>1. PartsInit => Inv
  BY PowersStart DEF PartsInit, PowersInit
<1>2. Inv /\ [PartsNext]_partsVars => Inv'
  <2> SUFFICES ASSUME part = "powers", PowerInv, [PartsNext]_partsVars PROVE PowerInv'
    BY PartSteps
  <2>1. CASE Powers!Next
    BY <2>1, PowersChange, PowersSet, PowersWritten, PowersCalculated
       DEF Powers!Next, Everyone
  <2>2. CASE UNCHANGED powersVars
    BY <2>2 DEF powersVars, PowerInv
  <2> QED BY <2>1, <2>2, PartSteps
<1>3. Inv => PowerIsAsTold
  BY BoundsAreTrue, PowersAgree
     DEF PowerIsAsTold, Powers!PowerIsAsTold, Powers!NothingUndone, PowerInv
<1> QED BY <1>1, <1>2, <1>3, PTL DEF PartsSpec

-----------------------------------------------------------------------------
(* Sent events                                                              *)

SendRecords ==
    [client : Objects, fn : Sends!Functions,
     pc : {"sent", "answered", "returned", "failed"},
     txn : (Sends!Functions \X Nat \X Nat) \cup {Nothing}, time : Nat,
     result : Nat \cup {Nothing}]

SendTypes ==
    /\ now \in Nat /\ requestId \in [Objects -> Nat]
    /\ calls \in Seq(SendRecords) /\ events \in Seq(Nat)
    /\ answered \subseteq DOMAIN calls

\* Requests of one client differ: in the time, or in its counter, which is
\* higher than any it used in this millisecond.
TxnsDiffer ==
    /\ \A n \in DOMAIN calls : calls[n].txn # Nothing =>
           /\ calls[n].txn[2] = calls[n].time /\ calls[n].time <= now
           /\ calls[n].time = now => calls[n].txn[3] <= requestId[calls[n].client]
    /\ \A n, m \in DOMAIN calls :
           n # m /\ calls[n].txn = calls[m].txn /\ calls[n].txn # Nothing =>
               calls[n].client # calls[m].client

\* The events are those of the calls acted on, one for a transaction ID.
EventsAreAnswers ==
    /\ \A i \in DOMAIN events : events[i] \in answered
    /\ \A n \in answered : \E i \in DOMAIN events : events[i] = n
    /\ \A i, j \in DOMAIN events :
           i # j /\ events[i] = events[j] => calls[events[i]].txn = Nothing
    /\ \A n, m \in answered :
           calls[n].txn # Nothing /\ calls[n].txn = calls[m].txn => n = m

\* A call is answered with its own event or with that of its transaction ID.
ResultsAreAnswers ==
    \A n \in DOMAIN calls : calls[n].pc \in {"answered", "returned"} =>
        /\ calls[n].result \in answered
        /\ \/ calls[n].result = n
           \/ calls[n].txn # Nothing /\ calls[calls[n].result].txn = calls[n].txn

SendInv == SendTypes /\ TxnsDiffer /\ EventsAreAnswers /\ ResultsAreAnswers

\* t is s with e after it.
Appends(s, e, t) ==
    /\ t = Append(s, e)
    /\ \A i \in DOMAIN s : i \in DOMAIN t /\ t[i] = s[i]
    /\ \A i \in DOMAIN t : i \in DOMAIN s \/ t[i] = e
    /\ \A i, j \in DOMAIN t : i \in DOMAIN s \/ j \in DOMAIN s \/ i = j
    /\ \E i \in DOMAIN t : t[i] = e

LEMMA Appended ==
    ASSUME NEW S, NEW s \in Seq(S), NEW e \in S
    PROVE  \E t \in Seq(S) : Appends(s, e, t)
<1> DEFINE t == Append(s, e)
<1>1. /\ Len(s) \in Nat /\ DOMAIN s = 1..Len(s) /\ t \in Seq(S)
      /\ Len(t) = Len(s) + 1 /\ DOMAIN t = 1..Len(t)
      /\ \A i \in 1..Len(s) : t[i] = s[i]
      /\ t[Len(s) + 1] = e
  BY AppendProperties
<1>2. t = Append(s, e)
  OBVIOUS
<1> HIDE DEF t
<1>3. /\ \A i \in DOMAIN s : i \in DOMAIN t /\ t[i] = s[i]
      /\ \A i \in DOMAIN t : i \in DOMAIN s \/ i = Len(s) + 1
      /\ Len(s) + 1 \in DOMAIN t
  BY <1>1
<1>4. /\ \A i \in DOMAIN t : i \in DOMAIN s \/ t[i] = e
      /\ \A i, j \in DOMAIN t : i \in DOMAIN s \/ j \in DOMAIN s \/ i = j
      /\ \E i \in DOMAIN t : t[i] = e
  BY <1>1, <1>3
<1>5. Appends(s, e, t)
  BY <1>2, <1>3, <1>4 DEF Appends
<1> QED BY <1>1, <1>5

\* The record of a call.
LEMMA CallRecord ==
    ASSUME SendTypes, NEW n \in DOMAIN calls
    PROVE  /\ n \in Nat /\ calls[n] \in SendRecords
           /\ calls[n].client \in Objects /\ calls[n].time \in Nat
           /\ calls[n].result \in Nat \cup {Nothing}
           /\ calls[n].txn # Nothing => calls[n].txn[3] \in Nat
<1>1. PICK s \in Seq(SendRecords) : s = calls
  BY DEF SendTypes
<1>2. n \in Nat /\ s[n] \in SendRecords
  BY <1>1
<1>3. PICK r \in SendRecords : r = calls[n]
  BY <1>1, <1>2
<1>4. \A t \in Sends!Functions \X Nat \X Nat : t[3] \in Nat
  OBVIOUS
<1> QED BY <1>1, <1>2, <1>3, <1>4 DEF SendRecords

LEMMA SendsStart == Sends!Init => SendInv
<1> SUFFICES ASSUME Sends!Init PROVE SendInv
  OBVIOUS
<1>1. SendTypes
  BY DEF Sends!Init, SendTypes
<1>2. calls = <<>> /\ events = <<>> /\ answered = {}
  BY DEF Sends!Init
<1>3. DOMAIN calls = {} /\ DOMAIN events = {}
  BY <1>2
<1> QED BY <1>1, <1>2, <1>3 DEF SendInv, TxnsDiffer, EventsAreAnswers, ResultsAreAnswers

\* Time passes, and a client may be made anew.
LEMMA TimePasses ==
    ASSUME SendInv, Sends!Tick \/ \E c \in Objects : Sends!NewClient(c)
    PROVE  SendInv'
<1>1. /\ now \in Nat /\ now' = now + 1 /\ UNCHANGED <<calls, events, answered>>
      /\ requestId' \in [Objects -> Nat]
  <2>1. now \in Nat /\ requestId \in [Objects -> Nat]
    BY DEF SendInv, SendTypes
  <2>2. CASE Sends!Tick
    BY <2>1, <2>2 DEF Sends!Tick
  <2>3. ASSUME NEW c \in Objects, Sends!NewClient(c)
        PROVE  /\ now' = now + 1 /\ UNCHANGED <<calls, events, answered>>
               /\ requestId' \in [Objects -> Nat]
    BY <2>1, <2>3 DEF Sends!NewClient
  <2> QED BY <2>1, <2>2, <2>3
<1>2. SendTypes'
  BY <1>1 DEF SendInv, SendTypes
<1>3. ASSUME NEW n \in DOMAIN calls, calls[n].txn # Nothing
      PROVE  /\ calls[n].txn[2] = calls[n].time
             /\ calls[n].time <= now + 1 /\ calls[n].time # now + 1
  <2>1. calls[n].time \in Nat
    BY CallRecord DEF SendInv
  <2> QED BY <1>1, <1>3, <2>1 DEF SendInv, TxnsDiffer
<1>4. TxnsDiffer'
  BY <1>1, <1>3 DEF SendInv, TxnsDiffer
<1> QED BY <1>1, <1>2, <1>4 DEF SendInv, EventsAreAnswers, ResultsAreAnswers

LEMMA Sending ==
    ASSUME SendInv, NEW c \in Objects, NEW fn \in Sends!Functions, Sends!Send(c, fn)
    PROVE  SendInv'
<1>1. PICK k \in Nat : k = IF fn = "sendStateEvent" THEN requestId[c]
                           ELSE requestId[c] + 1
  BY DEF SendInv, SendTypes
<1>2. PICK txn \in (Sends!Functions \X Nat \X Nat) \cup {Nothing} :
          /\ txn = IF fn = "sendStateEvent" THEN Nothing ELSE <<fn, now, k>>
          /\ txn # Nothing => fn # "sendStateEvent" /\ txn[2] = now /\ txn[3] = k
  <2>1. now \in Nat
    BY DEF SendInv, SendTypes
  <2>2. PICK id : id = <<fn, now, k>>
    OBVIOUS
  <2>3. id \in Sends!Functions \X Nat \X Nat /\ id[2] = now /\ id[3] = k
    BY <2>1, <2>2
  <2> QED BY <2>2, <2>3
<1>3. PICK new \in SendRecords :
          /\ new = [client |-> c, fn |-> fn, pc |-> "sent", txn |-> txn,
                    time |-> now, result |-> Nothing]
          /\ new.client = c /\ new.pc = "sent" /\ new.txn = txn /\ new.time = now
  <2>1. now \in Nat
    BY DEF SendInv, SendTypes
  <2>2. PICK r : r = [client |-> c, fn |-> fn, pc |-> "sent", txn |-> txn,
                      time |-> now, result |-> Nothing]
    OBVIOUS
  <2>3. /\ r \in SendRecords /\ r.client = c /\ r.pc = "sent" /\ r.txn = txn
        /\ r.time = now
    BY <2>1, <2>2 DEF SendRecords
  <2> QED BY <2>2, <2>3
<1>4. /\ requestId' = [requestId EXCEPT ![c] = k] /\ calls' = Append(calls, new)
      /\ UNCHANGED <<now, events, answered>>
  BY <1>1, <1>2, <1>3 DEF Sends!Send, Sends!TxnId
<1>5. PICK s \in Seq(SendRecords) : s = calls
  BY DEF SendInv, SendTypes
<1>6. PICK t \in Seq(SendRecords) : Appends(s, new, t)
  BY Appended
<1>8. /\ DOMAIN calls \subseteq DOMAIN calls'
      /\ \A n \in DOMAIN calls : calls'[n] = calls[n]
      /\ \A n \in DOMAIN calls' : n \in DOMAIN calls \/ calls'[n] = new
      /\ \A n, m \in DOMAIN calls' : n \in DOMAIN calls \/ m \in DOMAIN calls \/ n = m
      /\ calls' \in Seq(SendRecords)
  BY <1>4, <1>5, <1>6 DEF Appends
<1>9. SendTypes'
  BY <1>4, <1>8 DEF SendInv, SendTypes
<1>10. \A d \in Objects : requestId[d] \in Nat /\ requestId'[d] \in Nat
                          /\ requestId[d] <= requestId'[d]
  BY <1>1, <1>4 DEF SendInv, SendTypes
<1>11. ASSUME NEW n \in DOMAIN calls, calls[n].txn # Nothing
       PROVE  /\ calls[n].txn[2] = calls[n].time /\ calls[n].time <= now
              /\ calls[n].time = now => calls[n].txn[3] <= requestId'[calls[n].client]
              /\ calls[n].client = c => calls[n].txn # txn
  <2>1. calls[n].client \in Objects
    BY CallRecord DEF SendInv
  <2>2. calls[n].txn[3] \in Nat
    BY <1>11, CallRecord DEF SendInv
  <2>3. /\ calls[n].txn[2] = calls[n].time /\ calls[n].time <= now
        /\ calls[n].time = now => calls[n].txn[3] <= requestId[calls[n].client]
    BY <1>11 DEF SendInv, TxnsDiffer
  <2>4. requestId[calls[n].client] \in Nat /\ requestId'[calls[n].client] \in Nat
        /\ requestId[calls[n].client] <= requestId'[calls[n].client]
    BY <1>10, <2>1
  <2>5. ASSUME calls[n].client = c, calls[n].txn = txn PROVE FALSE
    <3>1. calls[n].txn[2] = now /\ calls[n].txn[3] = k /\ k = requestId[c] + 1
      BY <1>1, <1>2, <1>11, <2>5
    <3> QED BY <2>2, <2>3, <2>4, <2>5, <3>1
  <2> QED BY <2>2, <2>3, <2>4, <2>5
<1>12. TxnsDiffer'
  <2>1. ASSUME NEW n \in DOMAIN calls', calls'[n].txn # Nothing
        PROVE  /\ calls'[n].txn[2] = calls'[n].time /\ calls'[n].time <= now'
               /\ calls'[n].time = now' => calls'[n].txn[3] <= requestId'[calls'[n].client]
    <3>1. CASE n \in DOMAIN calls
      BY <1>4, <1>8, <1>11, <2>1, <3>1
    <3>2. CASE calls'[n] = new
      <4>1. requestId'[c] = k /\ now \in Nat
        BY <1>4 DEF SendInv, SendTypes
      <4> QED BY <1>2, <1>3, <1>4, <2>1, <3>2, <4>1
    <3> QED BY <1>8, <3>1, <3>2
  <2>2. ASSUME NEW n \in DOMAIN calls', NEW m \in DOMAIN calls', n # m,
               calls'[n].txn = calls'[m].txn, calls'[n].txn # Nothing
        PROVE  calls'[n].client # calls'[m].client
    <3>1. CASE n \in DOMAIN calls /\ m \in DOMAIN calls
      BY <1>8, <2>2, <3>1 DEF SendInv, TxnsDiffer
    <3>2. CASE n \in DOMAIN calls /\ calls'[m] = new
      BY <1>3, <1>8, <1>11, <2>2, <3>2
    <3>3. CASE m \in DOMAIN calls /\ calls'[n] = new
      BY <1>3, <1>8, <1>11, <2>2, <3>3
    <3> QED BY <1>8, <2>2, <3>1, <3>2, <3>3
  <2> QED BY <2>1, <2>2 DEF TxnsDiffer
<1>13. EventsAreAnswers'
  <2>1. answered \subseteq DOMAIN calls /\ \A i \in DOMAIN events : events[i] \in DOMAIN calls
    BY DEF SendInv, SendTypes, EventsAreAnswers
  <2> QED BY <1>4, <1>8, <2>1 DEF SendInv, EventsAreAnswers
<1>14. ResultsAreAnswers'
  <2>1. answered \subseteq DOMAIN calls
    BY DEF SendInv, SendTypes
  <2> QED BY <1>3, <1>4, <1>8, <2>1 DEF SendInv, ResultsAreAnswers
<1> QED BY <1>9, <1>12, <1>13, <1>14 DEF SendInv

\* A request arrives: the homeserver acts on it or takes it for a repetition.
LEMMA Received ==
    ASSUME SendTypes, EventsAreAnswers, NEW n \in DOMAIN calls,
           \/ Sends!Repeated(n) /\ UNCHANGED <<events, answered>>
           \/ ~Sends!Repeated(n) /\ events' = Append(events, n)
              /\ answered' = answered \cup {n},
           DOMAIN calls' = DOMAIN calls,
           \A m \in DOMAIN calls : calls'[m].txn = calls[m].txn
    PROVE  /\ EventsAreAnswers' /\ events' \in Seq(Nat) /\ answered' \subseteq DOMAIN calls
           /\ answered \subseteq answered'
<1>1. /\ \A i \in DOMAIN events : events[i] \in answered
      /\ answered \subseteq DOMAIN calls /\ DOMAIN calls \subseteq Nat
  BY CallRecord DEF SendTypes, EventsAreAnswers
<1>2. CASE Sends!Repeated(n) /\ UNCHANGED <<events, answered>>
  <2>1. \A i \in DOMAIN events : events[i] \in DOMAIN calls
    BY <1>1
  <2>2. /\ \A i \in DOMAIN events' : events'[i] \in answered'
        /\ \A m \in answered' : \E i \in DOMAIN events' : events'[i] = m
    BY <1>2 DEF EventsAreAnswers
  <2>3. \A i, j \in DOMAIN events' :
            i # j /\ events'[i] = events'[j] => calls'[events'[i]].txn = Nothing
    BY <1>2, <2>1 DEF EventsAreAnswers
  <2>4. \A m, l \in answered' :
            calls'[m].txn # Nothing /\ calls'[m].txn = calls'[l].txn => m = l
    BY <1>1, <1>2 DEF EventsAreAnswers
  <2> QED BY <1>1, <1>2, <2>2, <2>3, <2>4 DEF SendTypes, EventsAreAnswers
<1>3. CASE ~Sends!Repeated(n) /\ events' = Append(events, n) /\ answered' = answered \cup {n}
  <2>1. PICK s \in Seq(Nat) : s = events
    BY DEF SendTypes
  <2>2. n \in Nat
    BY <1>1
  <2>3. PICK t \in Seq(Nat) : Appends(s, n, t)
    BY <2>2, Appended
  <2>4. /\ events' \in Seq(Nat)
        /\ \A i \in DOMAIN events : i \in DOMAIN events' /\ events'[i] = events[i]
        /\ \A i \in DOMAIN events' : i \in DOMAIN events \/ events'[i] = n
        /\ \A i, j \in DOMAIN events' : i \in DOMAIN events \/ j \in DOMAIN events \/ i = j
        /\ \E i \in DOMAIN events' : events'[i] = n
    BY <1>3, <2>1, <2>3 DEF Appends
  <2>5. \A m \in answered : calls[n].txn # Nothing => calls[m].txn # calls[n].txn
    BY <1>3 DEF Sends!Repeated
  <2>6. n \in answered => calls[n].txn = Nothing
    BY <2>5
  <2>7. \A i \in DOMAIN events' : events'[i] \in answered'
    BY <1>1, <1>3, <2>4
  <2>8. \A m \in answered' : \E i \in DOMAIN events' : events'[i] = m
    BY <1>3, <2>4 DEF EventsAreAnswers
  <2>9. ASSUME NEW i \in DOMAIN events', NEW j \in DOMAIN events', i # j,
               events'[i] = events'[j]
        PROVE  calls'[events'[i]].txn = Nothing
    <3>1. CASE i \in DOMAIN events /\ j \in DOMAIN events
      <4>1. /\ events'[i] = events[i] /\ events[i] \in DOMAIN calls
            /\ calls[events[i]].txn = Nothing
        BY <1>1, <2>4, <2>9, <3>1 DEF EventsAreAnswers
      <4> QED BY <4>1
    <3>2. CASE events'[i] = n /\ (i \in DOMAIN events \/ j \in DOMAIN events)
      BY <1>1, <2>4, <2>6, <2>9, <3>2
    <3> QED BY <2>4, <2>9, <3>1, <3>2
  <2>10. \A m, l \in answered' :
             calls'[m].txn # Nothing /\ calls'[m].txn = calls'[l].txn => m = l
    BY <1>1, <1>3, <2>5 DEF EventsAreAnswers
  <2> QED BY <1>1, <1>3, <2>4, <2>7, <2>8, <2>9, <2>10 DEF EventsAreAnswers
<1> QED BY <1>2, <1>3

\* A call gets on; who made it, when and with what ID stay.
LEMMA CallGetsOn ==
    ASSUME SendTypes, NEW n \in DOMAIN calls,
           NEW stage \in {"answered", "returned", "failed"},
           NEW reply \in Nat \cup {Nothing},
           calls' = [calls EXCEPT ![n].pc = stage, ![n].result = reply]
    PROVE  /\ calls' \in Seq(SendRecords) /\ DOMAIN calls' = DOMAIN calls
           /\ calls'[n].pc = stage /\ calls'[n].result = reply
           /\ \A m \in DOMAIN calls : m # n => calls'[m] = calls[m]
           /\ \A m \in DOMAIN calls :
                  /\ calls'[m].txn = calls[m].txn /\ calls'[m].time = calls[m].time
                  /\ calls'[m].client = calls[m].client
<1>1. PICK s \in Seq(SendRecords) : s = calls
  BY DEF SendTypes
<1>2. PICK r \in SendRecords : r = s[n]
  BY <1>1, CallRecord
<1>3. PICK new \in SendRecords :
          /\ new = [r EXCEPT !.pc = stage, !.result = reply]
          /\ new.pc = stage /\ new.result = reply
          /\ new.txn = r.txn /\ new.time = r.time /\ new.client = r.client
  <2>1. /\ [r EXCEPT !.pc = stage, !.result = reply] \in SendRecords
        /\ [r EXCEPT !.pc = stage, !.result = reply].pc = stage
        /\ [r EXCEPT !.pc = stage, !.result = reply].result = reply
        /\ [r EXCEPT !.pc = stage, !.result = reply].txn = r.txn
        /\ [r EXCEPT !.pc = stage, !.result = reply].time = r.time
        /\ [r EXCEPT !.pc = stage, !.result = reply].client = r.client
    BY DEF SendRecords
  <2> QED BY <2>1
<1>4. calls' = [s EXCEPT ![n] = new]
  BY <1>1, <1>2, <1>3
<1>5. PICK t : t = [s EXCEPT ![n] = new]
  OBVIOUS
<1>6. t \in Seq(SendRecords)
  BY <1>1, <1>5, ExceptSeq
<1>7. DOMAIN t = DOMAIN s /\ t[n] = new /\ \A m \in DOMAIN s : m # n => t[m] = s[m]
  BY <1>1, <1>5
<1> QED BY <1>1, <1>2, <1>3, <1>4, <1>5, <1>6, <1>7

LEMMA TxnsStay ==
    ASSUME TxnsDiffer, DOMAIN calls' = DOMAIN calls, UNCHANGED <<now, requestId>>,
           \A m \in DOMAIN calls :
               /\ calls'[m].txn = calls[m].txn /\ calls'[m].time = calls[m].time
               /\ calls'[m].client = calls[m].client
    PROVE  TxnsDiffer'
BY DEF TxnsDiffer

LEMMA Delivering ==
    ASSUME SendInv, NEW n \in DOMAIN calls, Sends!Deliver(n)
    PROVE  SendInv'
<1>1. DOMAIN calls \subseteq Nat /\ answered \subseteq DOMAIN calls
  BY CallRecord DEF SendInv, SendTypes
<1>2. PICK reply \in Nat :
          /\ reply = IF Sends!Repeated(n) THEN Sends!FirstOf(n) ELSE n
          /\ ~Sends!Repeated(n) => reply = n
          /\ Sends!Repeated(n) =>
                 reply \in answered /\ calls[reply].txn = calls[n].txn /\ calls[n].txn # Nothing
  <2>1. CASE Sends!Repeated(n)
    <3>1. Sends!FirstOf(n) \in answered /\ calls[Sends!FirstOf(n)].txn = calls[n].txn
          /\ calls[n].txn # Nothing
      BY <2>1 DEF Sends!Repeated, Sends!FirstOf
    <3> QED BY <1>1, <2>1, <3>1
  <2>2. CASE ~Sends!Repeated(n)
    BY <1>1, <2>2
  <2> QED BY <2>1, <2>2
<1>3. /\ calls' = [calls EXCEPT ![n].pc = "answered", ![n].result = reply]
      /\ UNCHANGED <<now, requestId>>
      /\ \/ Sends!Repeated(n) /\ UNCHANGED <<events, answered>>
         \/ ~Sends!Repeated(n) /\ events' = Append(events, n)
            /\ answered' = answered \cup {n}
  BY <1>2 DEF Sends!Deliver, Sends!Receive
<1>4. /\ calls' \in Seq(SendRecords) /\ DOMAIN calls' = DOMAIN calls
      /\ calls'[n].pc = "answered" /\ calls'[n].result = reply
      /\ \A m \in DOMAIN calls : m # n => calls'[m] = calls[m]
      /\ \A m \in DOMAIN calls :
             /\ calls'[m].txn = calls[m].txn /\ calls'[m].time = calls[m].time
             /\ calls'[m].client = calls[m].client
  BY <1>3, CallGetsOn DEF SendInv
<1>5. /\ EventsAreAnswers' /\ events' \in Seq(Nat) /\ answered' \subseteq DOMAIN calls
      /\ answered \subseteq answered'
  BY <1>3, <1>4, Received DEF SendInv
<1>6. TxnsDiffer'
  BY <1>3, <1>4, TxnsStay DEF SendInv
<1>7. SendTypes'
  BY <1>3, <1>4, <1>5 DEF SendInv, SendTypes
<1>8. ResultsAreAnswers'
  <2>1. ASSUME NEW m \in DOMAIN calls, m # n, calls'[m].pc \in {"answered", "returned"}
        PROVE  /\ calls'[m].result \in answered'
               /\ \/ calls'[m].result = m
                  \/ calls'[m].txn # Nothing /\ calls'[calls'[m].result].txn = calls'[m].txn
    <3>1. /\ calls[m].result \in answered
          /\ \/ calls[m].result = m
             \/ calls[m].txn # Nothing /\ calls[calls[m].result].txn = calls[m].txn
      BY <1>4, <2>1 DEF SendInv, ResultsAreAnswers
    <3> QED BY <1>1, <1>4, <1>5, <2>1, <3>1
  <2>2. /\ calls'[n].result \in answered'
        /\ \/ calls'[n].result = n
           \/ calls'[n].txn # Nothing /\ calls'[calls'[n].result].txn = calls'[n].txn
    BY <1>1, <1>2, <1>3, <1>4
  <2> QED BY <1>4, <2>1, <2>2 DEF ResultsAreAnswers
<1> QED BY <1>5, <1>6, <1>7, <1>8 DEF SendInv

LEMMA DeliveringAgain ==
    ASSUME SendInv, NEW n \in DOMAIN calls, Sends!DeliverAgain(n)
    PROVE  SendInv'
<1>1. /\ UNCHANGED <<now, requestId, calls>>
      /\ \/ Sends!Repeated(n) /\ UNCHANGED <<events, answered>>
         \/ ~Sends!Repeated(n) /\ events' = Append(events, n)
            /\ answered' = answered \cup {n}
  BY DEF Sends!DeliverAgain
<1>2. /\ EventsAreAnswers' /\ events' \in Seq(Nat) /\ answered' \subseteq DOMAIN calls
      /\ answered \subseteq answered'
  BY <1>1, Received DEF SendInv
<1> QED BY <1>1, <1>2 DEF SendInv, SendTypes, TxnsDiffer, ResultsAreAnswers

LEMMA SendEnds ==
    ASSUME SendInv, NEW n \in DOMAIN calls, Sends!Return(n) \/ Sends!Fail(n)
    PROVE  SendInv'
<1>1. PICK s \in Seq(SendRecords) : s = calls
  BY DEF SendInv, SendTypes
<1>2. PICK r \in SendRecords, reply \in Nat \cup {Nothing} :
          r = calls[n] /\ reply = r.result
  BY CallRecord DEF SendInv
<1>3. /\ UNCHANGED <<now, requestId, events, answered>>
      /\ \E stage \in {"returned", "failed"} :
             /\ calls' = [calls EXCEPT ![n].pc = stage]
             /\ stage = "returned" => calls[n].pc = "answered"
  BY DEF Sends!Return, Sends!Fail
<1>4. PICK stage \in {"returned", "failed"} :
          /\ calls' = [calls EXCEPT ![n].pc = stage]
          /\ stage = "returned" => calls[n].pc = "answered"
  BY <1>3
<1>5. calls' = [calls EXCEPT ![n].pc = stage, ![n].result = reply]
  <2>1. [r EXCEPT !.pc = stage] = [r EXCEPT !.pc = stage, !.result = reply]
    BY <1>2 DEF SendRecords
  <2> QED BY <1>1, <1>2, <1>4, <2>1
<1>6. /\ calls' \in Seq(SendRecords) /\ DOMAIN calls' = DOMAIN calls
      /\ calls'[n].pc = stage /\ calls'[n].result = reply
      /\ \A m \in DOMAIN calls : m # n => calls'[m] = calls[m]
      /\ \A m \in DOMAIN calls :
             /\ calls'[m].txn = calls[m].txn /\ calls'[m].time = calls[m].time
             /\ calls'[m].client = calls[m].client
  BY <1>5, CallGetsOn DEF SendInv
<1>7. TxnsDiffer'
  BY <1>3, <1>6, TxnsStay DEF SendInv
<1>8. answered \subseteq DOMAIN calls /\ \A i \in DOMAIN events : events[i] \in DOMAIN calls
  BY DEF SendInv, SendTypes, EventsAreAnswers
<1>9. EventsAreAnswers'
  BY <1>3, <1>6, <1>8 DEF SendInv, EventsAreAnswers
<1>10. ResultsAreAnswers'
  <2>1. ASSUME NEW m \in DOMAIN calls, calls'[m].pc \in {"answered", "returned"}
        PROVE  /\ calls[m].pc \in {"answered", "returned"}
               /\ calls'[m].result = calls[m].result
    BY <1>2, <1>4, <1>6, <2>1
  <2> QED BY <1>3, <1>6, <1>8, <2>1 DEF SendInv, ResultsAreAnswers
<1> QED BY <1>3, <1>6, <1>7, <1>9, <1>10 DEF SendInv, SendTypes

\* How often the homeserver acted on a call, from whether and where.
LEMMA TimesActed ==
    ASSUME SendTypes, NEW n
    PROVE  /\ (\A i, j \in DOMAIN events : events[i] = n /\ events[j] = n => i = j) =>
                  Sends!Times(n) <= 1
           /\ (\E i \in DOMAIN events : events[i] = n) => Sends!Times(n) > 0
<1> DEFINE T == {i \in DOMAIN events : events[i] = n}
<1>1. IsFiniteSet(T) /\ Cardinality(T) \in Nat
  <2>1. PICK s \in Seq(Nat) : s = events
    BY DEF SendTypes
  <2>2. T \subseteq 1..Len(s) /\ Len(s) \in Nat
    BY <2>1
  <2>3. IsFiniteSet(1..Len(s))
    BY <2>2, FS_Interval
  <2>4. IsFiniteSet(T)
    BY <2>2, <2>3, FS_Subset
  <2> QED BY <2>4, FS_CardinalityType
<1> HIDE DEF T
<1>2. ASSUME \A i, j \in T : i = j PROVE Cardinality(T) <= 1
  <2>1. CASE T = {}
    BY <2>1, FS_EmptySet
  <2>2. CASE T # {}
    <3>1. PICK i : T = {i}
      BY <1>2, <2>2
    <3> QED BY <3>1, FS_Singleton
  <2> QED BY <2>1, <2>2
<1>3. T # {} => Cardinality(T) > 0
  BY <1>1, FS_EmptySet
<1>4. Sends!Times(n) = Cardinality(T)
  BY DEF Sends!Times, Sends!Cardinality, Cardinality, T
<1>5. ASSUME \A i, j \in DOMAIN events : events[i] = n /\ events[j] = n => i = j
      PROVE  Sends!Times(n) <= 1
  <2>1. \A i, j \in T : i = j
    BY <1>5 DEF T
  <2> QED BY <1>2, <1>4, <2>1
<1>6. (\E i \in DOMAIN events : events[i] = n) => T # {}
  BY DEF T
<1> QED BY <1>3, <1>4, <1>5, <1>6

\* A call with a transaction ID is acted on at most once and returns its own
\* event, unless another client sent in the same millisecond, whatever is lost,
\* repeated or restarted (sendEvent and getNextTxnId via makeTxnId,
\* src/src/MatrixClient.ts).
THEOREM SendsHold == PartsSpec => []SentOnce
<1> DEFINE Inv == part = "sends" => SendInv
<1>1. PartsInit => Inv
  BY SendsStart DEF PartsInit
<1>2. Inv /\ [PartsNext]_partsVars => Inv'
  <2> SUFFICES ASSUME part = "sends", SendInv, [PartsNext]_partsVars PROVE SendInv'
    BY PartSteps
  <2>1. CASE Sends!Next
    BY <2>1, TimePasses, Sending, Delivering, DeliveringAgain, SendEnds DEF Sends!Next
  <2>2. CASE UNCHANGED sendsVars
    BY <2>2 DEF sendsVars, SendInv, SendTypes, TxnsDiffer, EventsAreAnswers,
                ResultsAreAnswers
  <2> QED BY <2>1, <2>2, PartSteps
<1>3. Inv => SentOnce
  <2> SUFFICES ASSUME SendInv, NEW n \in DOMAIN calls
               PROVE  /\ calls[n].txn # Nothing => Sends!Times(n) <= 1
                      /\ calls[n].pc = "returned" =>
                             \/ calls[n].result = n /\ Sends!Times(n) > 0
                             \/ \E m \in DOMAIN calls : Sends!Coincide(n, m)
    BY DEF SentOnce, Sends!SentOnce
  <2>1. calls[n].txn # Nothing => Sends!Times(n) <= 1
    BY TimesActed DEF SendInv, EventsAreAnswers
  <2>2. ASSUME calls[n].pc = "returned", calls[n].result = n PROVE Sends!Times(n) > 0
    BY <2>2, TimesActed DEF SendInv, EventsAreAnswers, ResultsAreAnswers
  <2>3. ASSUME calls[n].pc = "returned", calls[n].result # n
        PROVE  \E m \in DOMAIN calls : Sends!Coincide(n, m)
    <3>1. PICK m \in DOMAIN calls :
              m = calls[n].result /\ calls[m].txn = calls[n].txn /\ calls[n].txn # Nothing
      BY <2>3 DEF SendInv, SendTypes, ResultsAreAnswers
    <3> QED BY <2>3, <3>1 DEF SendInv, TxnsDiffer, Sends!Coincide
  <2> QED BY <2>1, <2>2, <2>3
<1> QED BY <1>1, <1>2, <1>3, PTL DEF PartsSpec

-----------------------------------------------------------------------------
(* What a client remembers of itself and its server                         *)

Answers == Nat \cup Others \cup {Me, Nothing}

IdentityRecords ==
    [pc : {"idle", "asked", "answered", "told"},
     fn : {"getUserId", "getWhoAmI", "getServerVersions", Nothing},
     user : Others \cup {Nothing}, device : Values \cup {Nothing}, at : Nat,
     value : Answers]

IdentityTypes ==
    /\ impersonatedUserId \in Others \cup {Nothing}
    /\ impersonatedDeviceId \in Values \cup {Nothing}
    /\ userId \in Others \cup {Me, Nothing}
    /\ cachedVersions \in Nat \cup {Nothing} /\ versionsLastFetched \in Nat
    /\ clock \in Nat
    /\ identityCall \in [Calls -> IdentityRecords]
    /\ given \in [Others -> Values \cup {Nothing}]

\* A request is within its timeout, an answer with versions as old as the
\* request at most, and versions told as old as the cache and a request.
InTime(k) ==
    /\ k.pc \in {"asked", "answered"} => k.at <= clock /\ clock - k.at <= Timeout
    /\ k.pc = "answered" /\ k.fn = "getServerVersions" =>
           k.value \in Nat /\ k.at <= k.value /\ k.value <= clock
    /\ k.pc = "answered" /\ k.fn # "getServerVersions" => k.value \in Others \cup {Me}
    /\ k.pc = "told" /\ k.fn = "getServerVersions" =>
           k.value \in Nat /\ clock - k.value < VersionsCacheMs + Timeout

IdentityInv ==
    /\ IdentityTypes
    /\ \A c \in Calls : InTime(identityCall[c])
    /\ cachedVersions # Nothing =>
           /\ cachedVersions \in Nat /\ versionsLastFetched <= clock
           /\ versionsLastFetched - cachedVersions <= Timeout
    /\ Identity!RemembersItself /\ Identity!DeviceOfUser

\* The records that calls get.
LEMMA NoIdentityCall ==
    /\ Identity!NoCall \in IdentityRecords /\ Identity!NoCall.pc = "idle"
BY DEF Identity!NoCall, IdentityRecords, Answers

LEMMA IdentityStarts == Identity!Init => IdentityInv
<1> SUFFICES ASSUME Identity!Init PROVE IdentityInv
  OBVIOUS
<1>1. PICK none \in IdentityRecords : none = Identity!NoCall /\ none.pc = "idle"
  BY NoIdentityCall
<1>2. identityCall = [c \in Calls |-> none]
  BY <1>1 DEF Identity!Init
<1>3. IdentityTypes /\ \A c \in Calls : InTime(identityCall[c])
  BY <1>1, <1>2 DEF Identity!Init, IdentityTypes, InTime
<1> QED BY <1>3 DEF Identity!Init, IdentityInv, Identity!RemembersItself, Identity!DeviceOfUser

LEMMA Impersonating ==
    ASSUME IdentityInv, NEW user \in Others \cup {Nothing}, NEW device \in Values \cup {Nothing},
           Identity!ImpersonateUserId(user, device)
    PROVE  IdentityInv'
<1>1. /\ UNCHANGED <<cachedVersions, versionsLastFetched, clock, identityCall>>
      /\ impersonatedUserId' = user /\ userId' = user /\ ~late'
      /\ impersonatedDeviceId' \in {impersonatedDeviceId, device}
      /\ misused' <=> (user = Nothing /\ device # Nothing)
      /\ ~misused' => impersonatedDeviceId' = device
      /\ given' = IF user \in Others THEN [given EXCEPT ![user] = device] ELSE given
  BY DEF Identity!ImpersonateUserId, Identity!UserIdAfter
<1>2. given' \in [Others -> Values \cup {Nothing}] /\ (user \in Others => given'[user] = device)
  BY <1>1 DEF IdentityInv, IdentityTypes
<1>3. IdentityTypes'
  BY <1>1, <1>2 DEF IdentityInv, IdentityTypes
<1>4. Identity!RemembersItself'
  BY <1>1 DEF Identity!RemembersItself, Identity!Acting
<1>5. Identity!DeviceOfUser'
  BY <1>1, <1>2 DEF Identity!DeviceOfUser
<1> QED BY <1>1, <1>3, <1>4, <1>5 DEF IdentityInv, InTime

\* A call takes a step; who the client is stays.
LEMMA IdentityCallMoves ==
    ASSUME IdentityInv, NEW c \in Calls, NEW k \in IdentityRecords,
           identityCall' = [identityCall EXCEPT ![c] = k],
           UNCHANGED <<impersonatedUserId, impersonatedDeviceId, userId, cachedVersions,
                       versionsLastFetched, clock, given, misused, late>>,
           InTime(k)
    PROVE  IdentityInv'
<1>1. /\ identityCall' \in [Calls -> IdentityRecords] /\ identityCall'[c] = k
      /\ \A d \in Calls : d # c => identityCall'[d] = identityCall[d]
  BY DEF IdentityInv, IdentityTypes
<1>2. \A d \in Calls : InTime(identityCall[d])'
  BY <1>1 DEF IdentityInv, InTime
<1> QED BY <1>1, <1>2 DEF IdentityInv, IdentityTypes, Identity!RemembersItself,
           Identity!Acting, Identity!DeviceOfUser

LEMMA AskedRecord ==
    ASSUME IdentityTypes, NEW fn \in {"getUserId", "getWhoAmI", "getServerVersions"}
    PROVE  \E k \in IdentityRecords :
               /\ k = [Identity!NoCall EXCEPT !.pc = "asked", !.fn = fn, !.at = clock,
                           !.user = impersonatedUserId, !.device = impersonatedDeviceId]
               /\ k.pc = "asked" /\ k.fn = fn /\ k.at = clock
<1>1. PICK none \in IdentityRecords : none = Identity!NoCall
  BY NoIdentityCall
<1>2. PICK k : k = [none EXCEPT !.pc = "asked", !.fn = fn, !.at = clock,
                        !.user = impersonatedUserId, !.device = impersonatedDeviceId]
  OBVIOUS
<1>3. k \in IdentityRecords /\ k.pc = "asked" /\ k.fn = fn /\ k.at = clock
  BY <1>2 DEF IdentityRecords, IdentityTypes
<1> QED BY <1>1, <1>2, <1>3

Told(fn, v) ==
    [Identity!NoCall EXCEPT !.pc = "told", !.fn = fn, !.at = clock, !.value = v]

LEMMA ToldRecord ==
    ASSUME IdentityTypes, NEW fn \in {"getUserId", "getServerVersions"}, NEW v \in Answers
    PROVE  /\ Told(fn, v) \in IdentityRecords
           /\ Told(fn, v).pc = "told" /\ Told(fn, v).fn = fn /\ Told(fn, v).value = v
<1>1. PICK none \in IdentityRecords : none = Identity!NoCall
  BY NoIdentityCall
<1>2. PICK k : k = [none EXCEPT !.pc = "told", !.fn = fn, !.at = clock, !.value = v]
  OBVIOUS
<1>3. k \in IdentityRecords /\ k.pc = "told" /\ k.fn = fn /\ k.value = v
  BY <1>2 DEF IdentityRecords, IdentityTypes
<1> QED BY <1>1, <1>2, <1>3 DEF Told

LEMMA IdentityAsking ==
    ASSUME IdentityInv, NEW c \in Calls,
           Identity!GetUserId(c) \/ Identity!GetWhoAmI(c) \/ Identity!GetServerVersions(c)
    PROVE  IdentityInv'
<1>1. UNCHANGED <<impersonatedUserId, impersonatedDeviceId, userId, cachedVersions,
                  versionsLastFetched, clock, given, misused, late>>
  BY DEF Identity!GetUserId, Identity!GetWhoAmI, Identity!GetServerVersions
<1>2. /\ IdentityTypes /\ clock \in Nat /\ Timeout \in Nat
      /\ VersionsCacheMs \in Nat /\ VersionsCacheMs > 0
  BY ClientAssumption DEF IdentityInv, IdentityTypes
<1>3. ASSUME NEW fn \in {"getUserId", "getWhoAmI", "getServerVersions"},
             Identity!DoRequest(c, fn)
      PROVE  IdentityInv'
  <2>1. PICK k \in IdentityRecords :
            /\ k = [Identity!NoCall EXCEPT !.pc = "asked", !.fn = fn, !.at = clock,
                        !.user = impersonatedUserId, !.device = impersonatedDeviceId]
            /\ k.pc = "asked" /\ k.fn = fn /\ k.at = clock
    BY <1>2, AskedRecord
  <2>2. identityCall' = [identityCall EXCEPT ![c] = k]
    BY <1>3, <2>1 DEF Identity!DoRequest
  <2>3. InTime(k)
    BY <1>2, <2>1 DEF InTime
  <2> QED BY <1>1, <2>2, <2>3, IdentityCallMoves
<1>4. ASSUME NEW fn \in {"getUserId", "getServerVersions"}, NEW v \in Answers,
             Identity!Return(c, fn, v),
             fn = "getServerVersions" => v \in Nat /\ clock - v < VersionsCacheMs + Timeout
      PROVE  IdentityInv'
  <2>1. PICK k \in IdentityRecords :
            k = Told(fn, v) /\ k.pc = "told" /\ k.fn = fn /\ k.value = v
    BY <1>2, ToldRecord
  <2>2. identityCall' = [identityCall EXCEPT ![c] = k]
    BY <1>4, <2>1 DEF Identity!Return, Told
  <2>3. InTime(k)
    BY <1>4, <2>1 DEF InTime
  <2> QED BY <1>1, <2>2, <2>3, IdentityCallMoves
<1>5. CASE Identity!GetUserId(c)
  <2>1. userId \in Answers
    BY <1>2 DEF IdentityTypes, Answers
  <2> QED BY <1>3, <1>4, <1>5, <2>1 DEF Identity!GetUserId
<1>6. CASE Identity!GetWhoAmI(c)
  BY <1>3, <1>6 DEF Identity!GetWhoAmI
<1>7. CASE Identity!GetServerVersions(c)
  <2>1. CASE Identity!DoRequest(c, "getServerVersions")
    BY <1>3, <2>1
  <2>2. CASE ~Identity!DoRequest(c, "getServerVersions")
    <3>1. /\ Identity!Return(c, "getServerVersions", cachedVersions)
          /\ cachedVersions # Nothing /\ ~(clock - versionsLastFetched >= VersionsCacheMs)
      BY <1>7, <2>2 DEF Identity!GetServerVersions
    <3>2. /\ cachedVersions \in Nat /\ versionsLastFetched \in Nat
          /\ versionsLastFetched - cachedVersions <= Timeout
      BY <3>1 DEF IdentityInv, IdentityTypes
    <3>3. clock - cachedVersions < VersionsCacheMs + Timeout
      BY <1>2, <3>1, <3>2
    <3>4. cachedVersions \in Answers
      BY <3>2 DEF Answers
    <3> QED BY <1>4, <3>1, <3>2, <3>3, <3>4
  <2> QED BY <2>1, <2>2
<1> QED BY <1>5, <1>6, <1>7

LEMMA IdentityEnding ==
    ASSUME IdentityInv, NEW c \in Calls, Identity!RequestFails(c) \/ Identity!Take(c)
    PROVE  IdentityInv'
<1>1. PICK none \in IdentityRecords : none = Identity!NoCall /\ none.pc = "idle"
  BY NoIdentityCall
<1>2. /\ identityCall' = [identityCall EXCEPT ![c] = none]
      /\ UNCHANGED <<impersonatedUserId, impersonatedDeviceId, userId, cachedVersions,
                     versionsLastFetched, clock, given, misused, late>>
  BY <1>1 DEF Identity!RequestFails, Identity!Take
<1>3. InTime(none)
  BY <1>1 DEF InTime
<1> QED BY <1>2, <1>3, IdentityCallMoves

LEMMA IdentityAnswered ==
    ASSUME IdentityInv, NEW c \in Calls, Identity!ServerAnswers(c)
    PROVE  IdentityInv'
<1>1. PICK r \in IdentityRecords :
          /\ r = identityCall[c] /\ r.pc = "asked" /\ InTime(r)
          /\ r.user \in Others \cup {Nothing} /\ r.at \in Nat
  BY DEF IdentityInv, IdentityTypes, IdentityRecords, Identity!ServerAnswers
<1>2. clock \in Nat
  BY DEF IdentityInv, IdentityTypes
<1>3. PICK v \in Answers :
          /\ v = IF r.fn = "getServerVersions" THEN clock
                 ELSE IF r.user = Nothing THEN Me ELSE r.user
          /\ r.fn # "getServerVersions" => v \in Others \cup {Me}
          /\ r.fn = "getServerVersions" => v = clock
  BY <1>1, <1>2 DEF Answers
<1>4. PICK k : k = [r EXCEPT !.pc = "answered", !.value = v]
  OBVIOUS
<1>5. /\ k \in IdentityRecords /\ k.pc = "answered" /\ k.value = v /\ k.fn = r.fn
      /\ k.at = r.at
  BY <1>4 DEF IdentityRecords
<1>6. /\ identityCall' = [identityCall EXCEPT ![c] = k]
      /\ UNCHANGED <<impersonatedUserId, impersonatedDeviceId, userId, cachedVersions,
                     versionsLastFetched, clock, given, misused, late>>
  <2>1. identityCall' = [identityCall EXCEPT ![c].pc = "answered", ![c].value = v]
    BY <1>1, <1>3 DEF Identity!ServerAnswers
  <2>2. identityCall' = [identityCall EXCEPT ![c] = k]
    BY <1>1, <1>4, <2>1 DEF IdentityInv, IdentityTypes
  <2> QED BY <2>2 DEF Identity!ServerAnswers
<1>7. InTime(k)
  BY <1>1, <1>2, <1>3, <1>5 DEF InTime
<1> QED BY <1>5, <1>6, <1>7, IdentityCallMoves

LEMMA IdentityArrives ==
    ASSUME IdentityInv, NEW c \in Calls,
           Identity!WhoAmIArrives(c) \/ Identity!VersionsArrive(c)
    PROVE  IdentityInv'
<1>1. PICK r \in IdentityRecords :
          r = identityCall[c] /\ r.pc = "answered" /\ InTime(r) /\ r.at \in Nat
  BY DEF IdentityInv, IdentityTypes, IdentityRecords, Identity!WhoAmIArrives,
         Identity!VersionsArrive
<1>2. /\ IdentityTypes /\ clock \in Nat /\ Timeout \in Nat
      /\ VersionsCacheMs \in Nat /\ VersionsCacheMs > 0
  BY ClientAssumption DEF IdentityInv, IdentityTypes
<1>3. CASE Identity!WhoAmIArrives(c)
  <2>1. r.fn # "getServerVersions" /\ r.value \in Others \cup {Me}
    BY <1>1, <1>3 DEF Identity!WhoAmIArrives, InTime
  <2>2. PICK k : k = [r EXCEPT !.pc = "told"]
    OBVIOUS
  <2>3. k \in IdentityRecords /\ k.pc = "told" /\ k.fn # "getServerVersions"
    BY <2>1, <2>2 DEF IdentityRecords
  <2>4. /\ identityCall' = [identityCall EXCEPT ![c] = k] /\ userId' = r.value
        /\ late' = (late \/ r.value # Identity!Acting)
        /\ UNCHANGED <<impersonatedUserId, impersonatedDeviceId, cachedVersions,
                       versionsLastFetched, clock, given, misused>>
    BY <1>1, <1>3, <2>2 DEF Identity!WhoAmIArrives, IdentityInv, IdentityTypes
  <2>5. /\ identityCall' \in [Calls -> IdentityRecords] /\ identityCall'[c] = k
        /\ \A d \in Calls : d # c => identityCall'[d] = identityCall[d]
    BY <1>2, <2>3, <2>4 DEF IdentityTypes
  <2>6. \A d \in Calls : InTime(identityCall[d])'
    BY <2>3, <2>4, <2>5 DEF IdentityInv, InTime
  <2>7. Identity!RemembersItself'
    BY <2>4 DEF Identity!RemembersItself, Identity!Acting
  <2>8. Identity!DeviceOfUser'
    BY <2>4 DEF IdentityInv, Identity!DeviceOfUser
  <2> QED BY <1>2, <2>1, <2>4, <2>5, <2>6, <2>7, <2>8 DEF IdentityInv, IdentityTypes
<1>4. CASE Identity!VersionsArrive(c)
  <2>1. /\ r.fn = "getServerVersions" /\ r.value \in Nat /\ r.at <= r.value
        /\ r.value <= clock /\ clock - r.at <= Timeout
    BY <1>1, <1>4 DEF Identity!VersionsArrive, InTime
  <2>2. clock - r.value <= Timeout /\ clock - r.value < VersionsCacheMs + Timeout
    BY <1>1, <1>2, <2>1
  <2>3. PICK k \in IdentityRecords :
            /\ k = Told("getServerVersions", r.value)
            /\ k.pc = "told" /\ k.fn = "getServerVersions" /\ k.value = r.value
    BY <1>2, <2>1, ToldRecord DEF Answers
  <2>4. /\ identityCall' = [identityCall EXCEPT ![c] = k]
        /\ cachedVersions' = r.value /\ versionsLastFetched' = clock
        /\ UNCHANGED <<impersonatedUserId, impersonatedDeviceId, userId, clock, given,
                       misused, late>>
    BY <1>1, <1>4, <2>3 DEF Identity!VersionsArrive, Identity!Return, Told
  <2>5. /\ identityCall' \in [Calls -> IdentityRecords] /\ identityCall'[c] = k
        /\ \A d \in Calls : d # c => identityCall'[d] = identityCall[d]
    BY <1>2, <2>3, <2>4 DEF IdentityTypes
  <2>6. \A d \in Calls : InTime(identityCall[d])'
    BY <2>1, <2>2, <2>3, <2>4, <2>5 DEF IdentityInv, InTime
  <2>7. Identity!RemembersItself' /\ Identity!DeviceOfUser'
    BY <2>4 DEF IdentityInv, Identity!RemembersItself, Identity!Acting, Identity!DeviceOfUser
  <2>8. cachedVersions' \in Nat /\ versionsLastFetched' <= clock'
        /\ versionsLastFetched' - cachedVersions' <= Timeout
    BY <1>2, <2>1, <2>2, <2>4
  <2> QED BY <1>2, <2>1, <2>4, <2>5, <2>6, <2>7, <2>8 DEF IdentityInv, IdentityTypes
<1> QED BY <1>3, <1>4

LEMMA IdentityTicks ==
    ASSUME IdentityInv, Identity!Tick
    PROVE  IdentityInv'
<1>1. /\ clock \in Nat /\ Timeout \in Nat /\ clock' = clock + 1
      /\ \A c \in Calls : /\ identityCall[c].pc # "told"
                          /\ identityCall[c].pc \in {"asked", "answered"} =>
                                 clock - identityCall[c].at < Timeout
      /\ UNCHANGED <<impersonatedUserId, impersonatedDeviceId, userId, cachedVersions,
                     versionsLastFetched, identityCall, given, misused, late>>
      /\ identityCall \in [Calls -> IdentityRecords] /\ versionsLastFetched \in Nat
  BY ClientAssumption DEF IdentityInv, IdentityTypes, Identity!Tick
<1>2. ASSUME NEW c \in Calls PROVE InTime(identityCall[c])'
  <2>1. PICK r \in IdentityRecords : r = identityCall[c] /\ r.at \in Nat /\ InTime(r)
    BY <1>1 DEF IdentityRecords, IdentityInv
  <2> QED BY <1>1, <2>1 DEF InTime
<1>3. Identity!RemembersItself' /\ Identity!DeviceOfUser'
  BY <1>1 DEF IdentityInv, Identity!RemembersItself, Identity!Acting, Identity!DeviceOfUser
<1> QED BY <1>1, <1>2, <1>3 DEF IdentityInv, IdentityTypes

LEMMA IdentityKeeps ==
    ASSUME IdentityInv, Identity!Next \/ UNCHANGED identityVars
    PROVE  IdentityInv'
<1>1. CASE Identity!Next
  BY <1>1, Impersonating, IdentityAsking, IdentityEnding, IdentityAnswered,
     IdentityArrives, IdentityTicks DEF Identity!Next
<1>2. CASE UNCHANGED identityVars
  BY <1>2 DEF identityVars, IdentityInv, IdentityTypes, InTime, Identity!RemembersItself,
     Identity!Acting, Identity!DeviceOfUser
<1> QED BY <1>1, <1>2

-----------------------------------------------------------------------------
(* Logins                                                                   *)

LoginFns == {"passwordRegister", "passwordLogin", "pantalaimon", Nothing}

LoginRecords ==
    [pc : {"idle", "register", "authenticate", "login", "read", "store", "client"},
     fn : LoginFns, token : Nat \cup {Nothing}]

LoginTypes ==
    /\ account \in BOOLEAN /\ issued \in Seq(LoginFns)
    /\ stored \in Nat \cup {Nothing}
    /\ loginCall \in [Calls -> LoginRecords]
    /\ faults \in Nat /\ overlaps \in Nat

\* A call of Pantalaimon's that may still log in, that will, and that is under way.
Asks(r)   == r.fn = "pantalaimon" /\ r.pc \in {"read", "login"}
LogsIn(r) == r.fn = "pantalaimon" /\ r.pc = "login"
Active(r) == r.fn = "pantalaimon" /\ r.pc \in {"read", "login", "store"}

Asking    == {c \in Calls : Asks(loginCall[c])}
LoggingIn == {c \in Calls : LogsIn(loginCall[c])}
Given     == {t \in DOMAIN issued : issued[t] = "pantalaimon"}
Busy      == \E c \in Calls : Active(loginCall[c])

\* The tokens that calls hold were given to them.
Held(r) ==
    /\ r.pc \in {"register", "authenticate"} => r.fn = "passwordRegister"
    /\ r.pc \in {"read", "login", "store", "client"} => account
    /\ r.pc = "read" => r.fn = "pantalaimon"
    /\ r.pc = "store" => /\ r.fn = "pantalaimon" /\ r.token \in DOMAIN issued
                         /\ issued[r.token] = "pantalaimon"
    /\ r.pc = "client" => /\ r.token \in DOMAIN issued
                          /\ r.fn = "pantalaimon" /\ overlaps = 0 => r.token = stored

\* Calls that never overlapped take turns, and log in only with nothing stored.
TakeTurns ==
    overlaps = 0 =>
        /\ \A c, d \in Calls : Active(loginCall[c]) /\ Active(loginCall[d]) => c = d
        /\ \A c \in Calls : Active(loginCall[c]) /\ loginCall[c].pc # "read" => stored = Nothing

\* Logins made and under way, against the faults and overlaps that explain them
\* and the one login that needs no explanation.
Budget ==
    /\ stored = Nothing =>
           Cardinality(Given) + Cardinality(Asking)
               <= faults + overlaps + (IF Busy THEN 1 ELSE 0)
    /\ stored # Nothing =>
           Cardinality(Given) + Cardinality(LoggingIn) <= 1 + faults + overlaps

LoginInv ==
    /\ LoginTypes
    /\ stored # Nothing => stored \in DOMAIN issued /\ issued[stored] = "pantalaimon"
    /\ \A c \in Calls : Held(loginCall[c])
    /\ TakeTurns
    /\ IsFiniteSet(Asking) /\ Budget

LEMMA NoLoginCall ==
    /\ Logins!NoCall \in LoginRecords /\ Logins!NoCall.pc = "idle"
BY DEF Logins!NoCall, LoginRecords, LoginFns

LEMMA GivenIsFinite ==
    ASSUME LoginTypes
    PROVE  IsFiniteSet(Given) /\ Cardinality(Given) \in Nat
<1>1. PICK s \in Seq(LoginFns) : s = issued
  BY DEF LoginTypes
<1>2. Given \subseteq 1..Len(s) /\ Len(s) \in Nat
  BY <1>1 DEF Given
<1>3. IsFiniteSet(1..Len(s))
  BY <1>2, FS_Interval
<1>4. IsFiniteSet(Given)
  BY <1>2, <1>3, FS_Subset
<1> QED BY <1>4, FS_CardinalityType

LEMMA LoginsStart == Logins!Init => LoginInv
<1> SUFFICES ASSUME Logins!Init PROVE LoginInv
  OBVIOUS
<1>1. PICK none \in LoginRecords : none = Logins!NoCall /\ none.pc = "idle"
  BY NoLoginCall
<1>2. loginCall = [c \in Calls |-> none] /\ issued = <<>> /\ stored = Nothing
      /\ faults = 0 /\ overlaps = 0 /\ account \in BOOLEAN
  BY <1>1 DEF Logins!Init
<1>3. LoginTypes /\ \A c \in Calls : loginCall[c].pc = "idle"
  BY <1>1, <1>2 DEF LoginTypes
<1>4. /\ \A c \in Calls : Held(loginCall[c]) /\ ~Active(loginCall[c])
      /\ Asking = {}
  BY <1>3 DEF Held, Active, Asking, Asks
<1>5. Given = {} /\ ~Busy
  BY <1>2, <1>4 DEF Given, Busy
<1>6. Budget
  BY <1>2, <1>4, <1>5, FS_EmptySet DEF Budget
<1>7. IsFiniteSet(Asking)
  BY <1>4, FS_EmptySet
<1> QED BY <1>2, <1>3, <1>4, <1>6, <1>7 DEF LoginInv, TakeTurns

\* Sets that differ in one element at most.
LEMMA OneMoves ==
    ASSUME NEW S, IsFiniteSet(S), NEW T, NEW e, T \ {e} = S \ {e}
    PROVE  /\ IsFiniteSet(T) /\ Cardinality(T) \in Nat /\ Cardinality(S) \in Nat
           /\ (e \in S <=> e \in T) => Cardinality(T) = Cardinality(S)
           /\ e \in S /\ e \notin T => Cardinality(T) = Cardinality(S) - 1
           /\ e \notin S /\ e \in T => Cardinality(T) = Cardinality(S) + 1
<1>1. Cardinality(S) \in Nat
  BY FS_CardinalityType
<1>2. CASE e \in S <=> e \in T
  <2>1. S = T
    BY <1>2
  <2> QED BY <1>1, <2>1
<1>3. CASE e \in S /\ e \notin T
  <2>1. T = S \ {e}
    BY <1>3
  <2>2. IsFiniteSet(T) /\ Cardinality(T) = Cardinality(S) - 1
    BY <1>3, <2>1, FS_RemoveElement
  <2>3. Cardinality(T) \in Nat
    BY <2>2, FS_CardinalityType
  <2> QED BY <1>1, <1>3, <2>2, <2>3
<1>4. CASE e \notin S /\ e \in T
  <2>1. T = S \cup {e}
    BY <1>4
  <2>2. IsFiniteSet(T) /\ Cardinality(T) = Cardinality(S) + 1
    BY <1>4, <2>1, FS_AddElement
  <2> QED BY <1>1, <1>4, <2>2
<1> QED BY <1>2, <1>3, <1>4

\* A call of one record gets another: what that does to the sets of calls.
LEMMA LoginCounts ==
    ASSUME LoginInv, NEW c \in Calls, NEW k \in LoginRecords,
           loginCall' = [loginCall EXCEPT ![c] = k]
    PROVE  /\ IsFiniteSet(Asking')
           /\ Cardinality(Asking) \in Nat /\ Cardinality(Asking') \in Nat
           /\ Cardinality(LoggingIn) \in Nat /\ Cardinality(LoggingIn') \in Nat
           /\ Cardinality(LoggingIn') <= Cardinality(Asking')
           /\ (Asks(k) <=> Asks(loginCall[c])) => Cardinality(Asking') = Cardinality(Asking)
           /\ ~Asks(k) /\ Asks(loginCall[c]) => Cardinality(Asking') = Cardinality(Asking) - 1
           /\ Asks(k) /\ ~Asks(loginCall[c]) => Cardinality(Asking') = Cardinality(Asking) + 1
           /\ (LogsIn(k) <=> LogsIn(loginCall[c])) =>
                  Cardinality(LoggingIn') = Cardinality(LoggingIn)
           /\ ~LogsIn(k) /\ LogsIn(loginCall[c]) =>
                  Cardinality(LoggingIn') = Cardinality(LoggingIn) - 1
           /\ Active(k) => Busy'
           /\ Active(loginCall[c]) => Busy
           /\ ~Active(loginCall[c]) /\ ~Active(k) /\ Busy => Busy'
           /\ ~Active(loginCall[c]) /\ ~Active(k) /\ Busy' => Busy
<1>1. /\ loginCall'[c] = k /\ \A d \in Calls : d # c => loginCall'[d] = loginCall[d]
  BY DEF LoginInv, LoginTypes
<1>2. PICK A : A = Asking'
  OBVIOUS
<1>3. PICK L : L = LoggingIn'
  OBVIOUS
<1>4. IsFiniteSet(Asking) /\ IsFiniteSet(LoggingIn)
  <2>1. LoggingIn \subseteq Asking
    BY DEF LoggingIn, Asking, LogsIn, Asks
  <2> QED BY <2>1, FS_Subset DEF LoginInv
<1>5. /\ A \ {c} = Asking \ {c} /\ (c \in A <=> Asks(k)) /\ (c \in Asking <=> Asks(loginCall[c]))
      /\ L \ {c} = LoggingIn \ {c} /\ (c \in L <=> LogsIn(k))
      /\ (c \in LoggingIn <=> LogsIn(loginCall[c]))
      /\ L \subseteq A
  BY <1>1, <1>2, <1>3 DEF Asking, LoggingIn, Asks, LogsIn
<1>6. /\ IsFiniteSet(A) /\ Cardinality(A) \in Nat /\ Cardinality(Asking) \in Nat
      /\ (c \in Asking <=> c \in A) => Cardinality(A) = Cardinality(Asking)
      /\ c \in Asking /\ c \notin A => Cardinality(A) = Cardinality(Asking) - 1
      /\ c \notin Asking /\ c \in A => Cardinality(A) = Cardinality(Asking) + 1
  BY <1>4, <1>5, OneMoves
<1>7. /\ IsFiniteSet(L) /\ Cardinality(L) \in Nat /\ Cardinality(LoggingIn) \in Nat
      /\ (c \in LoggingIn <=> c \in L) => Cardinality(L) = Cardinality(LoggingIn)
      /\ c \in LoggingIn /\ c \notin L => Cardinality(L) = Cardinality(LoggingIn) - 1
  BY <1>4, <1>5, OneMoves
<1>8. Cardinality(L) <= Cardinality(A)
  BY <1>5, <1>6, FS_Subset
<1>9. /\ Active(k) => Busy'
      /\ Active(loginCall[c]) => Busy
      /\ ~Active(loginCall[c]) /\ ~Active(k) /\ Busy => Busy'
      /\ ~Active(loginCall[c]) /\ ~Active(k) /\ Busy' => Busy
  BY <1>1 DEF Busy, Active
<1> QED BY <1>2, <1>3, <1>5, <1>6, <1>7, <1>8, <1>9

\* A token is given out.
LEMMA TokenGiven ==
    ASSUME LoginTypes, NEW fn \in LoginFns, issued' = Append(issued, fn)
    PROVE  /\ issued' \in Seq(LoginFns)
           /\ \A t \in DOMAIN issued : t \in DOMAIN issued' /\ issued'[t] = issued[t]
           /\ Len(issued) + 1 \in DOMAIN issued' /\ issued'[Len(issued) + 1] = fn
           /\ Len(issued) + 1 \in Nat
           /\ Cardinality(Given) \in Nat /\ Cardinality(Given') \in Nat
           /\ fn = "pantalaimon" => Cardinality(Given') = Cardinality(Given) + 1
           /\ fn # "pantalaimon" => Cardinality(Given') = Cardinality(Given)
<1>1. PICK s \in Seq(LoginFns) : s = issued
  BY DEF LoginTypes
<1>2. PICK t : t = Append(s, fn)
  OBVIOUS
<1>3. /\ t \in Seq(LoginFns) /\ Len(s) \in Nat /\ DOMAIN s = 1..Len(s)
      /\ DOMAIN t = 1..(Len(s) + 1) /\ t[Len(s) + 1] = fn
      /\ \A i \in DOMAIN s : t[i] = s[i]
  BY <1>2, AppendProperties
<1>4. \A i \in DOMAIN t : i \in DOMAIN s \/ i = Len(s) + 1
  BY <1>3
<1>5. PICK G : G = Given'
  OBVIOUS
<1>6. /\ G \ {Len(s) + 1} = Given \ {Len(s) + 1} /\ Len(s) + 1 \notin Given
      /\ (Len(s) + 1 \in G <=> fn = "pantalaimon")
  <2>1. \A i : i \in Given <=> i \in DOMAIN s /\ s[i] = "pantalaimon"
    BY <1>1 DEF Given
  <2>2. \A i : i \in G <=> i \in DOMAIN t /\ t[i] = "pantalaimon"
    BY <1>1, <1>2, <1>5 DEF Given
  <2>3. Len(s) + 1 \notin DOMAIN s /\ Len(s) + 1 \in DOMAIN t /\ DOMAIN s \subseteq DOMAIN t
    BY <1>3
  <2> QED BY <1>3, <1>4, <2>1, <2>2, <2>3
<1>7. /\ Cardinality(G) \in Nat /\ Cardinality(Given) \in Nat
      /\ fn = "pantalaimon" => Cardinality(G) = Cardinality(Given) + 1
      /\ fn # "pantalaimon" => Cardinality(G) = Cardinality(Given)
  BY <1>6, GivenIsFinite, OneMoves
<1> QED BY <1>1, <1>2, <1>3, <1>5, <1>7

\* One call moves and the stored token stays: what is left to show of a step.
LEMMA LoginMoves ==
    ASSUME LoginInv, NEW c \in Calls, NEW k \in LoginRecords,
           loginCall' = [loginCall EXCEPT ![c] = k], stored' = stored,
           account' \in BOOLEAN, account => account',
           issued' \in Seq(LoginFns),
           \A t \in DOMAIN issued : t \in DOMAIN issued' /\ issued'[t] = issued[t],
           faults' \in Nat, overlaps' \in Nat, overlaps <= overlaps',
           Held(k)',
           overlaps' = 0 /\ Active(k) => Active(loginCall[c]) \/ ~Busy,
           overlaps' = 0 /\ Active(k) /\ k.pc # "read" => stored = Nothing,
           Budget'
    PROVE  LoginInv'
<1>1. /\ loginCall' \in [Calls -> LoginRecords] /\ loginCall'[c] = k
      /\ \A d \in Calls : d # c => loginCall'[d] = loginCall[d]
  BY DEF LoginInv, LoginTypes
<1>2. overlaps \in Nat /\ (overlaps' = 0 => overlaps = 0)
  BY DEF LoginInv, LoginTypes
<1>3. ASSUME NEW d \in Calls, d # c PROVE Held(loginCall[d])'
  <2>1. Held(loginCall[d])
    BY DEF LoginInv
  <2> QED BY <1>1, <1>2, <1>3, <2>1 DEF Held
<1>4. Held(loginCall[c])'
  BY <1>1 DEF Held
<1>5. TakeTurns'
  <2> SUFFICES ASSUME overlaps' = 0
               PROVE  /\ \A d, e \in Calls :
                             Active(loginCall'[d]) /\ Active(loginCall'[e]) => d = e
                      /\ \A d \in Calls :
                             Active(loginCall'[d]) /\ loginCall'[d].pc # "read" => stored' = Nothing
    BY DEF TakeTurns, Active
  <2>1. /\ \A d, e \in Calls : Active(loginCall[d]) /\ Active(loginCall[e]) => d = e
        /\ \A d \in Calls : Active(loginCall[d]) /\ loginCall[d].pc # "read" => stored = Nothing
    BY <1>2 DEF LoginInv, TakeTurns
  <2>2. Active(k) => \A d \in Calls : Active(loginCall[d]) => d = c
    BY <2>1 DEF Busy
  <2> QED BY <1>1, <2>1, <2>2
<1>6. IsFiniteSet(Asking')
  BY LoginCounts
<1>7. stored' # Nothing => stored' \in DOMAIN issued' /\ issued'[stored'] = "pantalaimon"
  BY DEF LoginInv
<1>8. LoginTypes'
  BY <1>1 DEF LoginInv, LoginTypes
<1> QED BY <1>1, <1>3, <1>4, <1>5, <1>6, <1>7, <1>8 DEF LoginInv

\* A login begins: Pantalaimon's is one more that will ask for a token.
LEMMA OneLoginMore ==
    ASSUME NEW m \in Nat, NEW n \in Nat, NEW l \in Nat, NEW f \in Nat,
           NEW o \in Nat, NEW p \in Nat, NEW b \in BOOLEAN, NEW d \in BOOLEAN,
           \/ l = n + 1 /\ d /\ p = IF b THEN o + 1 ELSE o
           \/ l = n /\ p = o /\ (b => d),
           m + n <= f + o + (IF b THEN 1 ELSE 0)
    PROVE  m + l <= f + p + (IF d THEN 1 ELSE 0)
OBVIOUS

LEMMA LoginsBegin ==
    ASSUME LoginInv, NEW c \in Calls,
           \/ Logins!PasswordRegister(c) \/ Logins!PasswordLogin(c)
           \/ Logins!CreateClientWithCredentials(c)
    PROVE  LoginInv'
<1>1. PICK r \in LoginRecords : r = loginCall[c] /\ r.pc = "idle"
  BY DEF LoginInv, LoginTypes, Logins!PasswordRegister, Logins!PasswordLogin,
         Logins!CreateClientWithCredentials, Logins!Begin
<1>2. PICK fn \in LoginFns, stage \in {"register", "login", "read"} :
          /\ Logins!Begin(c, fn, stage)
          /\ stage = "register" => fn = "passwordRegister" /\ overlaps' = overlaps
          /\ stage = "login" => fn = "passwordLogin" /\ account /\ overlaps' = overlaps
          /\ stage = "read" =>
                 /\ fn = "pantalaimon" /\ account
                 /\ overlaps' = IF \E d \in Calls : Logins!InPantalaimon(d)
                                THEN overlaps + 1 ELSE overlaps
  BY DEF Logins!PasswordRegister, Logins!PasswordLogin,
         Logins!CreateClientWithCredentials, LoginFns
<1>3. PICK none \in LoginRecords : none = Logins!NoCall
  BY NoLoginCall
<1>4. PICK k : k = [none EXCEPT !.pc = stage, !.fn = fn]
  OBVIOUS
<1>5. k \in LoginRecords /\ k.pc = stage /\ k.fn = fn
  BY <1>4 DEF LoginRecords
<1>6. /\ loginCall' = [loginCall EXCEPT ![c] = k]
      /\ UNCHANGED <<account, issued, stored, faults>>
  BY <1>2, <1>3, <1>4 DEF Logins!Begin
<1>7. /\ LoginTypes /\ overlaps \in Nat /\ faults \in Nat
      /\ account \in BOOLEAN /\ issued \in Seq(LoginFns)
  BY DEF LoginInv, LoginTypes
<1>8. (\E d \in Calls : Logins!InPantalaimon(d)) <=> Busy
  BY DEF Logins!InPantalaimon, Busy, Active
<1>9. /\ overlaps' \in Nat /\ overlaps <= overlaps'
      /\ stage = "read" => overlaps' = IF Busy THEN overlaps + 1 ELSE overlaps
      /\ stage # "read" => overlaps' = overlaps
  BY <1>2, <1>7, <1>8
<1>10. ~Asks(r) /\ ~LogsIn(r) /\ ~Active(r) /\ ~LogsIn(k)
       /\ (Asks(k) <=> stage = "read") /\ (Active(k) <=> stage = "read")
  BY <1>1, <1>2, <1>5 DEF Asks, LogsIn, Active
<1>11. Budget'
  <2>1. Cardinality(Given') = Cardinality(Given) /\ Cardinality(Given) \in Nat
    BY <1>6, <1>7, GivenIsFinite DEF Given
  <2>2. /\ Cardinality(Asking) \in Nat /\ Cardinality(Asking') \in Nat
        /\ Cardinality(LoggingIn) \in Nat /\ Cardinality(LoggingIn') \in Nat
        /\ stage # "read" => Cardinality(Asking') = Cardinality(Asking)
        /\ stage = "read" => Cardinality(Asking') = Cardinality(Asking) + 1
        /\ Cardinality(LoggingIn') = Cardinality(LoggingIn)
        /\ stage = "read" => Busy'
        /\ stage # "read" => (Busy => Busy')
    BY <1>1, <1>5, <1>6, <1>10, LoginCounts
  <2>3. /\ stored = Nothing =>
               Cardinality(Given) + Cardinality(Asking)
                   <= faults + overlaps + (IF Busy THEN 1 ELSE 0)
        /\ stored # Nothing =>
               Cardinality(Given) + Cardinality(LoggingIn) <= 1 + faults + overlaps
    BY DEF LoginInv, Budget
  <2>4. CASE stored = Nothing
    <3>1. Cardinality(Given') + Cardinality(Asking')
              <= faults' + overlaps' + (IF Busy' THEN 1 ELSE 0)
      <4>1. PICK m, n, l, f, o, p, b, d :
                /\ m = Cardinality(Given) /\ n = Cardinality(Asking) /\ l = Cardinality(Asking')
                /\ f = faults /\ o = overlaps /\ p = overlaps' /\ b = Busy /\ d = Busy'
        OBVIOUS
      <4>2. /\ m \in Nat /\ n \in Nat /\ l \in Nat /\ f \in Nat /\ o \in Nat /\ p \in Nat
        BY <1>7, <1>9, <2>1, <2>2, <4>1
      <4>3. b \in BOOLEAN /\ d \in BOOLEAN
        BY <4>1 DEF Busy
      <4>4. \/ l = n + 1 /\ d /\ p = IF b THEN o + 1 ELSE o
            \/ l = n /\ p = o /\ (b => d)
        <5>1. CASE stage = "read"
          BY <1>9, <2>2, <4>1, <5>1
        <5>2. CASE stage # "read"
          BY <1>9, <2>2, <4>1, <5>2
        <5> QED BY <5>1, <5>2
      <4>5. m + n <= f + o + (IF b THEN 1 ELSE 0)
        BY <2>3, <2>4, <4>1
      <4>6. m + l <= f + p + (IF d THEN 1 ELSE 0)
        BY <4>2, <4>3, <4>4, <4>5, OneLoginMore
      <4>7. Cardinality(Given') = m /\ faults' = f
        BY <1>6, <2>1, <4>1
      <4> QED BY <4>1, <4>6, <4>7
    <3> QED BY <1>6, <2>4, <3>1 DEF Budget
  <2>5. CASE stored # Nothing
    <3>1. Cardinality(Given') + Cardinality(LoggingIn') <= 1 + faults' + overlaps'
      BY <1>6, <1>7, <1>9, <2>1, <2>2, <2>3, <2>5
    <3> QED BY <1>6, <2>5, <3>1 DEF Budget
  <2> QED BY <2>4, <2>5
<1>12. Held(k)'
  BY <1>2, <1>5, <1>6 DEF Held
<1>13. overlaps' = 0 /\ Active(k) => ~Busy
  BY <1>7, <1>9, <1>10
<1>14. Active(k) => k.pc = "read"
  BY <1>5, <1>10
<1> QED BY <1>5, <1>6, <1>7, <1>9, <1>11, <1>12, <1>13, <1>14, LoginMoves

\* A step that gives Pantalaimon no token and takes no call out of it that had to
\* store one keeps the budget.
LEMMA BudgetStays ==
    ASSUME LoginInv, NEW c \in Calls, NEW k \in LoginRecords,
           loginCall' = [loginCall EXCEPT ![c] = k], stored' = stored,
           overlaps' = overlaps, faults' \in Nat, faults <= faults',
           Cardinality(Given') <= Cardinality(Given), Cardinality(Given') \in Nat,
           Asks(k) => Asks(loginCall[c]), LogsIn(k) => Asks(loginCall[c]),
           LogsIn(k) /\ ~LogsIn(loginCall[c]) => stored = Nothing,
           Active(loginCall[c]) =>
               Active(k) \/ faults < faults' \/ stored # Nothing
    PROVE  Budget'
<1>1. LoginTypes /\ overlaps \in Nat /\ faults \in Nat
  BY DEF LoginInv, LoginTypes
<1>2. Cardinality(Given) \in Nat
  BY <1>1, GivenIsFinite
<1>3. /\ Cardinality(Asking) \in Nat /\ Cardinality(Asking') \in Nat
      /\ Cardinality(LoggingIn) \in Nat /\ Cardinality(LoggingIn') \in Nat
      /\ Cardinality(Asking') <= Cardinality(Asking)
      /\ stored # Nothing => Cardinality(LoggingIn') <= Cardinality(LoggingIn)
      /\ Active(k) => Busy'
      /\ Active(loginCall[c]) => Busy
      /\ ~Active(loginCall[c]) /\ ~Active(k) /\ Busy => Busy'
  <2>1. /\ Cardinality(Asking) \in Nat /\ Cardinality(Asking') \in Nat
        /\ Cardinality(LoggingIn) \in Nat /\ Cardinality(LoggingIn') \in Nat
        /\ (Asks(k) <=> Asks(loginCall[c])) => Cardinality(Asking') = Cardinality(Asking)
        /\ ~Asks(k) /\ Asks(loginCall[c]) => Cardinality(Asking') = Cardinality(Asking) - 1
        /\ (LogsIn(k) <=> LogsIn(loginCall[c])) =>
               Cardinality(LoggingIn') = Cardinality(LoggingIn)
        /\ ~LogsIn(k) /\ LogsIn(loginCall[c]) =>
               Cardinality(LoggingIn') = Cardinality(LoggingIn) - 1
        /\ Active(k) => Busy'
        /\ Active(loginCall[c]) => Busy
        /\ ~Active(loginCall[c]) /\ ~Active(k) /\ Busy => Busy'
    BY LoginCounts
  <2>2. Cardinality(Asking') <= Cardinality(Asking)
    BY <2>1
  <2>3. stored # Nothing => Cardinality(LoggingIn') <= Cardinality(LoggingIn)
    BY <2>1
  <2> QED BY <2>1, <2>2, <2>3
<1>4. /\ stored = Nothing =>
             Cardinality(Given) + Cardinality(Asking)
                 <= faults + overlaps + (IF Busy THEN 1 ELSE 0)
      /\ stored # Nothing =>
             Cardinality(Given) + Cardinality(LoggingIn) <= 1 + faults + overlaps
  BY DEF LoginInv, Budget
<1>5. CASE stored = Nothing
  <2>1. Busy => Busy' \/ faults < faults'
    BY <1>3, <1>5
  <2>2. Cardinality(Given') + Cardinality(Asking')
            <= faults' + overlaps' + (IF Busy' THEN 1 ELSE 0)
    BY <1>1, <1>2, <1>3, <1>4, <1>5, <2>1
  <2> QED BY <1>5, <2>2 DEF Budget
<1>6. CASE stored # Nothing
  <2>1. Cardinality(Given') + Cardinality(LoggingIn') <= 1 + faults' + overlaps'
    BY <1>1, <1>2, <1>3, <1>4, <1>6
  <2> QED BY <1>6, <2>1 DEF Budget
<1> QED BY <1>5, <1>6

\* The record a call gets when its client is made.
LEMMA ClientGiven ==
    ASSUME NEW r \in LoginRecords, NEW t \in Nat
    PROVE  LET k == [r EXCEPT !.pc = "client", !.token = t]
           IN k \in LoginRecords /\ k.pc = "client" /\ k.fn = r.fn /\ k.token = t
BY DEF LoginRecords

LEMMA Registering ==
    ASSUME LoginInv, NEW c \in Calls,
           Logins!Register(c) \/ Logins!Authenticate(c) \/ Logins!RegisterUnheard(c)
    PROVE  LoginInv'
<1>1. PICK r \in LoginRecords :
          /\ r = loginCall[c] /\ r.pc \in {"register", "authenticate"}
          /\ r.fn = "passwordRegister" /\ ~Active(r) /\ ~Asks(r) /\ ~LogsIn(r)
  BY DEF LoginInv, LoginTypes, Logins!Register, Logins!Authenticate,
         Logins!RegisterUnheard, Held, Active, Asks, LogsIn
<1>2. PICK none \in LoginRecords : none = Logins!NoCall /\ none.pc = "idle"
  BY NoLoginCall
<1>3. /\ LoginTypes /\ overlaps \in Nat /\ faults \in Nat
      /\ account \in BOOLEAN /\ issued \in Seq(LoginFns)
      /\ loginCall \in [Calls -> LoginRecords] /\ r.fn \in LoginFns
  BY <1>1 DEF LoginInv, LoginTypes, LoginFns
<1>4. /\ stored' = stored /\ overlaps' = overlaps
      /\ faults' \in Nat /\ faults <= faults'
  BY <1>3 DEF Logins!Register, Logins!Authenticate, Logins!RegisterUnheard, Logins!Fault
<1>5. PICK m : m = [r EXCEPT !.pc = "authenticate"]
  OBVIOUS
<1>6. m \in LoginRecords /\ m.pc = "authenticate" /\ m.fn = r.fn
  BY <1>5 DEF LoginRecords
<1>7. Len(issued) + 1 \in Nat
  BY <1>3
<1>8. PICK g : g = [r EXCEPT !.pc = "client", !.token = Len(issued) + 1]
  OBVIOUS
<1>9. g \in LoginRecords /\ g.pc = "client" /\ g.fn = r.fn /\ g.token = Len(issued) + 1
  BY <1>7, <1>8, ClientGiven
<1>10. \/ /\ UNCHANGED <<account, issued>>
          /\ \/ loginCall' = [loginCall EXCEPT ![c] = none]
             \/ loginCall' = [loginCall EXCEPT ![c] = m]
       \/ /\ account' = TRUE /\ issued' = Append(issued, r.fn)
          /\ \/ loginCall' = [loginCall EXCEPT ![c] = none]
             \/ loginCall' = [loginCall EXCEPT ![c] = g]
  <2>1. /\ Logins!End(c) => loginCall' = [loginCall EXCEPT ![c] = none]
        /\ Logins!Enter(c, "authenticate") => loginCall' = [loginCall EXCEPT ![c] = m]
        /\ Logins!Give(c, Logins!NewToken) => loginCall' = [loginCall EXCEPT ![c] = g]
        /\ Logins!Issue(c) => issued' = Append(issued, r.fn)
    BY <1>1, <1>2, <1>3, <1>5, <1>8
       DEF Logins!End, Logins!Enter, Logins!Give, Logins!Issue, Logins!NewToken
  <2>2. CASE Logins!Register(c)
    BY <2>1, <2>2 DEF Logins!Register
  <2>3. CASE Logins!Authenticate(c)
    BY <2>1, <2>3 DEF Logins!Authenticate
  <2>4. CASE Logins!RegisterUnheard(c)
    BY <2>1, <2>4 DEF Logins!RegisterUnheard
  <2> QED BY <2>2, <2>3, <2>4
<1>11. PICK k \in {none, m, g} :
           /\ loginCall' = [loginCall EXCEPT ![c] = k]
           /\ k = g => account' = TRUE /\ issued' = Append(issued, r.fn)
  <2>1. none # g /\ m # g
    BY <1>2, <1>6, <1>9
  <2> QED BY <1>10, <2>1
<1>12. /\ k \in LoginRecords /\ ~Active(k) /\ ~Asks(k) /\ ~LogsIn(k)
  BY <1>1, <1>2, <1>6, <1>9 DEF Active, Asks, LogsIn
<1>13. /\ issued' \in Seq(LoginFns)
       /\ \A t \in DOMAIN issued : t \in DOMAIN issued' /\ issued'[t] = issued[t]
       /\ Cardinality(Given') \in Nat /\ Cardinality(Given') <= Cardinality(Given)
       /\ k = g => Len(issued) + 1 \in DOMAIN issued'
  <2>1. CASE issued' = issued
    <3>1. Cardinality(Given') = Cardinality(Given) /\ Cardinality(Given) \in Nat
      BY <1>3, <2>1, GivenIsFinite DEF Given
    <3>2. k # g
      <4>1. PICK s \in Seq(LoginFns) : s = issued
        BY <1>3
      <4>2. Append(s, r.fn) # s
        BY <1>3
      <4> QED BY <1>11, <2>1, <4>1, <4>2
    <3> QED BY <1>3, <2>1, <3>1, <3>2
  <2>2. CASE issued' = Append(issued, r.fn)
    BY <1>1, <1>3, <2>2, TokenGiven
  <2> QED BY <1>10, <2>1, <2>2
<1>14. Held(k)'
  BY <1>1, <1>2, <1>6, <1>9, <1>11, <1>13 DEF Held
<1>15. Budget'
  BY <1>1, <1>4, <1>11, <1>12, <1>13, BudgetStays
<1>16. account' \in BOOLEAN /\ (account => account')
  BY <1>3, <1>10
<1>17. /\ loginCall' = [loginCall EXCEPT ![c] = k] /\ stored' = stored
       /\ overlaps' \in Nat /\ overlaps <= overlaps' /\ faults' \in Nat
       /\ k \in LoginRecords /\ issued' \in Seq(LoginFns)
       /\ \A t \in DOMAIN issued : t \in DOMAIN issued' /\ issued'[t] = issued[t]
  BY <1>3, <1>4, <1>11, <1>12, <1>13
<1>18. /\ overlaps' = 0 /\ Active(k) => Active(loginCall[c]) \/ ~Busy
       /\ overlaps' = 0 /\ Active(k) /\ k.pc # "read" => stored = Nothing
  BY <1>12
<1> QED BY <1>14, <1>15, <1>16, <1>17, <1>18, LoginMoves

\* A step in which the homeserver gives no token and nothing is stored.
LEMMA QuietLogin ==
    ASSUME LoginInv, NEW c \in Calls, NEW k \in LoginRecords,
           loginCall' = [loginCall EXCEPT ![c] = k],
           UNCHANGED <<account, issued, stored, overlaps>>,
           faults' \in Nat, faults <= faults', Held(k)',
           Active(k) => Active(loginCall[c]) /\ Asks(loginCall[c]),
           Active(k) => k.pc # "read" /\ stored = Nothing,
           Active(loginCall[c]) => Active(k) \/ faults < faults' \/ stored # Nothing
    PROVE  LoginInv'
<1>1. /\ LoginTypes /\ overlaps \in Nat /\ account \in BOOLEAN
      /\ issued \in Seq(LoginFns)
  BY DEF LoginInv, LoginTypes
<1>2. Cardinality(Given') = Cardinality(Given) /\ Cardinality(Given) \in Nat
  BY <1>1, GivenIsFinite DEF Given
<1>3. /\ Asks(k) => Asks(loginCall[c])
      /\ LogsIn(k) => Asks(loginCall[c])
      /\ LogsIn(k) => stored = Nothing
  BY DEF Asks, LogsIn, Active
<1>4. /\ Cardinality(Given') <= Cardinality(Given) /\ Cardinality(Given') \in Nat
      /\ overlaps' = overlaps /\ stored' = stored
      /\ overlaps <= overlaps' /\ overlaps' \in Nat
  BY <1>1, <1>2
<1>5. Budget'
  BY <1>3, <1>4, BudgetStays
<1>6. /\ issued' \in Seq(LoginFns) /\ account' \in BOOLEAN /\ (account => account')
      /\ \A t \in DOMAIN issued : t \in DOMAIN issued' /\ issued'[t] = issued[t]
  BY <1>1
<1> QED BY <1>4, <1>5, <1>6, LoginMoves

LEMMA TokenRead ==
    ASSUME LoginInv, NEW c \in Calls, Logins!ReadToken(c)
    PROVE  LoginInv'
<1>1. PICK r \in LoginRecords :
          /\ r = loginCall[c] /\ r.pc = "read" /\ r.fn = "pantalaimon"
          /\ Active(r) /\ Asks(r) /\ account
  BY DEF LoginInv, LoginTypes, Logins!ReadToken, Held, Active, Asks
<1>2. /\ LoginTypes /\ overlaps \in Nat /\ faults \in Nat
      /\ account \in BOOLEAN /\ issued \in Seq(LoginFns)
      /\ loginCall \in [Calls -> LoginRecords]
      /\ UNCHANGED <<account, issued, stored, faults, overlaps>>
  BY DEF LoginInv, LoginTypes, Logins!ReadToken
<1>3. faults' \in Nat /\ faults <= faults'
  BY <1>2
<1>4. CASE stored = Nothing
  <2>1. PICK k : k = [r EXCEPT !.pc = "login"]
    OBVIOUS
  <2>2. k \in LoginRecords /\ k.pc = "login" /\ k.fn = "pantalaimon"
    BY <1>1, <2>1 DEF LoginRecords
  <2>3. loginCall' = [loginCall EXCEPT ![c] = k]
    BY <1>1, <1>2, <1>4, <2>1 DEF Logins!ReadToken, Logins!NeedsLogin, Logins!Enter
  <2>4. Held(k)'
    BY <1>1, <1>2, <2>2 DEF Held
  <2>5. Active(k)
    BY <2>2 DEF Active
  <2> QED BY <1>1, <1>2, <1>3, <1>4, <2>2, <2>3, <2>4, <2>5, QuietLogin
<1>5. CASE stored # Nothing
  <2>1. stored \in Nat /\ stored \in DOMAIN issued
    BY <1>5 DEF LoginInv, LoginTypes
  <2>2. PICK k : k = [r EXCEPT !.pc = "client", !.token = stored]
    OBVIOUS
  <2>3. k \in LoginRecords /\ k.pc = "client" /\ k.token = stored
    BY <2>1, <2>2, ClientGiven
  <2>4. ~Active(k)
    BY <2>3 DEF Active
  <2>5. loginCall' = [loginCall EXCEPT ![c] = k]
    BY <1>1, <1>2, <1>5, <2>2 DEF Logins!ReadToken, Logins!NeedsLogin, Logins!Give
  <2>6. Held(k)'
    BY <1>1, <1>2, <2>1, <2>3 DEF Held
  <2> QED BY <1>2, <1>3, <1>5, <2>3, <2>4, <2>5, <2>6, QuietLogin
<1> QED BY <1>4, <1>5

\* A call ends without a client, or with one that is used.
LEMMA LoginEnds ==
    ASSUME LoginInv, NEW c \in Calls,
           Logins!LoginRefused(c) \/ Logins!StoreFails(c) \/ Logins!Use(c)
    PROVE  LoginInv'
<1>1. PICK k \in LoginRecords : k = Logins!NoCall /\ k.pc = "idle"
  BY NoLoginCall
<1>2. /\ LoginTypes /\ overlaps \in Nat /\ faults \in Nat
      /\ account \in BOOLEAN /\ issued \in Seq(LoginFns)
      /\ loginCall' = [loginCall EXCEPT ![c] = k]
      /\ UNCHANGED <<account, issued, stored, overlaps>>
      /\ faults' \in Nat /\ faults <= faults'
      /\ Active(loginCall[c]) => faults < faults'
  BY <1>1 DEF LoginInv, LoginTypes, Logins!LoginRefused, Logins!StoreFails, Logins!Use,
              Logins!Fault, Logins!End, Active
<1>3. ~Active(k) /\ Held(k)'
  BY <1>1 DEF Active, Held
<1> QED BY <1>1, <1>2, <1>3, QuietLogin

\* One call less that will log in pays for one token more.
LEMMA OneLoginLess ==
    ASSUME NEW m \in Nat, NEW n \in Nat, NEW f \in Nat, NEW o \in Nat, NEW g \in Nat,
           NEW b \in BOOLEAN, NEW d \in BOOLEAN, f <= g
    PROVE  /\ m + n <= f + o + (IF b THEN 1 ELSE 0) /\ (d \/ g = f + 1) =>
                  (m + 1) + (n - 1) <= g + o + (IF d THEN 1 ELSE 0)
           /\ m + n <= 1 + f + o => (m + 1) + (n - 1) <= 1 + g + o
OBVIOUS

\* The homeserver gives out a token for a login: Pantalaimon's has one call less
\* that will log in and one token more.
LEMMA LoggedIn ==
    ASSUME LoginInv, NEW c \in Calls, Logins!Login(c) \/ Logins!LoginUnheard(c)
    PROVE  LoginInv'
<1>1. PICK r \in LoginRecords :
          /\ r = loginCall[c] /\ r.pc = "login" /\ r.fn \in LoginFns /\ account
          /\ issued' = Append(issued, r.fn)
          /\ Active(r) <=> r.fn = "pantalaimon"
          /\ Asks(r) <=> r.fn = "pantalaimon"
          /\ LogsIn(r) <=> r.fn = "pantalaimon"
  BY DEF LoginInv, LoginTypes, Logins!Login, Logins!LoginUnheard, Logins!Issue, Held,
         Active, Asks, LogsIn, LoginRecords
<1>2. /\ LoginTypes /\ overlaps \in Nat /\ faults \in Nat
      /\ account \in BOOLEAN /\ issued \in Seq(LoginFns)
      /\ loginCall \in [Calls -> LoginRecords]
      /\ UNCHANGED <<account, stored, overlaps>>
      /\ faults' \in Nat /\ faults <= faults'
  BY DEF LoginInv, LoginTypes, Logins!Login, Logins!LoginUnheard, Logins!Fault
<1>3. /\ issued' \in Seq(LoginFns)
      /\ \A t \in DOMAIN issued : t \in DOMAIN issued' /\ issued'[t] = issued[t]
      /\ Len(issued) + 1 \in DOMAIN issued' /\ issued'[Len(issued) + 1] = r.fn
      /\ Len(issued) + 1 \in Nat
      /\ Cardinality(Given) \in Nat /\ Cardinality(Given') \in Nat
      /\ r.fn = "pantalaimon" => Cardinality(Given') = Cardinality(Given) + 1
      /\ r.fn # "pantalaimon" => Cardinality(Given') = Cardinality(Given)
  BY <1>1, <1>2, TokenGiven
<1>4. PICK none \in LoginRecords : none = Logins!NoCall /\ none.pc = "idle"
  BY NoLoginCall
<1>5. PICK s : s = [r EXCEPT !.pc = "store", !.token = Len(issued) + 1]
  OBVIOUS
<1>6. s \in LoginRecords /\ s.pc = "store" /\ s.fn = r.fn /\ s.token = Len(issued) + 1
  BY <1>3, <1>5 DEF LoginRecords
<1>7. PICK g : g = [r EXCEPT !.pc = "client", !.token = Len(issued) + 1]
  OBVIOUS
<1>8. g \in LoginRecords /\ g.pc = "client" /\ g.fn = r.fn /\ g.token = Len(issued) + 1
  BY <1>3, <1>7, ClientGiven
<1>9. PICK k \in {none, s, g} :
          /\ loginCall' = [loginCall EXCEPT ![c] = k]
          /\ k = none => faults' = faults + 1
          /\ k = s => r.fn = "pantalaimon"
          /\ k = g => r.fn # "pantalaimon"
  <2>1. CASE Logins!Login(c) /\ r.fn = "pantalaimon"
    <3>1. loginCall' = [loginCall EXCEPT ![c] = s]
      <4>1. loginCall' = [loginCall EXCEPT ![c].pc = "store", ![c].token = Len(issued) + 1]
        BY <1>1, <2>1 DEF Logins!Login, Logins!NewToken
      <4> QED BY <1>1, <1>2, <1>5, <4>1
    <3> QED BY <1>4, <1>6, <1>8, <2>1, <3>1
  <2>2. CASE Logins!Login(c) /\ r.fn # "pantalaimon"
    <3>1. loginCall' = [loginCall EXCEPT ![c] = g]
      BY <1>1, <1>2, <1>7, <2>2 DEF Logins!Login, Logins!NewToken, Logins!Give
    <3> QED BY <1>4, <1>6, <1>8, <2>2, <3>1
  <2>3. CASE Logins!LoginUnheard(c)
    <3>1. loginCall' = [loginCall EXCEPT ![c] = none] /\ faults' = faults + 1
      BY <1>4, <2>3 DEF Logins!LoginUnheard, Logins!End, Logins!Fault
    <3> QED BY <1>4, <1>6, <1>8, <3>1
  <2> QED BY <2>1, <2>2, <2>3
<1>10. /\ k \in LoginRecords /\ ~Asks(k) /\ ~LogsIn(k)
       /\ Active(k) <=> k = s
       /\ k.pc # "read"
  BY <1>4, <1>6, <1>8, <1>9 DEF Active, Asks, LogsIn
<1>11. Budget'
  <2>1. CASE r.fn # "pantalaimon"
    <3>1. Cardinality(Given') <= Cardinality(Given) /\ ~Active(loginCall[c])
      BY <1>1, <1>3, <2>1
    <3> QED BY <1>2, <1>3, <1>9, <1>10, <3>1, BudgetStays
  <2>2. CASE r.fn = "pantalaimon"
    <3>1. /\ Cardinality(Asking) \in Nat /\ Cardinality(Asking') = Cardinality(Asking) - 1
          /\ Cardinality(LoggingIn) \in Nat
          /\ Cardinality(LoggingIn') = Cardinality(LoggingIn) - 1
          /\ Active(k) => Busy'
      BY <1>1, <1>9, <1>10, <2>2, LoginCounts
    <3>2. /\ stored = Nothing =>
                 Cardinality(Given) + Cardinality(Asking)
                     <= faults + overlaps + (IF Busy THEN 1 ELSE 0)
          /\ stored # Nothing =>
                 Cardinality(Given) + Cardinality(LoggingIn) <= 1 + faults + overlaps
      BY DEF LoginInv, Budget
    <3>3. Busy' \/ faults' = faults + 1
      BY <1>9, <1>10, <2>2, <3>1
    <3>4. PICK m, n, l, f, o, e, b, d :
              /\ m = Cardinality(Given) /\ n = Cardinality(Asking) /\ l = Cardinality(LoggingIn)
              /\ f = faults /\ o = overlaps /\ e = faults' /\ b = Busy /\ d = Busy'
      OBVIOUS
    <3>5. /\ m \in Nat /\ n \in Nat /\ l \in Nat /\ f \in Nat /\ o \in Nat /\ e \in Nat
          /\ f <= e
      BY <1>2, <1>3, <3>1, <3>4
    <3>6. b \in BOOLEAN /\ d \in BOOLEAN
      BY <3>4 DEF Busy
    <3>7. /\ Cardinality(Given') = m + 1 /\ Cardinality(Asking') = n - 1
          /\ Cardinality(LoggingIn') = l - 1 /\ overlaps' = o
      BY <1>2, <1>3, <2>2, <3>1, <3>4
    <3>8. CASE stored = Nothing
      <4>1. m + n <= f + o + (IF b THEN 1 ELSE 0)
        BY <3>2, <3>4, <3>8
      <4>2. d \/ e = f + 1
        BY <3>3, <3>4
      <4>3. (m + 1) + (n - 1) <= e + o + (IF d THEN 1 ELSE 0)
        BY <3>5, <3>6, <4>1, <4>2, OneLoginLess
      <4> QED BY <1>2, <3>4, <3>7, <3>8, <4>3 DEF Budget
    <3>9. CASE stored # Nothing
      <4>1. m + l <= 1 + f + o
        BY <3>2, <3>4, <3>9
      <4>2. (m + 1) + (l - 1) <= 1 + e + o
        BY <3>5, <3>6, <4>1, OneLoginLess
      <4> QED BY <1>2, <3>4, <3>7, <3>9, <4>2 DEF Budget
    <3> QED BY <3>8, <3>9
  <2> QED BY <2>1, <2>2
<1>12. Held(k)'
  BY <1>1, <1>2, <1>3, <1>4, <1>6, <1>8, <1>9 DEF Held
<1>13. overlaps' = 0 /\ Active(k) => Active(loginCall[c])
  BY <1>1, <1>9, <1>10
<1>14. overlaps' = 0 /\ Active(k) => stored = Nothing
  <2>1. overlaps = 0 /\ Active(loginCall[c]) /\ loginCall[c].pc # "read" => stored = Nothing
    BY DEF LoginInv, TakeTurns
  <2> QED BY <1>1, <1>2, <1>13, <2>1
<1>15. /\ account' \in BOOLEAN /\ (account => account')
       /\ overlaps <= overlaps' /\ overlaps' \in Nat
  BY <1>2
<1>16. /\ loginCall' = [loginCall EXCEPT ![c] = k] /\ k \in LoginRecords
       /\ stored' = stored /\ faults' \in Nat /\ issued' \in Seq(LoginFns)
       /\ \A t \in DOMAIN issued : t \in DOMAIN issued' /\ issued'[t] = issued[t]
  BY <1>2, <1>3, <1>9, <1>10
<1> QED BY <1>11, <1>12, <1>13, <1>14, <1>15, <1>16, LoginMoves

\* The token of a call becomes the stored one. Without overlaps there is no client
\* with an older one.
LEMMA TokenStored ==
    ASSUME LoginInv, NEW c \in Calls, Logins!StoreToken(c)
    PROVE  LoginInv'
<1>1. PICK r \in LoginRecords :
          /\ r = loginCall[c] /\ r.pc = "store" /\ r.fn = "pantalaimon" /\ Active(r)
          /\ ~LogsIn(r) /\ ~Asks(r) /\ account
          /\ r.token \in DOMAIN issued /\ issued[r.token] = "pantalaimon"
  BY DEF LoginInv, LoginTypes, Logins!StoreToken, Held, Active, Asks, LogsIn
<1>2. /\ LoginTypes /\ overlaps \in Nat /\ faults \in Nat
      /\ account \in BOOLEAN /\ issued \in Seq(LoginFns)
      /\ loginCall \in [Calls -> LoginRecords]
      /\ UNCHANGED <<account, issued, faults, overlaps>> /\ stored' = r.token
  BY <1>1 DEF LoginInv, LoginTypes, Logins!StoreToken
<1>3. r.token \in Nat /\ r.token # Nothing
  <2>1. PICK s \in Seq(LoginFns) : s = issued
    BY <1>2
  <2>2. r.token \in Nat
    BY <1>1, <2>1
  <2> QED BY <2>2, ClientAssumption
<1>4. PICK k : k = [r EXCEPT !.pc = "client", !.token = r.token]
  OBVIOUS
<1>5. k \in LoginRecords /\ k.pc = "client" /\ k.token = r.token
  BY <1>3, <1>4, ClientGiven
<1>6. ~Active(k) /\ ~Asks(k) /\ ~LogsIn(k)
  BY <1>5 DEF Active, Asks, LogsIn
<1>7. loginCall' = [loginCall EXCEPT ![c] = k]
  BY <1>1, <1>2, <1>4 DEF Logins!StoreToken, Logins!Give
<1>8. /\ loginCall' \in [Calls -> LoginRecords] /\ loginCall'[c] = k
      /\ \A d \in Calls : d # c => loginCall'[d] = loginCall[d]
  BY <1>2, <1>5, <1>7
<1>9. ASSUME NEW d \in Calls, d # c PROVE Held(loginCall[d])'
  <2>1. Held(loginCall[d])
    BY DEF LoginInv
  <2>2. loginCall[d].pc = "client" /\ loginCall[d].fn = "pantalaimon" => overlaps # 0
    <3> SUFFICES ASSUME loginCall[d].pc = "client", loginCall[d].fn = "pantalaimon",
                        overlaps = 0
                 PROVE  FALSE
      OBVIOUS
    <3>1. stored = Nothing
      BY <1>1 DEF LoginInv, TakeTurns
    <3>2. loginCall[d].token = stored /\ loginCall[d].token \in DOMAIN issued
      BY <2>1 DEF Held
    <3>3. PICK s \in Seq(LoginFns) : s = issued
      BY <1>2
    <3>4. loginCall[d].token \in Nat
      BY <3>2, <3>3
    <3> QED BY <3>1, <3>2, <3>4, ClientAssumption
  <2> QED BY <1>2, <1>8, <1>9, <2>1, <2>2 DEF Held
<1>10. Held(loginCall[c])'
  BY <1>1, <1>2, <1>5, <1>8 DEF Held
<1>11. TakeTurns'
  <2>1. overlaps = 0 => \A d \in Calls : ~Active(loginCall'[d])
    BY <1>1, <1>6, <1>8 DEF LoginInv, TakeTurns
  <2> QED BY <1>2, <2>1 DEF TakeTurns, Active
<1>12. Budget'
  <2>1. Cardinality(Given') = Cardinality(Given) /\ Cardinality(Given) \in Nat
    BY <1>2, GivenIsFinite DEF Given
  <2>2. /\ Cardinality(Asking) \in Nat /\ Cardinality(LoggingIn) \in Nat
        /\ Cardinality(LoggingIn') \in Nat
        /\ Cardinality(LoggingIn') = Cardinality(LoggingIn)
        /\ Cardinality(LoggingIn') <= Cardinality(Asking')
        /\ Cardinality(Asking') = Cardinality(Asking)
    BY <1>1, <1>5, <1>6, <1>7, LoginCounts
  <2>3. Cardinality(Given') + Cardinality(LoggingIn') <= 1 + faults' + overlaps'
    BY <1>2, <2>1, <2>2 DEF LoginInv, Budget
  <2> QED BY <1>2, <1>3, <2>3 DEF Budget
<1>13. IsFiniteSet(Asking')
  BY <1>5, <1>7, LoginCounts
<1>14. stored' # Nothing => stored' \in DOMAIN issued' /\ issued'[stored'] = "pantalaimon"
  BY <1>1, <1>2
<1>15. LoginTypes'
  BY <1>2, <1>3, <1>8 DEF LoginTypes
<1> QED BY <1>8, <1>9, <1>10, <1>11, <1>12, <1>13, <1>14, <1>15 DEF LoginInv

LEMMA LoginCrash ==
    ASSUME LoginInv, Logins!Crash
    PROVE  LoginInv'
<1>1. PICK none \in LoginRecords : none = Logins!NoCall /\ none.pc = "idle"
  BY NoLoginCall
<1>2. /\ LoginTypes /\ overlaps \in Nat /\ faults \in Nat
      /\ loginCall' = [c \in Calls |-> none] /\ faults' = faults + 1
      /\ UNCHANGED <<account, issued, stored, overlaps>>
  BY <1>1 DEF LoginInv, LoginTypes, Logins!Crash, Logins!Fault
<1>3. /\ \A c \in Calls : Held(loginCall[c])' /\ ~Active(loginCall'[c])
      /\ Asking' = {} /\ LoggingIn' = {} /\ ~Busy'
  BY <1>1, <1>2 DEF Held, Active, Asking, LoggingIn, Asks, LogsIn, Busy
<1>4. TakeTurns'
  BY <1>3 DEF TakeTurns, Active
<1>5. Budget'
  <2>1. Cardinality(Given') = Cardinality(Given) /\ Cardinality(Given) \in Nat
    BY <1>2, GivenIsFinite DEF Given
  <2>2. Cardinality(Asking') = 0 /\ Cardinality(LoggingIn') = 0
    BY <1>3, FS_EmptySet
  <2>3. Cardinality(Asking) \in Nat /\ Cardinality(LoggingIn) \in Nat
    <3>1. LoggingIn \subseteq Asking
      BY DEF LoggingIn, Asking, LogsIn, Asks
    <3>2. IsFiniteSet(Asking) /\ IsFiniteSet(LoggingIn)
      BY <3>1, FS_Subset DEF LoginInv
    <3> QED BY <3>2, FS_CardinalityType
  <2>4. /\ stored = Nothing =>
               Cardinality(Given) + Cardinality(Asking)
                   <= faults + overlaps + (IF Busy THEN 1 ELSE 0)
        /\ stored # Nothing =>
               Cardinality(Given) + Cardinality(LoggingIn) <= 1 + faults + overlaps
    BY DEF LoginInv, Budget
  <2>5. /\ stored = Nothing => Cardinality(Given) + 0 <= (faults + 1) + overlaps
        /\ stored # Nothing => Cardinality(Given) + 0 <= 1 + (faults + 1) + overlaps
    BY <1>2, <2>1, <2>3, <2>4
  <2>6. /\ stored' = Nothing =>
               Cardinality(Given') + Cardinality(Asking')
                   <= faults' + overlaps' + (IF Busy' THEN 1 ELSE 0)
        /\ stored' # Nothing =>
               Cardinality(Given') + Cardinality(LoggingIn') <= 1 + faults' + overlaps'
    BY <1>2, <1>3, <2>1, <2>2, <2>5
  <2> QED BY <2>6 DEF Budget
<1>6. IsFiniteSet(Asking')
  BY <1>3, FS_EmptySet
<1>7. LoginTypes'
  BY <1>1, <1>2 DEF LoginTypes
<1> QED BY <1>2, <1>3, <1>4, <1>5, <1>6, <1>7 DEF LoginInv

LEMMA LoginKeeps ==
    ASSUME LoginInv, Logins!Next \/ UNCHANGED loginsVars
    PROVE  LoginInv'
<1>1. CASE Logins!Next
  BY <1>1, LoginsBegin, Registering, TokenRead, LoginEnds, LoggedIn, TokenStored,
     LoginCrash DEF Logins!Next
<1>2. CASE UNCHANGED loginsVars
  <2>1. UNCHANGED <<account, issued, stored, loginCall, faults, overlaps>>
    BY <1>2 DEF loginsVars
  <2>2. Asking' = Asking /\ LoggingIn' = LoggingIn /\ Given' = Given /\ (Busy' <=> Busy)
    BY <2>1 DEF Asking, LoggingIn, Given, Busy
  <2>3. Budget'
    BY <2>1, <2>2 DEF LoginInv, Budget
  <2> QED BY <2>1, <2>2, <2>3 DEF LoginInv, LoginTypes, Held, TakeTurns
<1> QED BY <1>1, <1>2

LEMMA LoginsAreHeld == LoginInv => Logins!LoginsHold
<1> SUFFICES ASSUME LoginInv PROVE Logins!LoginsHold
  OBVIOUS
<1>1. Cardinality(Given) <= 1 + faults + overlaps
  <2>1. Cardinality(Given) \in Nat /\ faults \in Nat /\ overlaps \in Nat
    BY GivenIsFinite DEF LoginInv, LoginTypes
  <2>2. Cardinality(Asking) \in Nat /\ Cardinality(LoggingIn) \in Nat
    <3>1. LoggingIn \subseteq Asking
      BY DEF LoggingIn, Asking, LogsIn, Asks
    <3>2. IsFiniteSet(Asking) /\ IsFiniteSet(LoggingIn)
      BY <3>1, FS_Subset DEF LoginInv
    <3> QED BY <3>2, FS_CardinalityType
  <2>3. \/ Cardinality(Given) + Cardinality(Asking)
               <= faults + overlaps + (IF Busy THEN 1 ELSE 0)
        \/ Cardinality(Given) + Cardinality(LoggingIn) <= 1 + faults + overlaps
    BY DEF LoginInv, Budget
  <2> QED BY <2>1, <2>2, <2>3
<1>2. Logins!LogsInOnce
  BY <1>1 DEF Given, Logins!LogsInOnce, Logins!Cardinality, Cardinality
<1>3. Logins!TokensAreKept
  BY DEF LoginInv, Held, Logins!TokensAreKept
<1> QED BY <1>2, <1>3 DEF Logins!LoginsHold

\* The user ID, the device and the versions a client remembers are those of the
\* homeserver, and Pantalaimon's token is asked for once and kept, with the
\* exceptions the definitions name: late answers, faults and overlapping calls
\* (MatrixClient.impersonateUserId, getWhoAmI and getServerVersions,
\* src/src/MatrixClient.ts; src/src/MatrixAuth.ts and src/src/PantalaimonClient.ts).
THEOREM IdentityAndLogins == PartsSpec => []ClientKnowsItself
<1> DEFINE Inv == /\ part = "identity" => IdentityInv
                  /\ part = "logins" => LoginInv
<1>1. PartsInit => Inv
  BY IdentityStarts, LoginsStart DEF PartsInit, LoginsInit
<1>2. Inv /\ [PartsNext]_partsVars => Inv'
  <2> SUFFICES ASSUME Inv, [PartsNext]_partsVars PROVE Inv'
    OBVIOUS
  <2>1. part = "identity" => IdentityInv'
    BY PartSteps, IdentityKeeps
  <2>2. part = "logins" => LoginInv'
    BY PartSteps, LoginKeeps
  <2> QED BY <2>1, <2>2, PartSteps
<1>3. Inv => ClientKnowsItself
  <2>1. IdentityInv => Identity!MemoryHolds
    BY DEF IdentityInv, InTime, Identity!MemoryHolds, Identity!VersionsAreFresh
  <2> QED BY <2>1, LoginsAreHeld DEF ClientKnowsItself
<1> QED BY <1>1, <1>2, <1>3, PTL DEF PartsSpec
\* A set of naturals has a least one.
LEMMA Least ==
    ASSUME NEW T, T \subseteq Nat, T # {}
    PROVE  \E x \in T : \A y \in T : x <= y
<1> DEFINE R == {pair \in Nat \X Nat : pair[1] < pair[2]}
<1>1. IsWellFoundedOn(R, Nat)
  BY NatLessThanWellFounded DEF OpToRel
<1>2. \E x \in T : \A y \in T : <<y, x>> \notin R
  <2> HIDE DEF R
  <2> QED BY <1>1, WFMin
<1>3. \A x, y \in T : <<y, x>> \notin R => x <= y
  OBVIOUS
<1> QED BY <1>2, <1>3


-----------------------------------------------------------------------------
(* The members of a room                                                    *)

MemberEvents == [user : Objects, membership : Members!Memberships]

\* The membership of a user as the call is to tell it, those it may tell, and
\* whether it is one all the time.
Now(u)    == IF at THEN batch[u] ELSE membership[u]
Had(u)    == IF at THEN {batch[u]} ELSE were[u]
Steady(u) == at \/ were[u] = {Now(u)}

AnswerHolds(i) ==
    /\ answers[i] \subseteq MemberEvents
    /\ \A e \in answers[i] :
           Members!Matches(queries[i], e.membership) /\ e.membership \in Had(e.user)
    /\ \A e, f \in answers[i] : e.user = f.user => e = f
    /\ \A u \in Objects : Steady(u) /\ Members!Matches(queries[i], Now(u)) =>
           [user |-> u, membership |-> Now(u)] \in answers[i]

MemberInv ==
    /\ membership \in [Objects -> Members!Memberships]
    /\ batch \in [Objects -> Members!Memberships]
    /\ at \in BOOLEAN /\ were \in [Objects -> SUBSET Members!Memberships]
    /\ ~at => \A u \in Objects : membership[u] \in were[u]
    /\ \E n \in Nat : DOMAIN answers = 1..n
    /\ queries # Nothing => DOMAIN queries = DOMAIN answers
    /\ \A i \in DOMAIN answers : answers[i] # Nothing => AnswerHolds(i)
    /\ result # Nothing =>
           /\ queries # Nothing /\ result = Members!PutTogether(answers)
           /\ \A i \in DOMAIN answers : answers[i] # Nothing

LEMMA MembersStart == Members!Init => MemberInv
<1> SUFFICES ASSUME Members!Init PROVE MemberInv
  OBVIOUS
<1>1. /\ queries = Nothing /\ answers = <<>> /\ result = Nothing /\ at = FALSE
      /\ membership \in [Objects -> Members!Memberships] /\ batch = membership
      /\ were = [u \in Objects |-> {membership[u]}]
  BY DEF Members!Init
<1>2. DOMAIN answers = 1..0 /\ DOMAIN answers = {}
  BY <1>1
<1> QED BY <1>1, <1>2 DEF MemberInv

LEMMA MoveKeeps ==
    ASSUME MemberInv, NEW u \in Objects, NEW m \in Members!Memberships, Members!Change(u, m)
    PROVE  MemberInv'
<1>1. /\ UNCHANGED <<batch, queries, at, answers, result>>
      /\ membership' = [membership EXCEPT ![u] = m]
      /\ were' = [were EXCEPT ![u] = were[u] \cup {m}]
  BY DEF Members!Change
<1>2. /\ membership' \in [Objects -> Members!Memberships]
      /\ membership'[u] = m /\ \A v \in Objects : v # u => membership'[v] = membership[v]
  BY <1>1 DEF MemberInv
<1>3. /\ were' \in [Objects -> SUBSET Members!Memberships]
      /\ were'[u] = were[u] \cup {m} /\ \A v \in Objects : v # u => were'[v] = were[v]
  BY <1>1 DEF MemberInv
<1>4. ~at => \A v \in Objects : membership'[v] \in were'[v]
  BY <1>2, <1>3 DEF MemberInv
<1>5. \A v \in Objects : Had(v) \subseteq Had(v)'
  BY <1>1, <1>3 DEF Had
<1>6. ASSUME NEW v \in Objects, Steady(v)'
      PROVE  Steady(v) /\ Now(v)' = Now(v)
  <2>1. CASE at
    BY <1>1, <2>1 DEF Steady, Now
  <2>2. CASE ~at
    <3>1. were'[v] = {membership'[v]} /\ membership[v] \in were[v]
      BY <1>1, <1>6, <2>2 DEF Steady, Now, MemberInv
    <3>2. were[v] = {membership'[v]} /\ membership[v] = membership'[v]
      BY <1>3, <3>1
    <3> QED BY <1>1, <2>2, <3>2 DEF Steady, Now
  <2> QED BY <2>1, <2>2
<1>7. ASSUME NEW i \in DOMAIN answers', answers'[i] # Nothing
      PROVE  AnswerHolds(i)'
  <2>1. AnswerHolds(i) /\ answers'[i] = answers[i] /\ queries'[i] = queries[i]
    BY <1>1, <1>7 DEF MemberInv
  <2>2. ASSUME NEW e \in answers'[i]
        PROVE  Members!Matches(queries'[i], e.membership) /\ e.membership \in Had(e.user)'
    BY <1>5, <2>1, <2>2 DEF AnswerHolds, MemberEvents
  <2>3. ASSUME NEW v \in Objects, Steady(v)', Members!Matches(queries'[i], Now(v)')
        PROVE  [user |-> v, membership |-> Now(v)'] \in answers'[i]
    BY <1>6, <2>1, <2>3 DEF AnswerHolds
  <2> QED BY <2>1, <2>2, <2>3 DEF AnswerHolds
<1> QED BY <1>1, <1>2, <1>3, <1>4, <1>7 DEF MemberInv, Members!PutTogether, Members!Range

LEMMA QueriesAreAList ==
    ASSUME NEW sought \in Searches \cup {Nothing}, NEW unsought \in Searches \cup {Nothing}
    PROVE  \E n \in Nat : DOMAIN Members!QueriesOf(sought, unsought) = 1..n
<1> DEFINE search == IF sought = Nothing THEN <<>> ELSE sought
           skip   == IF unsought = Nothing THEN <<>> ELSE unsought
           all    == [only |-> Nothing, except |-> Nothing]
<1>1. Len(search) \in Nat /\ Len(skip) \in Nat
  BY ClientAssumption
<1>2. CASE sought = Nothing /\ unsought = Nothing
  <2>1. DOMAIN <<all>> = 1..1
    OBVIOUS
  <2> QED BY <1>2, <2>1 DEF Members!QueriesOf
<1>3. CASE ~(sought = Nothing /\ unsought = Nothing)
  <2>1. Len(search) + Len(skip) \in Nat
    <3> HIDE DEF search, skip
    <3> QED BY <1>1
  <2>2. DOMAIN Members!QueriesOf(sought, unsought) = 1..(Len(search) + Len(skip))
    BY <1>3 DEF Members!QueriesOf
  <2> HIDE DEF search, skip
  <2> QED BY <2>1, <2>2
<1> QED BY <1>2, <1>3

LEMMA AskedKeeps ==
    ASSUME MemberInv, NEW sought \in Searches \cup {Nothing},
           NEW unsought \in Searches \cup {Nothing}, NEW atToken \in BOOLEAN,
           Members!GetRoomMembers(sought, unsought, atToken)
    PROVE  MemberInv'
<1>1. /\ UNCHANGED <<membership, batch, result>> /\ queries = Nothing /\ at' = atToken
      /\ queries' = Members!QueriesOf(sought, unsought)
      /\ answers' = [i \in DOMAIN queries' |-> Nothing]
      /\ were' = [u \in Objects |-> {IF atToken THEN batch[u] ELSE membership[u]}]
  BY DEF Members!GetRoomMembers
<1>2. \E n \in Nat : DOMAIN answers' = 1..n
  BY <1>1, QueriesAreAList
<1>3. /\ DOMAIN queries' = DOMAIN answers' /\ result' = Nothing
      /\ \A i \in DOMAIN answers' : answers'[i] = Nothing
  BY <1>1 DEF MemberInv
<1>4. /\ were' \in [Objects -> SUBSET Members!Memberships]
      /\ ~atToken => \A u \in Objects : membership[u] \in were'[u]
  BY <1>1 DEF MemberInv
<1> QED BY <1>1, <1>2, <1>3, <1>4 DEF MemberInv

LEMMA AnswerKeeps ==
    ASSUME MemberInv, NEW i \in DOMAIN answers, Members!Answer(i)
    PROVE  MemberInv'
<1> DEFINE given_events == {[user |-> u, membership |-> Now(u)] :
                       u \in {v \in Objects : Members!Matches(queries[i], Now(v))}}
<1>1. /\ UNCHANGED <<membership, batch, queries, at, result, were>> /\ answers[i] = Nothing
      /\ answers' = [answers EXCEPT ![i] = given_events]
  BY DEF Members!Answer, Now
<1>2. /\ DOMAIN answers' = DOMAIN answers /\ answers'[i] = given_events
      /\ \A j \in DOMAIN answers : j # i => answers'[j] = answers[j]
  <2> HIDE DEF given_events
  <2> QED BY <1>1
<1>3. \A u \in Objects : Now(u) \in Members!Memberships /\ Now(u) \in Had(u)
  BY DEF MemberInv, Now, Had
<1>4. \A e \in given_events : \E u \in Objects :
          /\ e = [user |-> u, membership |-> Now(u)]
          /\ Members!Matches(queries[i], Now(u))
  OBVIOUS
<1>5. given_events \subseteq MemberEvents
  BY <1>3, <1>4 DEF MemberEvents
<1>6. \A e \in given_events :
          /\ Members!Matches(queries[i], e.membership)
          /\ e.membership \in Had(e.user) /\ e.membership = Now(e.user)
  BY <1>3, <1>4
<1>7. \A e, f \in given_events : e.user = f.user => e = f
  BY <1>5, <1>6 DEF MemberEvents
<1>8. \A u \in Objects : Members!Matches(queries[i], Now(u)) =>
          [user |-> u, membership |-> Now(u)] \in given_events
  OBVIOUS
<1>9. ASSUME NEW j \in DOMAIN answers', answers'[j] # Nothing
      PROVE  AnswerHolds(j)'
  <2>1. \A u : Now(u)' = Now(u) /\ Had(u)' = Had(u) /\ (Steady(u)' <=> Steady(u))
    BY <1>1 DEF Now, Had, Steady
  <2>2. CASE j = i
    <3> HIDE DEF given_events
    <3> QED BY <1>1, <1>2, <1>5, <1>6, <1>7, <1>8, <2>1, <2>2 DEF AnswerHolds
  <2>3. CASE j # i
    <3>1. AnswerHolds(j) /\ answers'[j] = answers[j]
      BY <1>2, <1>9, <2>3 DEF MemberInv
    <3> QED BY <1>1, <2>1, <3>1 DEF AnswerHolds
  <2> QED BY <2>2, <2>3
<1>10. result' = Nothing
  BY <1>1 DEF MemberInv
<1> QED BY <1>1, <1>2, <1>9, <1>10 DEF MemberInv

LEMMA EndKeeps ==
    ASSUME MemberInv, Members!Resolve \/ Members!Reject
    PROVE  MemberInv'
<1>1. UNCHANGED <<membership, batch, at, were>>
  BY DEF Members!Resolve, Members!Reject
<1>2. CASE Members!Resolve
  <2>1. /\ UNCHANGED <<queries, answers>> /\ queries # Nothing
        /\ \A i \in DOMAIN answers : answers[i] # Nothing
        /\ result' = Members!PutTogether(answers)
    BY <1>2 DEF Members!Resolve
  <2>2. \A i \in DOMAIN answers' : AnswerHolds(i)'
    BY <1>1, <2>1 DEF MemberInv, AnswerHolds, Now, Had, Steady
  <2> QED BY <1>1, <2>1, <2>2 DEF MemberInv, Members!PutTogether, Members!Range
<1>3. CASE Members!Reject
  <2>1. queries' = Nothing /\ answers' = <<>> /\ result' = Nothing
    BY <1>3 DEF Members!Reject
  <2>2. DOMAIN answers' = 1..0 /\ DOMAIN answers' = {}
    BY <2>1
  <2> QED BY <1>1, <2>1, <2>2 DEF MemberInv
<1> QED BY <1>2, <1>3

LEMMA MembersKeep ==
    ASSUME MemberInv, Members!Next \/ UNCHANGED membersVars
    PROVE  MemberInv'
<1>1. CASE Members!Next
  BY <1>1, MoveKeeps, AskedKeeps, AnswerKeeps, EndKeeps DEF Members!Next
<1>2. CASE UNCHANGED membersVars
  <2>1. UNCHANGED <<membership, batch, queries, at, answers, result, were>>
    BY <1>2 DEF membersVars
  <2>2. \A i \in DOMAIN answers' : answers'[i] # Nothing => AnswerHolds(i)'
    BY <2>1 DEF MemberInv, AnswerHolds, Now, Had, Steady
  <2> QED BY <2>1, <2>2 DEF MemberInv, Members!PutTogether, Members!Range
<1> QED BY <1>1, <1>2

LEMMA ResultHolds == MemberInv => Members!MembersAreTrue
<1> SUFFICES ASSUME MemberInv, result # Nothing PROVE Members!MembersAreTrue
  BY DEF Members!MembersAreTrue
<1>1. /\ DOMAIN queries = DOMAIN answers
      /\ \A i \in DOMAIN answers : AnswerHolds(i)
      /\ result = Members!PutTogether(answers)
  BY DEF MemberInv
<1>2. PICK n \in Nat : DOMAIN answers = 1..n
  BY DEF MemberInv
<1>3. ASSUME NEW e
      PROVE  e \in result <=> \E i \in DOMAIN answers :
                 /\ e \in answers[i]
                 /\ \A j \in 1..(i - 1) : \A f \in answers[j] : f.user # e.user
  BY <1>1 DEF Members!PutTogether, Members!Range, Range
<1>4. ASSUME NEW e \in result, NEW f \in result, e.user = f.user PROVE e = f
  <2>1. PICK i \in DOMAIN answers :
            e \in answers[i] /\ \A j \in 1..(i - 1) : \A g \in answers[j] : g.user # e.user
    BY <1>3, <1>4
  <2>2. PICK k \in DOMAIN answers :
            f \in answers[k] /\ \A j \in 1..(k - 1) : \A g \in answers[j] : g.user # f.user
    BY <1>3, <1>4
  <2>3. i \notin 1..(k - 1) /\ k \notin 1..(i - 1)
    BY <1>4, <2>1, <2>2
  <2>4. i = k
    BY <1>2, <2>3
  <2> QED BY <1>1, <1>4, <2>1, <2>2, <2>4 DEF AnswerHolds
<1>5. ASSUME NEW e \in result
      PROVE  /\ Members!Asked(e.membership)
             /\ e.membership \in (IF at THEN {batch[e.user]} ELSE were[e.user])
  <2>1. PICK i \in DOMAIN answers : e \in answers[i]
    BY <1>3, <1>5
  <2> QED BY <1>1, <2>1 DEF AnswerHolds, Members!Asked, Had
<1>6. ASSUME NEW u \in Objects, Steady(u), Members!Asked(Now(u))
      PROVE  [user |-> u, membership |-> Now(u)] \in result
  <2> DEFINE r == [user |-> u, membership |-> Now(u)]
             listed == {i \in DOMAIN answers : \E f \in answers[i] : f.user = u}
  <2>1. PICK i \in DOMAIN answers : Members!Matches(queries[i], Now(u))
    BY <1>1, <1>6 DEF Members!Asked
  <2>2. r \in answers[i]
    BY <1>1, <1>6, <2>1 DEF AnswerHolds
  <2>3. listed \subseteq Nat /\ listed # {}
    <3>1. r.user = u
      OBVIOUS
    <3> QED BY <1>2, <2>2, <3>1
  <2>4. PICK j \in listed : \A k \in listed : j <= k
    <3> HIDE DEF listed
    <3> QED BY <2>3, Least
  <2>5. PICK f \in answers[j] : f.user = u
    BY <2>4
  <2>6. f \in MemberEvents /\ f.membership \in Had(u)
    BY <1>1, <2>4, <2>5 DEF AnswerHolds
  <2>7. f = r
    BY <1>6, <2>5, <2>6 DEF MemberEvents, Had, Steady, Now
  <2>8. \A k \in 1..(j - 1) : k \notin listed /\ k \in DOMAIN answers
    BY <1>2, <2>3, <2>4
  <2>9. \A k \in 1..(j - 1) : \A g \in answers[k] : g.user # f.user
    BY <2>5, <2>8
  <2>10. f \in result
    BY <1>3, <2>4, <2>5, <2>9
  <2> QED BY <2>7, <2>10
<1> QED BY <1>4, <1>5, <1>6 DEF Members!MembersAreTrue, Now, Steady

-----------------------------------------------------------------------------
(* The history of an upgraded room                                          *)

AllRooms   == {Lobby} \cup Objects
References == Seq([roomId : AllRooms, ref : BOOLEAN])
Links      == [AllRooms -> AllRooms \cup {Nothing}]

\* The room a walk has come to.
LastRoom(refs) == IF refs = <<>> THEN Lobby ELSE refs[Len(refs)].roomId

\* The room before one of a walk.
RoomBefore(refs, i) == IF i = 1 THEN Lobby ELSE refs[i - 1].roomId

WalkHolds(refs, next) ==
    /\ refs \in References
    /\ Upgrades!IsWalk(refs, next)
    /\ IsFiniteSet(Upgrades!Ids(refs)) /\ Cardinality(Upgrades!Ids(refs)) = Len(refs)
    /\ Upgrades!Ids(refs) \subseteq Upgrades!Reached(next, Lobby)

UpgradeInv ==
    /\ predecessor \in Links /\ replacement \in Links
    /\ readable \in {AllRooms, {Lobby}} /\ room \in AllRooms
    /\ WalkHolds(previous, predecessor) /\ WalkHolds(newer, replacement)
    /\ walk \in {"creates", "tombstone of predecessor"} =>
           room = LastRoom(previous) /\ newer = <<>>
    /\ walk \in {"tombstones", "create of replacement"} => room = LastRoom(newer)
    /\ walk = "tombstone of predecessor" =>
           predecessor[room] \in AllRooms /\ predecessor[room] \notin Upgrades!Ids(previous)
    /\ walk = "create of replacement" =>
           replacement[room] \in AllRooms /\ replacement[room] \notin Upgrades!Ids(newer)
    /\ \A i \in DOMAIN previous :
           previous[i].ref => replacement[previous[i].roomId] = RoomBefore(previous, i)
    /\ Upgrades!Agree /\ readable = AllRooms => \A i \in DOMAIN newer : newer[i].ref

\* The references of a room that is reached lead to rooms that are reached.
LEMMA ReachedIsClosed ==
    ASSUME NEW next \in Links, NEW r \in {Lobby} \cup Upgrades!Reached(next, Lobby),
           next[r] \in AllRooms
    PROVE  next[r] \in Upgrades!Reached(next, Lobby)
<1>1. ASSUME NEW S \in SUBSET AllRooms,
             ({next[Lobby]} \cup {next[s] : s \in S}) \ {Nothing} \subseteq S
      PROVE  next[r] \in S
  <2>1. next[r] # Nothing
    BY ClientAssumption DEF AllRooms
  <2>2. r = Lobby \/ r \in S
    BY <1>1 DEF Upgrades!Reached, AllRooms
  <2> QED BY <1>1, <2>1, <2>2
<1> QED BY <1>1 DEF Upgrades!Reached, AllRooms

\* A reference that is added takes nothing away.
LEMMA ReachedGrows ==
    ASSUME NEW next \in Links, NEW more \in Links,
           \A r \in AllRooms : next[r] # Nothing => more[r] = next[r]
    PROVE  Upgrades!Reached(next, Lobby) \subseteq Upgrades!Reached(more, Lobby)
<1> SUFFICES ASSUME NEW r \in Upgrades!Reached(next, Lobby), NEW S \in SUBSET AllRooms,
                    ({more[Lobby]} \cup {more[s] : s \in S}) \ {Nothing} \subseteq S
             PROVE  r \in S
  BY DEF Upgrades!Reached, AllRooms
<1>1. \A s \in {Lobby} \cup S : more[s] # Nothing => more[s] \in S
  OBVIOUS
<1>2. \A s \in {Lobby} \cup S : next[s] # Nothing => next[s] \in S
  BY <1>1 DEF AllRooms
<1>3. ({next[Lobby]} \cup {next[s] : s \in S}) \ {Nothing} \subseteq S
  BY <1>2
<1> QED BY <1>3 DEF Upgrades!Reached, AllRooms

LEMMA BeforeIsARoom ==
    ASSUME NEW refs \in References, NEW i \in DOMAIN refs
    PROVE  RoomBefore(refs, i) \in AllRooms /\ refs[i].roomId \in AllRooms
<1>1. PICK kinds : kinds = [roomId : AllRooms, ref : BOOLEAN]
  OBVIOUS
<1>2. refs \in Seq(kinds) /\ \A k \in kinds : k.roomId \in AllRooms
  BY <1>1 DEF References
<1>3. DOMAIN refs = 1..Len(refs) /\ Len(refs) \in Nat /\ \A j \in 1..Len(refs) : refs[j] \in kinds
  BY <1>2, ElementOfSeq
<1>4. i # 1 => i - 1 \in DOMAIN refs
  BY <1>3
<1> QED BY <1>2, <1>3, <1>4 DEF RoomBefore, AllRooms

LEMMA WalkGrows ==
    ASSUME NEW next \in Links, NEW more \in Links,
           \A r \in AllRooms : next[r] # Nothing => more[r] = next[r],
           NEW refs, WalkHolds(refs, next)
    PROVE  WalkHolds(refs, more)
<1>1. ASSUME NEW i \in DOMAIN refs PROVE refs[i].roomId = more[RoomBefore(refs, i)]
  <2>1. RoomBefore(refs, i) \in AllRooms /\ refs[i].roomId \in AllRooms
    BY BeforeIsARoom DEF WalkHolds
  <2>2. refs[i].roomId = next[RoomBefore(refs, i)]
    BY DEF WalkHolds, Upgrades!IsWalk, RoomBefore
  <2>3. refs[i].roomId # Nothing
    BY <2>1, ClientAssumption DEF AllRooms
  <2> QED BY <2>1, <2>2, <2>3
<1>2. Upgrades!IsWalk(refs, more)
  BY <1>1 DEF Upgrades!IsWalk, RoomBefore
<1>3. Upgrades!Ids(refs) \subseteq Upgrades!Reached(more, Lobby)
  BY ReachedGrows DEF WalkHolds
<1> QED BY <1>2, <1>3 DEF WalkHolds

LEMMA EmptyWalk ==
    ASSUME NEW next PROVE WalkHolds(<<>>, next)
<1>1. Upgrades!Ids(<<>>) = {}
  BY DEF Upgrades!Ids
<1>2. Upgrades!IsWalk(<<>>, next)
  BY DEF Upgrades!IsWalk
<1> QED BY <1>1, <1>2, FS_EmptySet DEF WalkHolds, References

\* The next room of a walk is found.
LEMMA WalkContinues ==
    ASSUME NEW next \in Links, NEW refs, WalkHolds(refs, next),
           next[LastRoom(refs)] \in AllRooms,
           next[LastRoom(refs)] \notin Upgrades!Ids(refs),
           NEW e \in [roomId : AllRooms, ref : BOOLEAN], e.roomId = next[LastRoom(refs)]
    PROVE  /\ WalkHolds(Append(refs, e), next)
           /\ LastRoom(Append(refs, e)) = e.roomId
           /\ DOMAIN Append(refs, e) = DOMAIN refs \cup {Len(refs) + 1}
           /\ \A i \in DOMAIN refs : /\ Append(refs, e)[i] = refs[i]
                                     /\ RoomBefore(Append(refs, e), i) = RoomBefore(refs, i)
           /\ Append(refs, e)[Len(refs) + 1] = e
           /\ RoomBefore(Append(refs, e), Len(refs) + 1) = LastRoom(refs)
<1>1. /\ refs \in References /\ Len(refs) \in Nat /\ DOMAIN refs = 1..Len(refs)
      /\ (refs = <<>> <=> Len(refs) = 0)
  BY EmptySeq DEF WalkHolds, References
<1>2. PICK more : more = Append(refs, e)
  OBVIOUS
<1>3. /\ more \in References /\ Len(more) = Len(refs) + 1
      /\ \A i \in 1..Len(refs) : more[i] = refs[i]
      /\ more[Len(refs) + 1] = e
  BY <1>1, <1>2, AppendProperties DEF References
<1>4. DOMAIN more = DOMAIN refs \cup {Len(refs) + 1} /\ more # <<>>
  <2>1. DOMAIN more = 1..(Len(refs) + 1)
    BY <1>1, <1>3 DEF References
  <2> QED BY <1>1, <1>3, <2>1
<1>5. \A i \in DOMAIN refs : RoomBefore(more, i) = RoomBefore(refs, i)
  <2> SUFFICES ASSUME NEW i \in DOMAIN refs PROVE RoomBefore(more, i) = RoomBefore(refs, i)
    OBVIOUS
  <2>1. i # 1 => i - 1 \in 1..Len(refs)
    BY <1>1
  <2> QED BY <1>3, <2>1 DEF RoomBefore
<1>6. RoomBefore(more, Len(refs) + 1) = LastRoom(refs)
  <2>1. CASE Len(refs) = 0
    BY <1>1, <2>1 DEF RoomBefore, LastRoom
  <2>2. CASE Len(refs) # 0
    <3>1. Len(refs) + 1 # 1 /\ (Len(refs) + 1) - 1 = Len(refs) /\ Len(refs) \in 1..Len(refs)
      BY <1>1, <2>2
    <3>2. refs # <<>> /\ more[Len(refs)] = refs[Len(refs)]
      BY <1>1, <1>3, <2>2, <3>1
    <3> QED BY <3>1, <3>2 DEF RoomBefore, LastRoom
  <2> QED BY <2>1, <2>2
<1>7. LastRoom(more) = e.roomId
  BY <1>3, <1>4 DEF LastRoom
<1>8. Upgrades!IsWalk(more, next)
  <2>1. ASSUME NEW i \in DOMAIN more PROVE more[i].roomId = next[RoomBefore(more, i)]
    <3>1. CASE i \in DOMAIN refs
      <4>1. refs[i].roomId = next[RoomBefore(refs, i)]
        BY <3>1 DEF WalkHolds, Upgrades!IsWalk, RoomBefore
      <4> QED BY <1>1, <1>3, <1>5, <3>1, <4>1
    <3>2. CASE i = Len(refs) + 1
      BY <1>3, <1>6, <3>2
    <3> QED BY <1>4, <2>1, <3>1, <3>2
  <2> QED BY <2>1 DEF Upgrades!IsWalk, RoomBefore
<1>9. Upgrades!Ids(more) = Upgrades!Ids(refs) \cup {e.roomId}
  BY <1>1, <1>3, <1>4 DEF Upgrades!Ids
<1>10. IsFiniteSet(Upgrades!Ids(more)) /\ Cardinality(Upgrades!Ids(more)) = Len(more)
  <2>1. PICK ids : ids = Upgrades!Ids(refs)
    OBVIOUS
  <2>2. IsFiniteSet(ids) /\ Cardinality(ids) = Len(refs) /\ e.roomId \notin ids
    BY <2>1 DEF WalkHolds
  <2>3. /\ IsFiniteSet(ids \cup {e.roomId})
        /\ Cardinality(ids \cup {e.roomId}) = Cardinality(ids) + 1
    BY <2>2, FS_AddElement
  <2> QED BY <1>3, <1>9, <2>1, <2>2, <2>3
<1>11. e.roomId \in Upgrades!Reached(next, Lobby)
  <2>1. LastRoom(refs) \in {Lobby} \cup Upgrades!Ids(refs)
    BY <1>1 DEF LastRoom, Upgrades!Ids
  <2>2. PICK r \in {Lobby} \cup Upgrades!Reached(next, Lobby) : r = LastRoom(refs)
    BY <2>1 DEF WalkHolds
  <2> QED BY <2>2, ReachedIsClosed
<1>12. WalkHolds(more, next)
  BY <1>3, <1>8, <1>9, <1>10, <1>11 DEF WalkHolds
<1> QED BY <1>1, <1>2, <1>3, <1>4, <1>5, <1>6, <1>7, <1>12

LEMMA UpgradesStart == Upgrades!Init => UpgradeInv
<1> SUFFICES ASSUME Upgrades!Init PROVE UpgradeInv
  OBVIOUS
<1>1. /\ previous = <<>> /\ newer = <<>> /\ room = Lobby /\ walk = "creates"
      /\ predecessor \in Links /\ replacement \in Links
      /\ readable \in {AllRooms, {Lobby}}
  BY DEF Upgrades!Init, Links, AllRooms
<1> QED BY <1>1, EmptyWalk DEF UpgradeInv, LastRoom, AllRooms

LEMMA UpgradeKeeps ==
    ASSUME UpgradeInv, NEW old \in AllRooms, NEW new \in AllRooms, Upgrades!Upgrade(old, new)
    PROVE  UpgradeInv'
<1>1. /\ old # new /\ new # Lobby
      /\ replacement[old] = Nothing /\ predecessor[new] = Nothing
      /\ \A r \in AllRooms : predecessor[r] # new /\ replacement[r] # new
      /\ predecessor' = [predecessor EXCEPT ![new] = old]
      /\ replacement' = [replacement EXCEPT ![old] = new]
      /\ UNCHANGED <<readable, walk, room, previous, newer, current>>
  <2>1. DOMAIN predecessor = AllRooms /\ DOMAIN replacement = AllRooms
    BY DEF UpgradeInv, Links
  <2>2. new \notin Upgrades!Range(predecessor) /\ new \notin Upgrades!Range(replacement)
    BY DEF Upgrades!Upgrade
  <2>3. \A r \in AllRooms : predecessor[r] # new /\ replacement[r] # new
    BY <2>1, <2>2 DEF Upgrades!Range, Range
  <2> QED BY <2>3 DEF Upgrades!Upgrade
<1>2. /\ predecessor' \in Links /\ replacement' \in Links
      /\ \A r \in AllRooms : predecessor[r] # Nothing => predecessor'[r] = predecessor[r]
      /\ \A r \in AllRooms : replacement[r] # Nothing => replacement'[r] = replacement[r]
  BY <1>1 DEF UpgradeInv, Links
<1>3. WalkHolds(previous', predecessor') /\ WalkHolds(newer', replacement')
  BY <1>1, <1>2, WalkGrows DEF UpgradeInv
<1>4. Nothing \notin AllRooms
  BY ClientAssumption DEF AllRooms
<1>5. walk' = "tombstone of predecessor" =>
          predecessor'[room'] \in AllRooms /\ predecessor'[room'] \notin Upgrades!Ids(previous')
  BY <1>1, <1>2, <1>4 DEF UpgradeInv
<1>6. walk' = "create of replacement" =>
          replacement'[room'] \in AllRooms /\ replacement'[room'] \notin Upgrades!Ids(newer')
  BY <1>1, <1>2, <1>4 DEF UpgradeInv
<1>7. ASSUME NEW i \in DOMAIN previous', previous'[i].ref
      PROVE  replacement'[previous'[i].roomId] = RoomBefore(previous', i)
  <2>1. RoomBefore(previous, i) \in AllRooms /\ previous[i].roomId \in AllRooms
    BY <1>1, <1>7, BeforeIsARoom DEF UpgradeInv, WalkHolds
  <2>2. replacement[previous[i].roomId] = RoomBefore(previous, i)
    BY <1>1, <1>7 DEF UpgradeInv
  <2> QED BY <1>1, <1>2, <1>4, <2>1, <2>2
<1>8. Upgrades!Agree' => Upgrades!Agree
  <2>1. ASSUME NEW r \in AllRooms, NEW s \in AllRooms,
               predecessor'[s] = r <=> replacement'[r] = s
        PROVE  predecessor[s] = r <=> replacement[r] = s
    BY <1>1, <1>4, <2>1 DEF UpgradeInv, Links
  <2> QED BY <2>1 DEF Upgrades!Agree, AllRooms
<1> QED BY <1>1, <1>2, <1>3, <1>5, <1>6, <1>7, <1>8 DEF UpgradeInv, LastRoom

LEMMA CreatesKeep ==
    ASSUME UpgradeInv, Upgrades!CreatesEnd \/ Upgrades!CreateRead
    PROVE  UpgradeInv'
<1>1. UNCHANGED <<predecessor, replacement, readable, previous, newer>> /\ walk = "creates"
  BY DEF Upgrades!CreatesEnd, Upgrades!CreateRead
<1>2. WalkHolds(previous, predecessor)' /\ WalkHolds(newer, replacement)'
  BY <1>1 DEF UpgradeInv
<1>3. room' \in AllRooms
  BY DEF UpgradeInv, AllRooms, Upgrades!CreatesEnd, Upgrades!CreateRead
<1>4. Upgrades!Agree' => Upgrades!Agree
  BY <1>1 DEF Upgrades!Agree
<1>5. CASE Upgrades!CreatesEnd
  <2>1. walk' = "tombstones" /\ room' = LastRoom(newer')
    BY <1>1, <1>5 DEF UpgradeInv, LastRoom, Upgrades!CreatesEnd
  <2> QED BY <1>1, <1>2, <1>3, <1>4, <2>1 DEF UpgradeInv, RoomBefore
<1>6. CASE Upgrades!CreateRead
  <2>1. walk' = "tombstone of predecessor" /\ room' = room
    BY <1>6 DEF Upgrades!CreateRead
  <2>2. predecessor[room] \in AllRooms /\ predecessor[room] \notin Upgrades!Ids(previous)
    BY <1>6 DEF UpgradeInv, Upgrades!CreateRead, Upgrades!Seen, Links
  <2>3. predecessor'[room'] \in AllRooms /\ predecessor'[room'] \notin Upgrades!Ids(previous)'
    BY <1>1, <2>1, <2>2 DEF Upgrades!Ids
  <2>4. room' = LastRoom(previous)' /\ newer' = <<>>
    BY <1>1, <2>1 DEF UpgradeInv, LastRoom
  <2> QED BY <1>1, <1>2, <1>3, <1>4, <2>1, <2>3, <2>4 DEF UpgradeInv, RoomBefore
<1> QED BY <1>5, <1>6

LEMMA PredecessorKeeps ==
    ASSUME UpgradeInv, Upgrades!PredecessorRead
    PROVE  UpgradeInv'
<1>1. PICK e : e = [roomId |-> predecessor[room],
                    ref |-> predecessor[room] \in readable /\ replacement[predecessor[room]] = room]
  OBVIOUS
<1>2. /\ walk = "tombstone of predecessor" /\ walk' = "creates"
      /\ previous' = Append(previous, e) /\ room' = predecessor[room]
      /\ UNCHANGED <<predecessor, replacement, readable, newer>>
  BY <1>1 DEF Upgrades!PredecessorRead
<1>3. /\ room = LastRoom(previous) /\ newer = <<>>
      /\ predecessor[room] \in AllRooms /\ predecessor[room] \notin Upgrades!Ids(previous)
      /\ predecessor \in Links /\ WalkHolds(previous, predecessor)
  BY <1>2 DEF UpgradeInv
<1>4. /\ e \in [roomId : AllRooms, ref : BOOLEAN] /\ e.roomId = predecessor[LastRoom(previous)]
      /\ e.ref => replacement[e.roomId] = room
  BY <1>1, <1>3
<1>5. /\ WalkHolds(previous', predecessor) /\ LastRoom(previous') = e.roomId
      /\ DOMAIN previous' = DOMAIN previous \cup {Len(previous) + 1}
      /\ \A i \in DOMAIN previous : /\ previous'[i] = previous[i]
                                    /\ RoomBefore(previous', i) = RoomBefore(previous, i)
      /\ previous'[Len(previous) + 1] = e
      /\ RoomBefore(previous', Len(previous) + 1) = LastRoom(previous)
  <2>1. PICK refs \in References : refs = previous
    BY <1>3 DEF WalkHolds
  <2> PICK next \in Links : next = predecessor
    BY <1>3
  <2>2. /\ WalkHolds(refs, next) /\ e.roomId = next[LastRoom(refs)]
        /\ next[LastRoom(refs)] \in AllRooms /\ next[LastRoom(refs)] \notin Upgrades!Ids(refs)
    BY <1>3, <1>4, <2>1
  <2>3. previous' = Append(refs, e)
    BY <1>2, <2>1
  <2> QED BY <1>4, <2>1, <2>2, <2>3, WalkContinues
<1>6. ASSUME NEW i \in DOMAIN previous', previous'[i].ref
      PROVE  replacement[previous'[i].roomId] = RoomBefore(previous', i)
  <2>1. CASE i \in DOMAIN previous
    BY <1>5, <1>6, <2>1 DEF UpgradeInv
  <2>2. CASE i = Len(previous) + 1
    BY <1>3, <1>4, <1>5, <1>6, <2>2
  <2> QED BY <1>5, <1>6, <2>1, <2>2
<1>7. WalkHolds(previous, predecessor)' /\ WalkHolds(newer, replacement)'
  BY <1>2, <1>5 DEF UpgradeInv
<1>8. room' = LastRoom(previous)' /\ room' \in AllRooms /\ newer' = <<>>
  BY <1>2, <1>3, <1>4, <1>5 DEF LastRoom
<1>9. Upgrades!Agree' => Upgrades!Agree
  BY <1>2 DEF Upgrades!Agree
<1>10. \A i \in DOMAIN previous' :
           previous'[i].ref => replacement'[previous'[i].roomId] = RoomBefore(previous, i)'
  BY <1>2, <1>6 DEF RoomBefore
<1> QED BY <1>2, <1>7, <1>8, <1>9, <1>10 DEF UpgradeInv

LEMMA TombstonesKeep ==
    ASSUME UpgradeInv, Upgrades!TombstonesEnd \/ Upgrades!TombstoneRead
    PROVE  UpgradeInv'
<1>1. /\ UNCHANGED <<predecessor, replacement, readable, previous, newer, room>>
      /\ walk = "tombstones"
  BY DEF Upgrades!TombstonesEnd, Upgrades!TombstoneRead
<1>2. WalkHolds(previous, predecessor)' /\ WalkHolds(newer, replacement)'
  BY <1>1 DEF UpgradeInv
<1>3. Upgrades!Agree' => Upgrades!Agree
  BY <1>1 DEF Upgrades!Agree
<1>4. CASE Upgrades!TombstonesEnd
  <2>1. walk' = "done"
    BY <1>4 DEF Upgrades!TombstonesEnd
  <2> QED BY <1>1, <1>2, <1>3, <2>1 DEF UpgradeInv, RoomBefore
<1>5. CASE Upgrades!TombstoneRead
  <2>1. walk' = "create of replacement"
    BY <1>5 DEF Upgrades!TombstoneRead
  <2>2. replacement[room] \in AllRooms /\ replacement[room] \notin Upgrades!Ids(newer)
    BY <1>5 DEF UpgradeInv, Upgrades!TombstoneRead, Upgrades!Seen, Links
  <2>3. replacement'[room'] \in AllRooms /\ replacement'[room'] \notin Upgrades!Ids(newer)'
    BY <1>1, <2>2 DEF Upgrades!Ids
  <2>4. room' = LastRoom(newer)'
    BY <1>1 DEF UpgradeInv, LastRoom
  <2> QED BY <1>1, <1>2, <1>3, <2>1, <2>3, <2>4 DEF UpgradeInv, RoomBefore
<1> QED BY <1>4, <1>5

LEMMA ReplacementKeeps ==
    ASSUME UpgradeInv, Upgrades!ReplacementRead
    PROVE  UpgradeInv'
<1>1. PICK e : e = [roomId |-> replacement[room],
                    ref |-> replacement[room] \in readable /\ predecessor[replacement[room]] = room]
  OBVIOUS
<1>2. /\ walk = "create of replacement" /\ walk' = "tombstones"
      /\ newer' = Append(newer, e) /\ room' = replacement[room]
      /\ UNCHANGED <<predecessor, replacement, readable, previous>>
  BY <1>1 DEF Upgrades!ReplacementRead
<1>3. /\ room = LastRoom(newer) /\ room \in AllRooms
      /\ replacement[room] \in AllRooms /\ replacement[room] \notin Upgrades!Ids(newer)
      /\ replacement \in Links /\ WalkHolds(newer, replacement)
  BY <1>2 DEF UpgradeInv
<1>4. /\ e \in [roomId : AllRooms, ref : BOOLEAN] /\ e.roomId = replacement[LastRoom(newer)]
      /\ Upgrades!Agree /\ readable = AllRooms => e.ref
  BY <1>1, <1>3 DEF Upgrades!Agree, AllRooms
<1>5. /\ WalkHolds(newer', replacement) /\ LastRoom(newer') = e.roomId
      /\ DOMAIN newer' = DOMAIN newer \cup {Len(newer) + 1}
      /\ \A i \in DOMAIN newer : newer'[i] = newer[i]
      /\ newer'[Len(newer) + 1] = e
  <2>1. PICK refs \in References : refs = newer
    BY <1>3 DEF WalkHolds
  <2> PICK next \in Links : next = replacement
    BY <1>3
  <2>2. /\ WalkHolds(refs, next) /\ e.roomId = next[LastRoom(refs)]
        /\ next[LastRoom(refs)] \in AllRooms /\ next[LastRoom(refs)] \notin Upgrades!Ids(refs)
    BY <1>3, <1>4, <2>1
  <2>3. newer' = Append(refs, e)
    BY <1>2, <2>1
  <2> QED BY <1>4, <2>1, <2>2, <2>3, WalkContinues
<1>6. WalkHolds(previous, predecessor)' /\ WalkHolds(newer, replacement)'
  BY <1>2, <1>5 DEF UpgradeInv
<1>7. room' = LastRoom(newer)' /\ room' \in AllRooms
  BY <1>2, <1>3, <1>4, <1>5 DEF LastRoom
<1>8. ASSUME Upgrades!Agree', readable' = AllRooms, NEW i \in DOMAIN newer'
      PROVE  newer'[i].ref
  <2>1. Upgrades!Agree /\ readable = AllRooms
    BY <1>2, <1>8 DEF Upgrades!Agree
  <2>2. CASE i \in DOMAIN newer
    BY <1>5, <2>1, <2>2 DEF UpgradeInv
  <2>3. CASE i = Len(newer) + 1
    BY <1>4, <1>5, <2>1, <2>3
  <2> QED BY <1>5, <1>8, <2>2, <2>3
<1>9. \A i \in DOMAIN previous' :
          previous'[i].ref => replacement'[previous'[i].roomId] = RoomBefore(previous, i)'
  BY <1>2 DEF UpgradeInv, RoomBefore
<1> QED BY <1>2, <1>6, <1>7, <1>8, <1>9 DEF UpgradeInv

LEMMA UpgradesKeep ==
    ASSUME UpgradeInv, Upgrades!Next \/ UNCHANGED upgradesVars
    PROVE  UpgradeInv'
<1>1. CASE Upgrades!Next
  <2>1. \/ \E old, new \in AllRooms : Upgrades!Upgrade(old, new)
        \/ Upgrades!CreatesEnd \/ Upgrades!CreateRead \/ Upgrades!PredecessorRead
        \/ Upgrades!TombstonesEnd \/ Upgrades!TombstoneRead \/ Upgrades!ReplacementRead
    BY <1>1 DEF Upgrades!Next, AllRooms
  <2>2. ASSUME NEW old \in AllRooms, NEW new \in AllRooms, Upgrades!Upgrade(old, new)
        PROVE  UpgradeInv'
    BY <2>2, UpgradeKeeps
  <2>3. CASE Upgrades!CreatesEnd \/ Upgrades!CreateRead
    BY <2>3, CreatesKeep
  <2>4. CASE Upgrades!TombstonesEnd \/ Upgrades!TombstoneRead
    BY <2>4, TombstonesKeep
  <2>5. CASE Upgrades!PredecessorRead
    BY <2>5, PredecessorKeeps
  <2>6. CASE Upgrades!ReplacementRead
    BY <2>6, ReplacementKeeps
  <2> QED BY <2>1, <2>2, <2>3, <2>4, <2>5, <2>6
<1>2. CASE UNCHANGED upgradesVars
  <2>1. UNCHANGED <<predecessor, replacement, readable, walk, room, previous, newer>>
    BY <1>2 DEF upgradesVars
  <2>2. Upgrades!Agree' => Upgrades!Agree
    BY <2>1 DEF Upgrades!Agree
  <2>3. WalkHolds(previous, predecessor)' /\ WalkHolds(newer, replacement)'
    BY <2>1 DEF UpgradeInv
  <2>4. walk' = "tombstone of predecessor" =>
            predecessor'[room'] \in AllRooms /\ predecessor'[room'] \notin Upgrades!Ids(previous)'
    BY <2>1 DEF UpgradeInv
  <2>5. walk' = "create of replacement" =>
            replacement'[room'] \in AllRooms /\ replacement'[room'] \notin Upgrades!Ids(newer)'
    BY <2>1 DEF UpgradeInv
  <2> QED BY <2>1, <2>2, <2>3, <2>4, <2>5 DEF UpgradeInv, LastRoom, RoomBefore
<1> QED BY <1>1, <1>2

\* References that agree lead from a newer room back to the one asked about.
LEMMA NewerIsNotOlder ==
    ASSUME UpgradeInv, Upgrades!Agree, Lobby \notin Upgrades!Reached(predecessor, Lobby)
    PROVE  Upgrades!Ids(previous) \cap Upgrades!Ids(newer) = {}
<1> DEFINE older == Upgrades!Reached(predecessor, Lobby)
<1>1. /\ predecessor \in Links /\ replacement \in Links /\ newer \in References
      /\ Upgrades!Ids(previous) \subseteq older
      /\ \A i \in DOMAIN newer : newer[i].roomId = replacement[RoomBefore(newer, i)]
  BY DEF UpgradeInv, WalkHolds, Upgrades!IsWalk, RoomBefore
<1>2. ASSUME NEW i \in DOMAIN newer, newer[i].roomId \in older
      PROVE  RoomBefore(newer, i) \in older
  <2>1. PICK r \in older, s \in AllRooms : r = newer[i].roomId /\ s = RoomBefore(newer, i)
    BY <1>1, <1>2, BeforeIsARoom
  <2>2. r \in AllRooms /\ replacement[s] = r
    BY <1>1, <2>1 DEF Upgrades!Reached, AllRooms
  <2>3. predecessor[r] = s
    BY <2>1, <2>2 DEF Upgrades!Agree, AllRooms
  <2> QED BY <1>1, <2>1, <2>3, ReachedIsClosed
<1>3. DOMAIN newer = 1..Len(newer) /\ Len(newer) \in Nat
  BY <1>1 DEF References
<1> HIDE DEF older
<1>4. ASSUME NEW i \in DOMAIN newer, newer[i].roomId \in older PROVE FALSE
  <2> DEFINE found == {j \in DOMAIN newer : newer[j].roomId \in older}
  <2>1. found \subseteq Nat /\ found # {}
    BY <1>3, <1>4
  <2>2. PICK n \in found : \A m \in found : n <= m
    <3> HIDE DEF found
    <3> QED BY <2>1, Least
  <2>3. n \in DOMAIN newer /\ RoomBefore(newer, n) \in older
    BY <1>2, <2>2
  <2>4. n # 1
    BY <2>3 DEF older, RoomBefore
  <2>5. n - 1 \in DOMAIN newer /\ newer[n - 1].roomId \in older
    BY <1>3, <2>3, <2>4 DEF RoomBefore
  <2> QED BY <1>3, <2>2, <2>3, <2>5
<1> QED BY <1>1, <1>4 DEF Upgrades!Ids

LEMMA HistoryHolds == UpgradeInv => Upgrades!HistoryIsAWalk
<1> SUFFICES ASSUME UpgradeInv PROVE Upgrades!HistoryIsAWalk
  OBVIOUS
<1>1. /\ Upgrades!IsWalk(previous, predecessor) /\ Upgrades!IsWalk(newer, replacement)
      /\ Cardinality(Upgrades!Ids(previous)) = Len(previous)
      /\ Cardinality(Upgrades!Ids(newer)) = Len(newer)
      /\ Upgrades!Ids(previous) \subseteq Upgrades!Reached(predecessor, Lobby)
      /\ Upgrades!Ids(newer) \subseteq Upgrades!Reached(replacement, Lobby)
  BY DEF UpgradeInv, WalkHolds
<1>2. \A i \in DOMAIN previous :
          previous[i].ref => replacement[previous[i].roomId] = RoomBefore(previous, i)
  BY DEF UpgradeInv
<1>3. Upgrades!Agree /\ readable = {Lobby} \cup Objects => \A i \in DOMAIN newer : newer[i].ref
  BY DEF UpgradeInv, AllRooms
<1> QED BY <1>1, <1>2, <1>3, NewerIsNotOlder
        DEF Upgrades!HistoryIsAWalk, RoomBefore, Upgrades!Cardinality, Cardinality

-----------------------------------------------------------------------------
(* Children of a space                                                      *)

SpaceRecords ==
    [pc : {"idle", "create", "add", "done", "failed"}, room : Objects \cup {Nothing},
     order : Spaces!Orders]

SpaceInv ==
    /\ spaces \subseteq Objects /\ added \subseteq Objects
    /\ child \in [Objects -> Spaces!Orders \cup {Nothing, "empty"}]
    /\ spaceCall \in [Calls -> SpaceRecords]
    /\ \A c \in Calls : spaceCall[c].pc = "add" => spaceCall[c].room \in Objects
    /\ Spaces!ChildrenHold

LEMMA NoSpaceCall ==
    Spaces!NoCall \in SpaceRecords /\ Spaces!NoCall.pc = "idle"
BY DEF Spaces!NoCall, SpaceRecords, Spaces!Orders

LEMMA OrdersAreText ==
    \A o \in Spaces!Orders : o # Nothing /\ o # "empty" /\ "empty" # Nothing
BY ClientAssumption DEF Spaces!Orders

LEMMA SpacesStart == Spaces!Init => SpaceInv
<1> SUFFICES ASSUME Spaces!Init PROVE SpaceInv
  OBVIOUS
<1>1. PICK none \in SpaceRecords : none = Spaces!NoCall /\ none.pc = "idle"
  BY NoSpaceCall
<1>2. /\ spaceCall = [c \in Calls |-> none] /\ spaces = {} /\ added = {}
      /\ child = [r \in Objects |-> Nothing]
  BY <1>1 DEF Spaces!Init
<1>3. Nothing # "invalid"
  BY ClientAssumption
<1>4. Spaces!ChildrenHold
  BY <1>2, <1>3 DEF Spaces!ChildrenHold, Spaces!ChildEntities, Spaces!IsChild
<1> QED BY <1>1, <1>2, <1>4 DEF SpaceInv

\* A call takes a step, and no child changes.
LEMMA SpaceCallMoves ==
    ASSUME SpaceInv, NEW c \in Calls, NEW k \in SpaceRecords,
           spaceCall' = [spaceCall EXCEPT ![c] = k],
           k.pc = "add" => k.room \in Objects,
           UNCHANGED <<child, added>>, spaces' \subseteq Objects,
           orphaned \subseteq orphaned',
           \A r \in spaces' \ orphaned' : r \in spaces \/ (k.pc = "add" /\ k.room = r),
           spaceCall[c].pc = "add" =>
               \/ spaceCall[c].room \in orphaned'
               \/ k.pc = "add" /\ k.room = spaceCall[c].room
    PROVE  SpaceInv'
<1>1. /\ spaceCall' \in [Calls -> SpaceRecords] /\ spaceCall'[c] = k
      /\ \A d \in Calls : d # c => spaceCall'[d] = spaceCall[d]
  BY DEF SpaceInv
<1>2. ASSUME NEW r \in spaces' \ orphaned'
      PROVE  child[r] # Nothing
             \/ \E d \in Calls : spaceCall'[d].pc = "add" /\ spaceCall'[d].room = r
  <2>1. CASE k.pc = "add" /\ k.room = r
    BY <1>1, <2>1
  <2>2. CASE r \in spaces /\ child[r] = Nothing /\ ~(k.pc = "add" /\ k.room = r)
    <3>1. PICK d \in Calls : spaceCall[d].pc = "add" /\ spaceCall[d].room = r
      BY <1>2, <2>2 DEF SpaceInv, Spaces!ChildrenHold
    <3>2. d # c
      BY <1>2, <2>2, <3>1
    <3> QED BY <1>1, <3>1, <3>2
  <2> QED BY <1>2, <2>1, <2>2
<1>3. Spaces!ChildrenHold'
  <2>1. Spaces!ChildEntities' = added'
    BY DEF SpaceInv, Spaces!ChildrenHold, Spaces!ChildEntities, Spaces!IsChild
  <2> QED BY <1>2, <2>1 DEF SpaceInv, Spaces!ChildrenHold
<1> QED BY <1>1, <1>3 DEF SpaceInv

\* A call that is not to add a room goes on, and the homeserver does nothing.
LEMMA SpaceCallGoesOn ==
    ASSUME SpaceInv, NEW c \in Calls, NEW k \in SpaceRecords,
           spaceCall' = [spaceCall EXCEPT ![c] = k],
           k.pc = "add" => k.room \in Objects, spaceCall[c].pc # "add",
           UNCHANGED <<spaces, child, added, orphaned>>
    PROVE  SpaceInv'
<1>1. UNCHANGED <<child, added>> /\ spaces' \subseteq Objects
  BY DEF SpaceInv
<1>2. orphaned \subseteq orphaned'
  OBVIOUS
<1>3. \A r \in spaces' \ orphaned' : r \in spaces \/ (k.pc = "add" /\ k.room = r)
  OBVIOUS
<1>4. spaceCall[c].pc = "add" =>
          \/ spaceCall[c].room \in orphaned'
          \/ k.pc = "add" /\ k.room = spaceCall[c].room
  OBVIOUS
<1> QED BY <1>1, <1>2, <1>3, <1>4, SpaceCallMoves

\* A child is set, and the call that does it ends.
LEMMA ChildSet ==
    ASSUME SpaceInv, NEW c \in Calls, NEW k \in SpaceRecords, NEW r \in Objects,
           NEW new \in {"empty", "none", "valid"}, k.pc \in {"done", "failed"},
           spaceCall' = [spaceCall EXCEPT ![c] = k],
           spaceCall[c].pc = "add" => spaceCall[c].room = r,
           UNCHANGED <<spaces, orphaned>>, child' = [child EXCEPT ![r] = new],
           added' = IF new = "empty" THEN added \ {r} ELSE added \cup {r}
    PROVE  SpaceInv'
<1>1. /\ spaceCall' \in [Calls -> SpaceRecords] /\ spaceCall'[c] = k
      /\ \A d \in Calls : d # c => spaceCall'[d] = spaceCall[d]
  BY DEF SpaceInv
<1>2. new # Nothing /\ new # "invalid" /\ new \in Spaces!Orders \cup {"empty"}
  BY OrdersAreText DEF Spaces!Orders
<1>3. /\ child' \in [Objects -> Spaces!Orders \cup {Nothing, "empty"}]
      /\ child'[r] = new /\ \A s \in Objects : s # r => child'[s] = child[s]
  BY <1>2 DEF SpaceInv
<1>4. added' \subseteq Objects
  BY DEF SpaceInv
<1>5. ASSUME NEW s \in spaces' \ orphaned'
      PROVE  child'[s] # Nothing
             \/ \E d \in Calls : spaceCall'[d].pc = "add" /\ spaceCall'[d].room = s
  <2>1. CASE s = r
    BY <1>2, <1>3, <2>1
  <2>2. CASE s # r /\ child[s] = Nothing
    <3>1. PICK d \in Calls : spaceCall[d].pc = "add" /\ spaceCall[d].room = s
      BY <1>5, <2>2 DEF SpaceInv, Spaces!ChildrenHold
    <3>2. d # c
      BY <2>2, <3>1
    <3> QED BY <1>1, <3>1, <3>2
  <2> QED BY <1>3, <1>5, <2>1, <2>2 DEF SpaceInv
<1>6. \A s \in Objects : child'[s] # "invalid"
  BY <1>2, <1>3 DEF SpaceInv, Spaces!ChildrenHold
<1>7. Spaces!ChildEntities' = added'
  <2>1. \A s : s \in added <=> s \in Objects /\ child[s] \notin {Nothing, "empty"}
    BY DEF SpaceInv, Spaces!ChildrenHold, Spaces!ChildEntities, Spaces!IsChild
  <2>2. \A s : s \in Spaces!ChildEntities' <=> s \in Objects /\ child'[s] \notin {Nothing, "empty"}
    BY DEF Spaces!ChildEntities, Spaces!IsChild
  <2>3. \A s : s \in added' <=> s \in Objects /\ child'[s] \notin {Nothing, "empty"}
    BY <1>2, <1>3, <2>1
  <2> QED BY <2>2, <2>3
<1>8. Spaces!ChildrenHold'
  BY <1>5, <1>6, <1>7 DEF Spaces!ChildrenHold
<1> QED BY <1>1, <1>3, <1>4, <1>8 DEF SpaceInv

LEMMA SpacesAsk ==
    ASSUME SpaceInv, NEW c \in Calls,
           \/ \E order \in Spaces!Orders : Spaces!CreateChildSpace(c, order)
           \/ \E r \in Objects, order \in Spaces!Orders : Spaces!AddChildRoom(c, r, order)
           \/ Spaces!End(c)
    PROVE  SpaceInv'
<1>1. PICK none \in SpaceRecords : none = Spaces!NoCall /\ none.pc = "idle"
  BY NoSpaceCall
<1>2. /\ UNCHANGED <<spaces, child, added, orphaned>> /\ spaceCall[c].pc # "add"
  BY DEF SpaceInv, Spaces!CreateChildSpace, Spaces!AddChildRoom, Spaces!End
<1>3. ASSUME NEW order \in Spaces!Orders, Spaces!CreateChildSpace(c, order) PROVE SpaceInv'
  <2>1. PICK k : k = [none EXCEPT !.pc = "create", !.order = order]
    OBVIOUS
  <2>2. k \in SpaceRecords /\ k.pc = "create"
    BY <2>1 DEF SpaceRecords
  <2>3. spaceCall' = [spaceCall EXCEPT ![c] = k]
    BY <1>1, <1>3, <2>1 DEF Spaces!CreateChildSpace
  <2> QED BY <1>2, <2>2, <2>3, SpaceCallGoesOn
<1>4. ASSUME NEW r \in Objects, NEW order \in Spaces!Orders, Spaces!AddChildRoom(c, r, order)
      PROVE  SpaceInv'
  <2>1. PICK k : k = [none EXCEPT !.pc = "add", !.room = r, !.order = order]
    OBVIOUS
  <2>2. k \in SpaceRecords /\ k.pc = "add" /\ k.room = r
    BY <2>1 DEF SpaceRecords
  <2>3. spaceCall' = [spaceCall EXCEPT ![c] = k]
    BY <1>1, <1>4, <2>1 DEF Spaces!AddChildRoom
  <2> QED BY <1>2, <2>2, <2>3, SpaceCallGoesOn
<1>5. CASE Spaces!End(c)
  <2>1. spaceCall' = [spaceCall EXCEPT ![c] = none]
    BY <1>1, <1>5 DEF Spaces!End
  <2> QED BY <1>1, <1>2, <2>1, SpaceCallGoesOn
<1> QED BY <1>3, <1>4, <1>5

LEMMA SpaceCreated ==
    ASSUME SpaceInv, NEW c \in Calls, NEW r \in Objects, Spaces!CreateSpace(c, r)
    PROVE  SpaceInv'
<1>1. PICK o \in SpaceRecords : o = spaceCall[c] /\ o.pc = "create"
  BY DEF SpaceInv, Spaces!CreateSpace
<1>2. PICK k : k = [o EXCEPT !.pc = "add", !.room = r]
  OBVIOUS
<1>3. k \in SpaceRecords /\ k.pc = "add" /\ k.room = r
  BY <1>2 DEF SpaceRecords
<1>4. /\ spaceCall' = [spaceCall EXCEPT ![c] = k]
      /\ spaces' = spaces \cup {r} /\ UNCHANGED <<child, added, orphaned>>
  <2>1. spaceCall' = [spaceCall EXCEPT ![c].pc = "add", ![c].room = r]
    BY DEF Spaces!CreateSpace
  <2> QED BY <1>1, <1>2, <2>1 DEF SpaceInv, Spaces!CreateSpace
<1>5. spaces' \subseteq Objects /\ spaceCall[c].pc # "add"
  BY <1>1, <1>4 DEF SpaceInv
<1>6. UNCHANGED <<child, added>> /\ orphaned \subseteq orphaned'
  BY <1>4
<1>7. \A s \in spaces' \ orphaned' : s \in spaces \/ (k.pc = "add" /\ k.room = s)
  BY <1>3, <1>4
<1>8. spaceCall[c].pc = "add" =>
          \/ spaceCall[c].room \in orphaned'
          \/ k.pc = "add" /\ k.room = spaceCall[c].room
  BY <1>5
<1>9. k.pc = "add" => k.room \in Objects
  BY <1>3
<1> QED BY <1>3, <1>4, <1>5, <1>6, <1>7, <1>8, <1>9, SpaceCallMoves

\* A call fails, and the room it was for is orphaned, or there is none.
LEMMA SpaceCallFails ==
    ASSUME SpaceInv, NEW c \in Calls, NEW k \in SpaceRecords, k.pc = "failed",
           spaceCall' = [spaceCall EXCEPT ![c] = k],
           UNCHANGED <<child, added>>, spaces' \subseteq Objects,
           orphaned \subseteq orphaned', spaces' \subseteq spaces \cup orphaned',
           spaceCall[c].pc = "add" => spaceCall[c].room \in orphaned'
    PROVE  SpaceInv'
<1>1. \A r \in spaces' \ orphaned' : r \in spaces \/ (k.pc = "add" /\ k.room = r)
  OBVIOUS
<1>2. spaceCall[c].pc = "add" =>
          \/ spaceCall[c].room \in orphaned'
          \/ k.pc = "add" /\ k.room = spaceCall[c].room
  OBVIOUS
<1>3. k.pc = "add" => k.room \in Objects
  OBVIOUS
<1> QED BY <1>1, <1>2, <1>3, SpaceCallMoves

LEMMA ChildSent ==
    ASSUME SpaceInv, NEW c \in Calls, Spaces!SendChild(c) \/ Spaces!RequestFails(c)
    PROVE  SpaceInv'
<1>1. PICK o \in SpaceRecords :
          /\ o = spaceCall[c] /\ o.pc \in {"create", "add"} /\ o.order \in Spaces!Orders
          /\ o.pc = "add" => o.room \in Objects
  BY DEF SpaceInv, Spaces!SendChild, Spaces!RequestFails, SpaceRecords
<1>2. PICK done : done = [o EXCEPT !.pc = "done"]
  OBVIOUS
<1>3. PICK failed : failed = [o EXCEPT !.pc = "failed"]
  OBVIOUS
<1>4. /\ done \in SpaceRecords /\ done.pc = "done"
      /\ failed \in SpaceRecords /\ failed.pc = "failed"
  BY <1>2, <1>3 DEF SpaceRecords
<1>5. Spaces!Accepts(o.order) => o.order \in {"none", "valid"} /\ o.order # "empty"
  BY <1>1 DEF Spaces!Accepts, Spaces!Orders
<1>6. spaces \subseteq Objects
  BY DEF SpaceInv
<1>7. CASE Spaces!SendChild(c)
  <2>1. o.pc = "add" /\ o.room \in Objects /\ UNCHANGED spaces
    BY <1>1, <1>7 DEF Spaces!SendChild
  <2>2. CASE Spaces!Accepts(o.order)
    <3>1. /\ child' = [child EXCEPT ![o.room] = o.order]
          /\ spaceCall' = [spaceCall EXCEPT ![c] = done]
          /\ added' = added \cup {o.room} /\ UNCHANGED orphaned
      BY <1>1, <1>2, <1>7, <2>2 DEF Spaces!SendChild, SpaceInv
    <3>2. spaceCall[c].pc = "add" => spaceCall[c].room = o.room
      BY <1>1
    <3>3. PICK new \in {"empty", "none", "valid"} : new = o.order /\ new # "empty"
      BY <1>1, <1>5, <2>2
    <3>4. /\ added' = IF new = "empty" THEN added \ {o.room} ELSE added \cup {o.room}
          /\ child' = [child EXCEPT ![o.room] = new] /\ done.pc \in {"done", "failed"}
          /\ UNCHANGED <<spaces, orphaned>>
      BY <1>4, <2>1, <3>1, <3>3
    <3> QED BY <1>4, <2>1, <3>1, <3>2, <3>4, ChildSet
  <2>3. CASE ~Spaces!Accepts(o.order)
    <3>1. /\ spaceCall' = [spaceCall EXCEPT ![c] = failed]
          /\ orphaned' = orphaned \cup {o.room} /\ UNCHANGED <<child, added>>
      BY <1>1, <1>3, <1>7, <2>3 DEF Spaces!SendChild, SpaceInv
    <3>2. /\ spaces' \subseteq Objects /\ orphaned \subseteq orphaned'
          /\ spaces' \subseteq spaces \cup orphaned'
      BY <1>6, <2>1, <3>1
    <3>3. spaceCall[c].pc = "add" => spaceCall[c].room \in orphaned'
      BY <1>1, <3>1
    <3> QED BY <1>4, <3>1, <3>2, <3>3, SpaceCallFails
  <2> QED BY <2>2, <2>3
<1>8. CASE Spaces!RequestFails(c)
  <2>1. spaceCall' = [spaceCall EXCEPT ![c] = failed]
    BY <1>1, <1>3, <1>8 DEF Spaces!RequestFails, SpaceInv
  <2>2. CASE orphaned' = orphaned \cup {o.room} /\ UNCHANGED <<spaces, child, added>>
    <3>1. /\ spaces' \subseteq Objects /\ orphaned \subseteq orphaned'
          /\ spaces' \subseteq spaces \cup orphaned'
      BY <1>6, <2>2
    <3>2. spaceCall[c].pc = "add" => spaceCall[c].room \in orphaned'
      BY <1>1, <2>2
    <3> QED BY <1>4, <2>1, <2>2, <3>1, <3>2, SpaceCallFails
  <2>3. ASSUME o.pc = "create", UNCHANGED <<child, added>>,
               NEW r \in Objects \ spaces, spaces' = spaces \cup {r},
               orphaned' = orphaned \cup {r}
        PROVE  SpaceInv'
    <3>1. /\ spaces' \subseteq Objects /\ orphaned \subseteq orphaned'
          /\ spaces' \subseteq spaces \cup orphaned'
      BY <1>6, <2>3
    <3>2. spaceCall[c].pc = "add" => spaceCall[c].room \in orphaned'
      BY <1>1, <2>3
    <3> QED BY <1>4, <2>1, <2>3, <3>1, <3>2, SpaceCallFails
  <2>4. ASSUME o.pc = "add", Spaces!Accepts(o.order), UNCHANGED <<spaces, orphaned>>,
               child' = [child EXCEPT ![o.room] = o.order], added' = added \cup {o.room}
        PROVE  SpaceInv'
    <3>1. o.room \in Objects /\ (spaceCall[c].pc = "add" => spaceCall[c].room = o.room)
      BY <1>1, <2>4
    <3>2. PICK new \in {"empty", "none", "valid"} : new = o.order /\ new # "empty"
      BY <1>1, <1>5, <2>4
    <3>3. /\ added' = IF new = "empty" THEN added \ {o.room} ELSE added \cup {o.room}
          /\ child' = [child EXCEPT ![o.room] = new] /\ failed.pc \in {"done", "failed"}
          /\ UNCHANGED <<spaces, orphaned>>
      BY <1>4, <2>4, <3>2
    <3> QED BY <1>4, <2>1, <3>1, <3>3, ChildSet
  <2> QED BY <1>1, <1>8, <2>2, <2>3, <2>4 DEF Spaces!RequestFails
<1> QED BY <1>7, <1>8

LEMMA ChildRemoved ==
    ASSUME SpaceInv, NEW c \in Calls, NEW r \in Objects, Spaces!RemoveChildRoom(c, r)
    PROVE  SpaceInv'
<1>1. PICK none \in SpaceRecords : none = Spaces!NoCall
  BY NoSpaceCall
<1>2. PICK k : k = [none EXCEPT !.pc = "done", !.room = r]
  OBVIOUS
<1>3. k \in SpaceRecords /\ k.pc = "done"
  BY <1>2 DEF SpaceRecords
<1>4. /\ spaceCall' = [spaceCall EXCEPT ![c] = k] /\ spaceCall[c].pc # "add"
      /\ child' = [child EXCEPT ![r] = "empty"] /\ added' = added \ {r}
      /\ UNCHANGED <<spaces, orphaned>>
  BY <1>1, <1>2 DEF Spaces!RemoveChildRoom, Spaces!Removed
<1>5. /\ added' = IF "empty" = "empty" THEN added \ {r} ELSE added \cup {r}
      /\ k.pc \in {"done", "failed"} /\ (spaceCall[c].pc = "add" => spaceCall[c].room = r)
  BY <1>3, <1>4
<1> QED BY <1>3, <1>4, <1>5, ChildSet

LEMMA SpacesKeep ==
    ASSUME SpaceInv, Spaces!Next \/ UNCHANGED spacesVars
    PROVE  SpaceInv'
<1>1. CASE Spaces!Next
  BY <1>1, SpacesAsk, SpaceCreated, ChildSent, ChildRemoved DEF Spaces!Next
<1>2. CASE UNCHANGED spacesVars
  BY <1>2 DEF spacesVars, SpaceInv, Spaces!ChildrenHold, Spaces!ChildEntities, Spaces!IsChild
<1> QED BY <1>1, <1>2

\* The members a call tells of were members while it ran, each listed once, with
\* nobody who stayed left out; the rooms before and after an upgraded one are a
\* walk that ends; and a child space that is not there was never added, was
\* removed or is on its way, whatever changes meanwhile and whichever requests
\* fail (getRoomMembers and getRoomUpgradeHistory, src/src/MatrixClient.ts, and
\* src/src/models/Spaces.ts).
THEOREM RoomsHold == PartsSpec => []RoomsAreTold
<1> DEFINE Inv == /\ part = "members"  => MemberInv
                  /\ part = "upgrades" => UpgradeInv
                  /\ part = "spaces"   => SpaceInv
<1>1. PartsInit => Inv
  <2>1. PartsInit => /\ part = "members"  => Members!Init
                     /\ part = "upgrades" => Upgrades!Init
                     /\ Spaces!Init
    BY DEF PartsInit, MembersInit, UpgradesInit
  <2> QED BY <2>1, MembersStart, UpgradesStart, SpacesStart
<1>2. Inv /\ [PartsNext]_partsVars => Inv'
  BY PartSteps, MembersKeep, UpgradesKeep, SpacesKeep
<1>3. Inv => RoomsAreTold
  BY ResultHolds, HistoryHolds DEF RoomsAreTold, SpaceInv
<1> QED BY <1>1, <1>2, <1>3, PTL DEF PartsSpec

-----------------------------------------------------------------------------
(* An identity server                                                       *)

MaybeUser  == Others \cup {Nothing}
MaybeValue == Values \cup {Nothing}
SentRecords == [address : Objects, hashed : BOOLEAN, pepper : Nat]
Invites    == [alias : MaybeValue, avatar : MaybeValue, name : MaybeValue]
Results    == Seq(MaybeUser) \cup (SUBSET Server!Languages) \cup Invites \cup {Nothing}

ServerCalls ==
    [pc : {"idle", "details", "lookup", "found", "terms", "accept", "invite", "stored"},
     asked : Seq(Server!Identifiers), plaintext : BOOLEAN, sent : Seq(SentRecords),
     algorithm : {"sha256", "none", Nothing}, pepper : Nat, result : Results,
     invite : Seq(MaybeValue)]

\* What a call has of the server and the room is of a moment of the call.
ServerCallHolds(r) ==
    /\ r.pc \in {"lookup", "found"} =>
           /\ DOMAIN r.sent = DOMAIN r.asked
           /\ \A i \in DOMAIN r.asked : r.sent[i].address = r.asked[i].address
    /\ r.pc = "found" =>
           \E b \in knew : \A i \in DOMAIN r.asked : r.result[i] = b[r.asked[i].address]
    /\ \A i \in DOMAIN r.sent :
           r.sent[i].hashed \/ (r.plaintext /\ "sha256" \notin algorithms)
    /\ r.pc = "invite" => \A i \in DOMAIN r.invite :
           /\ i <= 3
           /\ r.invite[i] \in {s[Server!Fields[i]] : s \in had} \cup {Nothing}
    /\ r.pc = "stored" =>
        /\ r.result.alias \in {s["alias"] : s \in had} \cup {Nothing}
        /\ r.result.avatar \in {s["avatar"] : s \in had} \cup {Nothing}
        /\ r.result.name \in (UNION {{s["name"], s["alias"]} : s \in had}) \cup {Nothing}
        /\ r.result.alias # Nothing => r.result.name # Nothing
    /\ r.pc = "accept" =>
        /\ r.result \subseteq UNION spoke
        /\ (\A l \in spoke : "en" \in l) => r.result = {"en"}
        /\ r.result = {} => {} \in spoke

ServerInv ==
    /\ pepper \in Nat
    /\ bound \in [Objects -> MaybeUser]
    /\ languages \subseteq Server!Languages
    /\ state \in [Server!FieldSet -> MaybeValue]
    /\ call \in ServerCalls
    /\ bound \in knew /\ state \in had /\ languages \in spoke
    /\ ServerCallHolds(call)

LEMMA ResultKinds ==
    /\ Nothing \in Results /\ \A x \in Seq(MaybeUser) : x \in Results
    /\ \A x \in SUBSET Server!Languages : x \in Results
    /\ \A x \in Invites : x \in Results
<1>1. Nothing \in Results
  BY Zenon DEF Results
<1>2. \A x \in Seq(MaybeUser) : x \in Results
  BY Zenon DEF Results
<1>3. \A x \in SUBSET Server!Languages : x \in Results
  BY Zenon DEF Results
<1>4. \A x \in Invites : x \in Results
  BY Zenon DEF Results
<1> QED BY <1>1, <1>2, <1>3, <1>4

LEMMA NoServerCall ==
    /\ Server!NoCall \in ServerCalls /\ Server!NoCall.pc = "idle" /\ Server!NoCall.sent = <<>>
    /\ Server!NoCall.invite = <<>>
<1>1. /\ <<>> \in Seq(Server!Identifiers) /\ <<>> \in Seq(SentRecords)
      /\ <<>> \in Seq(MaybeValue) /\ Nothing \in Results
  BY ResultKinds
<1> QED BY <1>1 DEF Server!NoCall, ServerCalls

\* A call that has done nothing yet.
LEMMA FreshCall ==
    ASSUME NEW r \in ServerCalls, r.pc \in {"idle", "details", "terms", "invite"},
           r.sent = <<>>, r.invite = <<>>
    PROVE  ServerCallHolds(r) /\ ServerCallHolds(r)'
BY DEF ServerCallHolds

LEMMA ServerStarts == Server!Init => ServerInv
<1> SUFFICES ASSUME Server!Init PROVE ServerInv
  OBVIOUS
<1>1. PICK none \in ServerCalls :
          none = Server!NoCall /\ none.pc = "idle" /\ none.sent = <<>> /\ none.invite = <<>>
  BY NoServerCall
<1>2. ServerCallHolds(none)
  BY <1>1, FreshCall
<1> QED BY <1>1, <1>2 DEF Server!Init, ServerInv, MaybeUser, MaybeValue

\* The server and the room change, and the history of both grows.
LEMMA ServerChanges ==
    ASSUME ServerInv, Server!Change
    PROVE  ServerInv'
<1>1. /\ UNCHANGED <<algorithms, call>>
      /\ knew' = knew \cup {bound'} /\ had' = had \cup {state'}
      /\ spoke' = spoke \cup {languages'}
  BY DEF Server!Change
<1>2. pepper' \in Nat /\ languages' \subseteq Server!Languages
  BY DEF Server!Change, ServerInv
<1>3. bound' \in [Objects -> MaybeUser]
  BY DEF Server!Change, ServerInv, MaybeUser
<1>4. state' \in [Server!FieldSet -> MaybeValue]
  BY DEF Server!Change, ServerInv, MaybeValue
<1>5. PICK r \in ServerCalls : r = call /\ r = call'
  BY <1>1 DEF ServerInv
<1>6. ServerCallHolds(r)
  BY <1>5 DEF ServerInv
<1>7. ServerCallHolds(r)'
  <2>1. r.pc = "found" =>
            \E b \in knew' : \A i \in DOMAIN r.asked : r.result[i] = b[r.asked[i].address]
    BY <1>1, <1>6 DEF ServerCallHolds
  <2>2. r.pc = "invite" => \A i \in DOMAIN r.invite :
            /\ i <= 3
            /\ r.invite[i] \in {s[Server!Fields[i]] : s \in had'} \cup {Nothing}
    BY <1>1, <1>6 DEF ServerCallHolds
  <2>3. r.pc = "stored" =>
            /\ r.result.alias \in {s["alias"] : s \in had'} \cup {Nothing}
            /\ r.result.avatar \in {s["avatar"] : s \in had'} \cup {Nothing}
            /\ r.result.name \in (UNION {{s["name"], s["alias"]} : s \in had'}) \cup {Nothing}
    BY <1>1, <1>6 DEF ServerCallHolds
  <2>4. r.pc = "accept" =>
            /\ r.result \subseteq UNION spoke'
            /\ (\A l \in spoke' : "en" \in l) => r.result = {"en"}
            /\ r.result = {} => {} \in spoke'
    BY <1>1, <1>6 DEF ServerCallHolds
  <2> QED BY <1>1, <1>6, <2>1, <2>2, <2>3, <2>4 DEF ServerCallHolds
<1> QED BY <1>1, <1>2, <1>3, <1>4, <1>5, <1>7 DEF ServerInv

\* Only the call goes on; its history is as it was.
LEMMA ServerSteps ==
    ASSUME ServerInv, NEW r \in ServerCalls, Server!Step(r), ServerCallHolds(r)
    PROVE  ServerInv'
<1>1. call' = r /\ UNCHANGED <<algorithms, pepper, bound, languages, state, knew, had, spoke>>
  BY DEF Server!Step
<1>2. ServerCallHolds(r)'
  BY <1>1 DEF ServerCallHolds
<1> QED BY <1>1, <1>2 DEF ServerInv

\* A call begins, with a history of its own.
LEMMA ServerAsked ==
    ASSUME ServerInv,
           \/ \E i, j \in Server!Identifiers, plaintext \in BOOLEAN :
                  Server!Lookup(<<i, j>>, plaintext)
           \/ Server!AcceptAllTerms \/ Server!MakeEmailInvite
    PROVE  ServerInv'
<1>1. PICK none \in ServerCalls :
          none = Server!NoCall /\ none.pc = "idle" /\ none.sent = <<>> /\ none.invite = <<>>
  BY NoServerCall
<1>2. ASSUME NEW i \in Server!Identifiers, NEW j \in Server!Identifiers,
             NEW plaintext \in BOOLEAN, Server!Lookup(<<i, j>>, plaintext)
      PROVE  ServerInv'
  <2>1. PICK r : r = [none EXCEPT !.pc = "details", !.asked = <<i, j>>, !.plaintext = plaintext]
    OBVIOUS
  <2>2. <<i, j>> \in Seq(Server!Identifiers)
    OBVIOUS
  <2>3. r \in ServerCalls /\ r.pc = "details" /\ r.sent = <<>> /\ r.invite = <<>>
    BY <1>1, <2>1, <2>2 DEF ServerCalls
  <2>4. ServerCallHolds(r)'
    BY <2>3, FreshCall
  <2> QED BY <1>1, <1>2, <2>1, <2>3, <2>4 DEF Server!Lookup, ServerInv
<1>3. CASE Server!AcceptAllTerms
  <2>1. PICK r : r = [none EXCEPT !.pc = "terms"]
    OBVIOUS
  <2>2. r \in ServerCalls /\ r.pc = "terms" /\ r.sent = <<>> /\ r.invite = <<>>
    BY <1>1, <2>1 DEF ServerCalls
  <2>3. ServerCallHolds(r)'
    BY <2>2, FreshCall
  <2> QED BY <1>1, <1>3, <2>1, <2>2, <2>3 DEF Server!AcceptAllTerms, ServerInv
<1>4. CASE Server!MakeEmailInvite
  <2>1. PICK r : r = [none EXCEPT !.pc = "invite"]
    OBVIOUS
  <2>2. r \in ServerCalls /\ r.pc = "invite" /\ r.sent = <<>> /\ r.invite = <<>>
    BY <1>1, <2>1 DEF ServerCalls
  <2>3. ServerCallHolds(r)'
    BY <2>2, FreshCall
  <2> QED BY <1>1, <1>4, <2>1, <2>2, <2>3 DEF Server!MakeEmailInvite, ServerInv
<1> QED BY <1>2, <1>3, <1>4

\* A call is over, whatever it was.
LEMMA ServerEnds ==
    ASSUME ServerInv, Server!Step(Server!NoCall)
    PROVE  ServerInv'
<1>1. PICK none \in ServerCalls :
          none = Server!NoCall /\ none.pc = "idle" /\ none.sent = <<>> /\ none.invite = <<>>
  BY NoServerCall
<1>2. ServerCallHolds(none)
  BY <1>1, FreshCall
<1>3. Server!Step(none)
  BY <1>1
<1> QED BY <1>2, <1>3, ServerSteps

LEMMA ListOfAll ==
    ASSUME NEW S, NEW T, NEW list \in Seq(S), NEW f, DOMAIN f = DOMAIN list,
           \A i \in DOMAIN list : f[i] \in T, f = [i \in DOMAIN list |-> f[i]]
    PROVE  f \in Seq(T)
<1>1. DOMAIN list = 1..Len(list) /\ Len(list) \in Nat
  OBVIOUS
<1>2. f \in [1..Len(list) -> T]
  BY <1>1
<1> QED BY <1>1, <1>2, SeqDef

\* The identifiers are hashed, or sent in clear if that is allowed.
LEMMA DetailsRead ==
    ASSUME ServerInv, Server!HashDetails
    PROVE  ServerInv'
<1>1. PICK r \in ServerCalls : r = call /\ r.pc = "details" /\ ServerCallHolds(r)
  BY DEF ServerInv, Server!HashDetails
<1>2. PICK a : a = Server!Algorithm(algorithms, r.plaintext)
  OBVIOUS
<1>3. /\ a \in {"sha256", "none", Nothing}
      /\ a = "none" /\ a # Nothing => r.plaintext /\ "sha256" \notin algorithms
  BY <1>2, ClientAssumption DEF Server!Algorithm
<1>4. CASE a = Nothing
  BY <1>1, <1>2, <1>4, ServerEnds DEF Server!HashDetails
<1>5. CASE a # Nothing
  <2>1. PICK s : s = [i \in DOMAIN r.asked |-> Server!Transformed(r.asked[i], a, pepper)]
    OBVIOUS
  <2>2. PICK k : k = [r EXCEPT !.pc = "lookup", !.algorithm = a, !.pepper = pepper, !.sent = s]
    OBVIOUS
  <2>3. r.asked \in Seq(Server!Identifiers) /\ pepper \in Nat
    BY DEF ServerCalls, ServerInv
  <2>4. \A i \in DOMAIN r.asked : r.asked[i] \in Server!Identifiers
    BY <2>3
  <2>5. ASSUME NEW i \in DOMAIN r.asked
        PROVE  /\ s[i] \in SentRecords /\ s[i].address = r.asked[i].address
               /\ s[i].hashed \/ (r.plaintext /\ "sha256" \notin algorithms)
    BY <1>3, <1>5, <2>1, <2>3, <2>4 DEF Server!Transformed, SentRecords, Server!Identifiers
  <2>6. s \in Seq(SentRecords) /\ DOMAIN s = DOMAIN r.asked
    <3>1. DOMAIN s = DOMAIN r.asked /\ s = [i \in DOMAIN r.asked |-> s[i]]
      BY <2>1
    <3>2. \A i \in DOMAIN r.asked : s[i] \in SentRecords
      BY <2>5
    <3> QED BY <2>3, <3>1, <3>2, ListOfAll
  <2>7. /\ k \in ServerCalls /\ k.pc = "lookup" /\ k.sent = s
        /\ k.asked = r.asked /\ k.plaintext = r.plaintext
    BY <1>3, <2>2, <2>3, <2>6 DEF ServerCalls
  <2>8. ServerCallHolds(k)
    BY <2>5, <2>6, <2>7 DEF ServerCallHolds
  <2>9. Server!Step(k)
    BY <1>1, <1>2, <1>5, <2>1, <2>2 DEF Server!HashDetails
  <2> QED BY <2>7, <2>8, <2>9, ServerSteps
<1> QED BY <1>4, <1>5

\* The server answers with the bindings it has.
LEMMA LookedUp ==
    ASSUME ServerInv, Server!LookupAnswered
    PROVE  ServerInv'
<1>1. PICK r \in ServerCalls : r = call /\ r.pc = "lookup" /\ ServerCallHolds(r)
  BY DEF ServerInv, Server!LookupAnswered
<1>2. CASE r.pepper # pepper
  BY <1>1, <1>2, ServerEnds DEF Server!LookupAnswered
<1>3. CASE r.pepper = pepper
  <2>1. PICK s : s = [i \in DOMAIN r.sent |-> bound[r.sent[i].address]]
    OBVIOUS
  <2>2. PICK k : k = [r EXCEPT !.pc = "found", !.result = s]
    OBVIOUS
  <2>3. r.sent \in Seq(SentRecords) /\ bound \in [Objects -> MaybeUser] /\ bound \in knew
    BY DEF ServerCalls, ServerInv
  <2>4. \A i \in DOMAIN r.sent : r.sent[i] \in SentRecords /\ r.sent[i].address \in Objects
    <3>1. \A i \in DOMAIN r.sent : r.sent[i] \in SentRecords
      BY <2>3
    <3>2. \A x \in SentRecords : x.address \in Objects
      BY DEF SentRecords
    <3> QED BY <3>1, <3>2
  <2>5. s \in Seq(MaybeUser)
    <3>1. DOMAIN s = DOMAIN r.sent /\ s = [i \in DOMAIN r.sent |-> s[i]]
      BY <2>1
    <3>2. \A i \in DOMAIN r.sent : s[i] \in MaybeUser
      BY <2>1, <2>3, <2>4
    <3> QED BY <2>3, <3>1, <3>2, ListOfAll
  <2>6. k \in ServerCalls /\ k.pc = "found" /\ k.sent = r.sent /\ k.asked = r.asked
        /\ k.plaintext = r.plaintext /\ k.result = s
    <3>1. s \in Results
      BY <2>5, ResultKinds
    <3> QED BY <2>2, <3>1 DEF ServerCalls
  <2>7. \A i \in DOMAIN k.asked : k.result[i] = bound[k.asked[i].address]
    BY <1>1, <2>1, <2>6 DEF ServerCallHolds
  <2>8. ServerCallHolds(k)
    BY <1>1, <2>3, <2>6, <2>7 DEF ServerCallHolds
  <2>9. Server!Step(k)
    BY <1>1, <1>3, <2>1, <2>2 DEF Server!LookupAnswered
  <2> QED BY <2>6, <2>8, <2>9, ServerSteps
<1> QED BY <1>2, <1>3

LEMMA TermsGoOn ==
    ASSUME ServerInv, Server!TermsRead \/ Server!TermsAccepted
    PROVE  ServerInv'
<1>1. CASE Server!TermsRead
  <2>1. PICK r \in ServerCalls : r = call /\ r.pc = "terms" /\ ServerCallHolds(r)
    BY <1>1 DEF ServerInv, Server!TermsRead
  <2>2. PICK lang \in IF "en" \in languages THEN {"en"} ELSE languages \cup {Nothing} :
            /\ lang = Nothing => languages = {}
            /\ Server!Step([r EXCEPT !.pc = "accept", !.result = {lang} \ {Nothing}])
    BY <1>1, <2>1 DEF Server!TermsRead
  <2>3. PICK k : k = [r EXCEPT !.pc = "accept", !.result = {lang} \ {Nothing}]
    OBVIOUS
  <2>4. languages \subseteq Server!Languages /\ languages \in spoke
    BY DEF ServerInv
  <2>5. {lang} \ {Nothing} \in Results /\ {lang} \ {Nothing} \subseteq languages
    BY <2>2, <2>4, ResultKinds
  <2>6. k \in ServerCalls /\ k.pc = "accept" /\ k.result = {lang} \ {Nothing} /\ k.sent = r.sent
        /\ k.plaintext = r.plaintext
    BY <2>3, <2>5 DEF ServerCalls
  <2>7. "en" \in languages => lang = "en" /\ lang # Nothing
    BY <2>2, ClientAssumption
  <2>8. k.result = {} => {} \in spoke
    BY <2>2, <2>4, <2>6
  <2>9. ServerCallHolds(k)
    BY <2>1, <2>4, <2>5, <2>6, <2>7, <2>8 DEF ServerCallHolds
  <2>10. Server!Step(k)
    BY <2>2, <2>3
  <2> QED BY <2>6, <2>9, <2>10, ServerSteps
<1>2. CASE Server!TermsAccepted
  BY <1>2, ServerEnds DEF Server!TermsAccepted
<1> QED BY <1>1, <1>2

\* The room is read event by event.
LEMMA Fetched ==
    ASSUME ServerInv, Server!TryFetch
    PROVE  ServerInv'
<1>1. PICK r \in ServerCalls :
          /\ r = call /\ r.pc = "invite" /\ ServerCallHolds(r) /\ r.invite \in Seq(MaybeValue)
          /\ Len(r.invite) < 3
  BY DEF ServerInv, ServerCalls, Server!TryFetch, Server!Fields
<1>2. PICK n \in Nat : n = Len(r.invite) /\ n + 1 \in 1..3
  BY <1>1
<1>3. PICK v \in {state[Server!Fields[n + 1]], Nothing} :
          Server!Step([r EXCEPT !.invite = Append(r.invite, v)])
  BY <1>1, <1>2 DEF Server!TryFetch
<1>4. PICK more, k : more = Append(r.invite, v) /\ k = [r EXCEPT !.invite = more]
  OBVIOUS
<1>5. Server!Fields[n + 1] \in Server!FieldSet
  BY <1>2 DEF Server!Fields, Server!FieldSet
<1>6. v \in MaybeValue
  BY <1>3, <1>5 DEF ServerInv, MaybeValue
<1>7. /\ more \in Seq(MaybeValue) /\ Len(more) = n + 1 /\ more[n + 1] = v
      /\ \A i \in 1..n : more[i] = r.invite[i]
  BY <1>1, <1>2, <1>4, <1>6, AppendProperties
<1>8. k \in ServerCalls /\ k.pc = "invite" /\ k.invite = more /\ k.sent = r.sent
      /\ k.plaintext = r.plaintext
  BY <1>1, <1>4, <1>7 DEF ServerCalls
<1>9. ASSUME NEW i \in DOMAIN more
      PROVE  i <= 3 /\ more[i] \in {s[Server!Fields[i]] : s \in had} \cup {Nothing}
  <2>1. i \in 1..(n + 1)
    BY <1>7, <1>9
  <2>2. CASE i = n + 1
    BY <1>2, <1>3, <1>7, <2>2 DEF ServerInv
  <2>3. CASE i \in 1..n
    BY <1>1, <1>2, <1>7, <2>3 DEF ServerCallHolds
  <2> QED BY <1>2, <2>1, <2>2, <2>3
<1>10. ServerCallHolds(k)
  BY <1>1, <1>8, <1>9 DEF ServerCallHolds
<1>11. Server!Step(k)
  BY <1>3, <1>4
<1> QED BY <1>8, <1>10, <1>11, ServerSteps

LEMMA InviteStored ==
    ASSUME ServerInv, Server!StoreInvite
    PROVE  ServerInv'
<1>1. PICK r \in ServerCalls :
          /\ r = call /\ r.pc = "invite" /\ ServerCallHolds(r) /\ r.invite \in Seq(MaybeValue)
          /\ Len(r.invite) = 3
  BY DEF ServerInv, ServerCalls, Server!StoreInvite, Server!Fields
<1>2. PICK sent : sent = [alias |-> r.invite[1], avatar |-> r.invite[3],
                          name |-> Server!RoomName(r.invite[1], r.invite[2])]
  OBVIOUS
<1>3. PICK k : k = [r EXCEPT !.pc = "stored", !.result = sent]
  OBVIOUS
<1>4. 1 \in DOMAIN r.invite /\ 2 \in DOMAIN r.invite /\ 3 \in DOMAIN r.invite
  BY <1>1
<1>5. r.invite[1] \in MaybeValue /\ r.invite[2] \in MaybeValue /\ r.invite[3] \in MaybeValue
  BY <1>1, <1>4
<1>6. Server!RoomName(r.invite[1], r.invite[2]) \in {r.invite[1], r.invite[2]}
  BY DEF Server!RoomName
<1>7. sent \in Invites
  BY <1>2, <1>5, <1>6 DEF Invites
<1>8. k \in ServerCalls /\ k.pc = "stored" /\ k.result = sent /\ k.sent = r.sent
      /\ k.plaintext = r.plaintext
  <2>1. sent \in Results
    BY <1>7, ResultKinds
  <2> QED BY <1>3, <2>1 DEF ServerCalls
<1>9. /\ r.invite[1] \in {s["alias"] : s \in had} \cup {Nothing}
      /\ r.invite[2] \in {s["name"] : s \in had} \cup {Nothing}
      /\ r.invite[3] \in {s["avatar"] : s \in had} \cup {Nothing}
  BY <1>1, <1>4 DEF ServerCallHolds, Server!Fields
<1>10. /\ sent.alias \in {s["alias"] : s \in had} \cup {Nothing}
       /\ sent.avatar \in {s["avatar"] : s \in had} \cup {Nothing}
       /\ sent.name \in (UNION {{s["name"], s["alias"]} : s \in had}) \cup {Nothing}
       /\ sent.alias # Nothing => sent.name # Nothing
  <2>1. /\ sent.alias = r.invite[1] /\ sent.avatar = r.invite[3]
        /\ sent.name = Server!RoomName(r.invite[1], r.invite[2])
    BY <1>2
  <2>2. sent.alias # Nothing => sent.name # Nothing
    BY <2>1 DEF Server!RoomName
  <2>3. ASSUME NEW x, x \in {s["alias"] : s \in had} \cup {Nothing}
                         \/ x \in {s["name"] : s \in had} \cup {Nothing}
        PROVE  x \in (UNION {{s["name"], s["alias"]} : s \in had}) \cup {Nothing}
    <3>1. CASE x = Nothing
      BY <3>1
    <3>2. ASSUME NEW s \in had, x = s["alias"] \/ x = s["name"]
          PROVE  x \in UNION {{t["name"], t["alias"]} : t \in had}
      <4>1. x \in {s["name"], s["alias"]}
        BY <3>2
      <4> QED BY <4>1
    <3> QED BY <2>3, <3>1, <3>2
  <2>4. sent.name \in (UNION {{s["name"], s["alias"]} : s \in had}) \cup {Nothing}
    BY <1>6, <1>9, <2>1, <2>3
  <2> QED BY <1>9, <2>1, <2>2, <2>4
<1>11. ServerCallHolds(k)
  BY <1>1, <1>8, <1>10 DEF ServerCallHolds
<1>12. Server!Step(k)
  BY <1>1, <1>2, <1>3 DEF Server!StoreInvite
<1> QED BY <1>8, <1>11, <1>12, ServerSteps

LEMMA ServerKeeps ==
    ASSUME ServerInv, Server!Next \/ UNCHANGED serverVars
    PROVE  ServerInv'
<1>1. CASE Server!Next
  <2>1. CASE Server!End \/ Server!RequestFails
    BY <2>1, ServerEnds DEF Server!End, Server!RequestFails
  <2> QED BY <1>1, <2>1, ServerChanges, ServerAsked, DetailsRead, LookedUp, TermsGoOn,
             Fetched, InviteStored DEF Server!Next
<1>2. CASE UNCHANGED serverVars
  BY <1>2 DEF serverVars, ServerInv, ServerCallHolds
<1> QED BY <1>1, <1>2

LEMMA IdentityServerHolds == ServerInv => Server!IdentityHolds
BY DEF ServerInv, ServerCallHolds, Server!IdentityHolds, Server!LookupInOrder,
   Server!ClearOnlyIfAllowed, Server!InviteIsOfRoom, Server!TermsAreOffered

-----------------------------------------------------------------------------
(* Timed calls                                                              *)

TimerLevels == {"outer", "inner"}
Timers      == [id : Nat \X Nat, call : Calls, level : TimerLevels, at : Nat]
Outcomes    == {"error", "MatrixError", "TypeError", "body", "response"}

TimedCalls ==
    [pc : {"idle", "started", "request", "answered", "done"}, client : Objects \cup {Nothing},
     outer : Timers \cup {Nothing}, inner : Timers \cup {Nothing},
     answer : Requests!Answers, outcome : Outcomes \cup {Nothing}]

Heard == [start : Nat, end : Nat, success : Nat, failure : Nat]

\* What is timed of a call, and with which timer.
Runs(r, level)    == IF level = "outer" THEN r.pc \in {"started", "request", "answered"}
                     ELSE r.pc = "request"
TimerIn(r, level) == IF level = "outer" THEN r.outer ELSE r.inner

\* The functions that run, and those that gave their caller a body.
RunningNow == {p \in Calls \X TimerLevels : Runs(timedCall[p[1]], p[2])}
InnerGave  == {c \in Calls : timedCall[c].pc \in {"answered", "done"} /\ timedCall[c].outcome = "body"}
OuterGave  == {c \in Calls : timedCall[c].pc = "done" /\ timedCall[c].outcome = "body"}

\* The timers are those of the functions that run, each with an ID of its own.
TimersHold ==
    /\ \A m \in Objects : \A t \in requestStartTimes[m] :
           /\ t.id[2] < uid[m] /\ Runs(timedCall[t.call], t.level)
           /\ timedCall[t.call].client = m /\ TimerIn(timedCall[t.call], t.level) = t
    /\ \A m \in Objects : \A t, u \in requestStartTimes[m] : t.id = u.id => t = u
    /\ \A c \in Calls, level \in TimerLevels : Runs(timedCall[c], level) =>
           /\ timedCall[c].client \in Objects
           /\ TimerIn(timedCall[c], level) \in requestStartTimes[timedCall[c].client]
           /\ TimerIn(timedCall[c], level).call = c /\ TimerIn(timedCall[c], level).level = level

CountsHold ==
    /\ IsFiniteSet(RunningNow) /\ IsFiniteSet(InnerGave) /\ IsFiniteSet(OuterGave)
    /\ heard.start = heard.end + Cardinality(RunningNow)
    /\ heard.success = Cardinality(OuterGave) + Cardinality(InnerGave)
    /\ heard.success + heard.failure = heard.end

RequestInv ==
    /\ time \in Nat /\ uid \in [Objects -> Nat]
    /\ requestStartTimes \in [Objects -> SUBSET Timers]
    /\ timedCall \in [Calls -> TimedCalls]
    /\ heard \in Heard
    /\ mistimed = FALSE
    /\ TimersHold /\ CountsHold
    /\ Requests!NoErrorResolves

LEMMA NoTimedCall ==
    /\ Requests!NoCall \in TimedCalls /\ Requests!NoCall.pc = "idle"
    /\ Requests!NoCall.outcome = Nothing /\ Nothing # "body"
BY ClientAssumption DEF Requests!NoCall, TimedCalls, Requests!Answers, Requests!NoAnswer

LEMMA RequestsStart == Requests!Init => RequestInv
<1> SUFFICES ASSUME Requests!Init PROVE RequestInv
  OBVIOUS
<1>1. PICK none \in TimedCalls :
          none = Requests!NoCall /\ none.pc = "idle" /\ none.outcome = Nothing
  BY NoTimedCall
<1>2. /\ time = 0 /\ uid = [m \in Objects |-> 0] /\ mistimed = FALSE
      /\ requestStartTimes = [m \in Objects |-> {}]
      /\ timedCall = [c \in Calls |-> none]
      /\ heard = [start |-> 0, end |-> 0, success |-> 0, failure |-> 0]
  BY <1>1 DEF Requests!Init
<1>3. /\ timedCall \in [Calls -> TimedCalls] /\ uid \in [Objects -> Nat]
      /\ requestStartTimes \in [Objects -> SUBSET Timers]
      /\ heard \in Heard
      /\ heard.start = 0 /\ heard.end = 0 /\ heard.success = 0 /\ heard.failure = 0
  BY <1>1, <1>2 DEF Heard
<1>4. \A c \in Calls : timedCall[c].pc = "idle" /\ timedCall[c].outcome = Nothing
  BY <1>1, <1>2
<1>5. TimersHold
  BY <1>2, <1>4 DEF TimersHold, Runs
<1>6. RunningNow = {} /\ InnerGave = {} /\ OuterGave = {}
  BY <1>4 DEF RunningNow, InnerGave, OuterGave, Runs
<1>7. CountsHold
  BY <1>3, <1>6, FS_EmptySet DEF CountsHold
<1>8. Requests!NoErrorResolves
  BY <1>4, NoTimedCall DEF Requests!NoErrorResolves
<1> QED BY <1>2, <1>3, <1>5, <1>7, <1>8 DEF RequestInv

\* A call of the record k starts its timer, or ends it; what else it times goes on.
StartsTimer(c, m, level, timer, k) ==
    /\ timer = Requests!Timer(m, c, level) /\ Requests!StartTimer(m, timer)
    /\ timedCall' = [timedCall EXCEPT ![c] = k]
    /\ k.client = m /\ TimerIn(k, level) = timer
    /\ Runs(k, level) /\ ~Runs(timedCall[c], level)
    /\ \A other \in TimerLevels \ {level} :
           /\ Runs(k, other) <=> Runs(timedCall[c], other)
           /\ Runs(k, other) => /\ TimerIn(k, other) = TimerIn(timedCall[c], other)
                                /\ timedCall[c].client = m

EndsTimer(c, m, level, k) ==
    /\ Requests!EndTimer(m, TimerIn(timedCall[c], level)) /\ uid' = uid
    /\ timedCall' = [timedCall EXCEPT ![c] = k]
    /\ timedCall[c].client = m /\ k.client = m
    /\ Runs(timedCall[c], level) /\ ~Runs(k, level)
    /\ \A other \in TimerLevels \ {level} :
           /\ Runs(k, other) <=> Runs(timedCall[c], other)
           /\ Runs(k, other) => TimerIn(k, other) = TimerIn(timedCall[c], other)

LEMMA TimerStarts ==
    ASSUME RequestInv, NEW c \in Calls, NEW m \in Objects, NEW level \in TimerLevels,
           NEW timer \in Timers, NEW k \in TimedCalls, StartsTimer(c, m, level, timer, k)
    PROVE  /\ uid' \in [Objects -> Nat] /\ requestStartTimes' \in [Objects -> SUBSET Timers]
           /\ timedCall' \in [Calls -> TimedCalls]
           /\ TimersHold' /\ RunningNow' \ {<<c, level>>} = RunningNow \ {<<c, level>>}
           /\ <<c, level>> \in RunningNow' /\ <<c, level>> \notin RunningNow
<1>0. /\ timer = Requests!Timer(m, c, level) /\ Requests!StartTimer(m, timer)
      /\ timedCall' = [timedCall EXCEPT ![c] = k]
      /\ k.client = m /\ TimerIn(k, level) = timer
      /\ Runs(k, level) /\ ~Runs(timedCall[c], level)
  BY DEF StartsTimer
<1>1. /\ timedCall' \in [Calls -> TimedCalls] /\ timedCall'[c] = k
      /\ \A d \in Calls : d # c => timedCall'[d] = timedCall[d]
  BY <1>0 DEF RequestInv
<1>2. /\ timer.id = <<time, uid[m]>> /\ timer.id[2] = uid[m]
      /\ timer.call = c /\ timer.level = level
  BY <1>0 DEF Requests!Timer, Requests!UniqueId
<1>3. /\ uid' \in [Objects -> Nat] /\ uid'[m] = uid[m] + 1
      /\ \A n \in Objects : n # m => uid'[n] = uid[n]
  BY <1>0 DEF RequestInv, Requests!StartTimer
<1>4. \A t \in requestStartTimes[m] : t.id # timer.id
  <2>1. \A t \in requestStartTimes[m] : t.id[2] < uid[m]
    BY DEF RequestInv, TimersHold
  <2>2. uid[m] \in Nat
    BY DEF RequestInv
  <2> QED BY <1>2, <2>1, <2>2
<1>5. /\ requestStartTimes' \in [Objects -> SUBSET Timers]
      /\ requestStartTimes'[m] = requestStartTimes[m] \cup {timer}
      /\ \A n \in Objects : n # m => requestStartTimes'[n] = requestStartTimes[n]
  <2>1. {t \in requestStartTimes[m] : t.id # timer.id} = requestStartTimes[m]
    BY <1>4
  <2>2. requestStartTimes' = [requestStartTimes EXCEPT ![m] = requestStartTimes[m] \cup {timer}]
    BY <1>0, <2>1 DEF Requests!StartTimer
  <2> QED BY <2>2 DEF RequestInv
<1>6. \A n \in Objects : \A t \in requestStartTimes[n] :
          /\ t \in Timers /\ t.call \in Calls /\ t.level \in TimerLevels
          /\ t.id[2] < uid[n] /\ Runs(timedCall[t.call], t.level)
          /\ timedCall[t.call].client = n /\ TimerIn(timedCall[t.call], t.level) = t
  BY DEF RequestInv, TimersHold, Timers
<1>7. ASSUME NEW d \in Calls, NEW l \in TimerLevels, d # c \/ l # level
      PROVE  /\ Runs(timedCall'[d], l) <=> Runs(timedCall[d], l)
             /\ Runs(timedCall[d], l) =>
                    /\ TimerIn(timedCall'[d], l) = TimerIn(timedCall[d], l)
                    /\ timedCall'[d].client = timedCall[d].client
  BY <1>0, <1>1, <1>7 DEF StartsTimer
<1>8. ASSUME NEW n \in Objects, NEW t \in requestStartTimes'[n]
      PROVE  /\ t.id[2] < uid'[n] /\ Runs(timedCall'[t.call], t.level)
             /\ timedCall'[t.call].client = n /\ TimerIn(timedCall'[t.call], t.level) = t
  <2>1. uid[n] \in Nat /\ uid'[n] \in Nat /\ uid[n] <= uid'[n]
    BY <1>3 DEF RequestInv
  <2>2. CASE t \in requestStartTimes[n]
    <3>1. t.call # c \/ t.level # level
      BY <1>0, <1>6, <2>2
    <3>2. t.id[2] < uid'[n]
      <4>1. t.id[2] \in Nat /\ t.id[2] < uid[n]
        BY <1>6, <2>2 DEF Timers
      <4> QED BY <2>1, <4>1
    <3> QED BY <1>6, <1>7, <2>2, <3>1, <3>2
  <2>3. CASE n = m /\ t = timer
    BY <1>0, <1>1, <1>2, <1>3, <2>1, <2>3
  <2> QED BY <1>5, <1>8, <2>2, <2>3
<1>9. ASSUME NEW n \in Objects, NEW t \in requestStartTimes'[n], NEW u \in requestStartTimes'[n],
             t.id = u.id
      PROVE  t = u
  BY <1>4, <1>5, <1>9 DEF RequestInv, TimersHold
<1>10. ASSUME NEW d \in Calls, NEW l \in TimerLevels, Runs(timedCall'[d], l)
       PROVE  /\ timedCall'[d].client \in Objects
              /\ TimerIn(timedCall'[d], l) \in requestStartTimes'[timedCall'[d].client]
              /\ TimerIn(timedCall'[d], l).call = d /\ TimerIn(timedCall'[d], l).level = l
  <2>1. CASE d = c /\ l = level
    BY <1>0, <1>1, <1>2, <1>5, <2>1
  <2>2. CASE d # c \/ l # level
    <3>1. /\ Runs(timedCall[d], l) /\ TimerIn(timedCall'[d], l) = TimerIn(timedCall[d], l)
          /\ timedCall'[d].client = timedCall[d].client
      BY <1>7, <1>10, <2>2
    <3>2. /\ timedCall[d].client \in Objects
          /\ TimerIn(timedCall[d], l) \in requestStartTimes[timedCall[d].client]
          /\ TimerIn(timedCall[d], l).call = d /\ TimerIn(timedCall[d], l).level = l
      BY <3>1 DEF RequestInv, TimersHold
    <3> QED BY <1>5, <3>1, <3>2
  <2> QED BY <2>1, <2>2
<1>11. TimersHold'
  BY <1>8, <1>9, <1>10 DEF TimersHold
<1>12. /\ RunningNow' \ {<<c, level>>} = RunningNow \ {<<c, level>>}
       /\ <<c, level>> \in RunningNow' /\ <<c, level>> \notin RunningNow
  <2>1. \A p \in Calls \X TimerLevels : p[1] \in Calls /\ p[2] \in TimerLevels /\ p = <<p[1], p[2]>>
    OBVIOUS
  <2>2. \A p \in Calls \X TimerLevels : p # <<c, level>> =>
            (Runs(timedCall'[p[1]], p[2]) <=> Runs(timedCall[p[1]], p[2]))
    BY <1>7, <2>1
  <2>3. <<c, level>> \in Calls \X TimerLevels
    OBVIOUS
  <2> QED BY <1>0, <1>1, <2>2, <2>3 DEF RunningNow
<1> QED BY <1>1, <1>3, <1>5, <1>11, <1>12

LEMMA TimerEnds ==
    ASSUME RequestInv, NEW c \in Calls, NEW m \in Objects, NEW level \in TimerLevels,
           NEW k \in TimedCalls, EndsTimer(c, m, level, k)
    PROVE  /\ requestStartTimes' \in [Objects -> SUBSET Timers] /\ mistimed' = FALSE
           /\ timedCall' \in [Calls -> TimedCalls]
           /\ TimersHold' /\ RunningNow' \ {<<c, level>>} = RunningNow \ {<<c, level>>}
           /\ <<c, level>> \notin RunningNow' /\ <<c, level>> \in RunningNow
<1>0. /\ Requests!EndTimer(m, TimerIn(timedCall[c], level)) /\ uid' = uid
      /\ timedCall' = [timedCall EXCEPT ![c] = k]
      /\ timedCall[c].client = m /\ k.client = m
      /\ Runs(timedCall[c], level) /\ ~Runs(k, level)
  BY DEF EndsTimer
<1>1. /\ timedCall' \in [Calls -> TimedCalls] /\ timedCall'[c] = k
      /\ \A d \in Calls : d # c => timedCall'[d] = timedCall[d]
  BY <1>0 DEF RequestInv
<1>2. PICK timer \in requestStartTimes[m] :
          timer = TimerIn(timedCall[c], level) /\ timer.call = c /\ timer.level = level
  BY <1>0 DEF RequestInv, TimersHold
<1>3. {t \in requestStartTimes[m] : t.id = timer.id} = {timer}
  BY <1>2 DEF RequestInv, TimersHold
<1>4. /\ requestStartTimes' = [requestStartTimes EXCEPT ![m] = requestStartTimes[m] \ {timer}]
      /\ mistimed' = FALSE
  BY <1>0, <1>2, <1>3 DEF Requests!EndTimer, RequestInv
<1>5. /\ requestStartTimes' \in [Objects -> SUBSET Timers]
      /\ requestStartTimes'[m] = requestStartTimes[m] \ {timer}
      /\ \A n \in Objects : n # m => requestStartTimes'[n] = requestStartTimes[n]
  BY <1>4 DEF RequestInv
<1>6. \A n \in Objects : \A t \in requestStartTimes[n] :
          /\ t.call \in Calls /\ t.level \in TimerLevels
          /\ t.id[2] < uid[n] /\ Runs(timedCall[t.call], t.level)
          /\ timedCall[t.call].client = n /\ TimerIn(timedCall[t.call], t.level) = t
  BY DEF RequestInv, TimersHold, Timers
<1>7. ASSUME NEW d \in Calls, NEW l \in TimerLevels, d # c \/ l # level
      PROVE  /\ Runs(timedCall'[d], l) <=> Runs(timedCall[d], l)
             /\ Runs(timedCall[d], l) =>
                    /\ TimerIn(timedCall'[d], l) = TimerIn(timedCall[d], l)
                    /\ timedCall'[d].client = timedCall[d].client
  BY <1>0, <1>1, <1>7 DEF EndsTimer
<1>8. ASSUME NEW n \in Objects, NEW t \in requestStartTimes'[n]
      PROVE  /\ t.id[2] < uid'[n] /\ Runs(timedCall'[t.call], t.level)
             /\ timedCall'[t.call].client = n /\ TimerIn(timedCall'[t.call], t.level) = t
  <2>1. t \in requestStartTimes[n] /\ (n = m => t # timer)
    BY <1>5
  <2>2. t.call # c \/ t.level # level
    BY <1>2, <1>6, <2>1
  <2> QED BY <1>0, <1>6, <1>7, <2>1, <2>2
<1>9. ASSUME NEW n \in Objects, NEW t \in requestStartTimes'[n], NEW u \in requestStartTimes'[n],
             t.id = u.id
      PROVE  t = u
  BY <1>5, <1>9 DEF RequestInv, TimersHold
<1>10. ASSUME NEW d \in Calls, NEW l \in TimerLevels, Runs(timedCall'[d], l)
       PROVE  /\ timedCall'[d].client \in Objects
              /\ TimerIn(timedCall'[d], l) \in requestStartTimes'[timedCall'[d].client]
              /\ TimerIn(timedCall'[d], l).call = d /\ TimerIn(timedCall'[d], l).level = l
  <2>1. d # c \/ l # level
    BY <1>0, <1>1, <1>10
  <2>2. /\ Runs(timedCall[d], l) /\ TimerIn(timedCall'[d], l) = TimerIn(timedCall[d], l)
        /\ timedCall'[d].client = timedCall[d].client
    BY <1>7, <1>10, <2>1
  <2>3. /\ timedCall[d].client \in Objects
        /\ TimerIn(timedCall[d], l) \in requestStartTimes[timedCall[d].client]
        /\ TimerIn(timedCall[d], l).call = d /\ TimerIn(timedCall[d], l).level = l
    BY <2>2 DEF RequestInv, TimersHold
  <2>4. TimerIn(timedCall[d], l) # timer
    BY <1>2, <2>1, <2>3
  <2> QED BY <1>5, <2>2, <2>3, <2>4
<1>11. TimersHold'
  BY <1>8, <1>9, <1>10 DEF TimersHold
<1>12. /\ RunningNow' \ {<<c, level>>} = RunningNow \ {<<c, level>>}
       /\ <<c, level>> \notin RunningNow' /\ <<c, level>> \in RunningNow
  <2>1. \A p \in Calls \X TimerLevels : p[1] \in Calls /\ p[2] \in TimerLevels /\ p = <<p[1], p[2]>>
    OBVIOUS
  <2>2. \A p \in Calls \X TimerLevels : p # <<c, level>> =>
            (Runs(timedCall'[p[1]], p[2]) <=> Runs(timedCall[p[1]], p[2]))
    BY <1>7, <2>1
  <2>3. <<c, level>> \in Calls \X TimerLevels
    OBVIOUS
  <2> QED BY <1>0, <1>1, <2>2, <2>3 DEF RunningNow
<1> QED BY <1>1, <1>4, <1>5, <1>11, <1>12

\* A function more runs.
LEMMA StartCounted ==
    ASSUME RequestInv, NEW e, RunningNow' \ {e} = RunningNow \ {e},
           e \in RunningNow', e \notin RunningNow,
           InnerGave' = InnerGave, OuterGave' = OuterGave,
           heard' = [heard EXCEPT !.start = @ + 1]
    PROVE  CountsHold' /\ heard' \in Heard
<1>1. PICK S, T : S = RunningNow /\ T = RunningNow' /\ IsFiniteSet(S)
  BY DEF RequestInv, CountsHold
<1>2. IsFiniteSet(T) /\ Cardinality(T) = Cardinality(S) + 1 /\ Cardinality(S) \in Nat
  <2>1. T \ {e} = S \ {e} /\ e \in T /\ e \notin S
    BY <1>1
  <2> QED BY <1>1, <2>1, OneMoves
<1>3. /\ heard' \in Heard
      /\ heard'.start = heard.start + 1 /\ heard'.end = heard.end
      /\ heard'.success = heard.success /\ heard'.failure = heard.failure
  BY DEF RequestInv, Heard
<1>4. heard.end \in Nat /\ heard.start = heard.end + Cardinality(S)
  BY <1>1 DEF RequestInv, CountsHold, Heard
<1>5. heard'.start = heard'.end + Cardinality(T)
  BY <1>2, <1>3, <1>4
<1> QED BY <1>1, <1>2, <1>3, <1>5 DEF RequestInv, CountsHold

\* A function less runs, and its outcome is counted.
LEMMA EndCounted ==
    ASSUME RequestInv, NEW e, RunningNow' \ {e} = RunningNow \ {e},
           e \notin RunningNow', e \in RunningNow,
           NEW outcome, Requests!Told(outcome), NEW c \in Calls,
           \/ /\ InnerGave' \ {c} = InnerGave \ {c} /\ c \notin InnerGave
              /\ (c \in InnerGave' <=> outcome = "body") /\ OuterGave' = OuterGave
           \/ /\ OuterGave' \ {c} = OuterGave \ {c} /\ c \notin OuterGave
              /\ (c \in OuterGave' <=> outcome = "body") /\ InnerGave' = InnerGave
    PROVE  CountsHold' /\ heard' \in Heard
<1>1. PICK S, T : S = RunningNow /\ T = RunningNow' /\ IsFiniteSet(S)
  BY DEF RequestInv, CountsHold
<1>2. IsFiniteSet(T) /\ Cardinality(T) = Cardinality(S) - 1 /\ Cardinality(S) \in Nat
  <2>1. T \ {e} = S \ {e} /\ e \notin T /\ e \in S
    BY <1>1
  <2> QED BY <1>1, <2>1, OneMoves
<1>3. PICK I, J : I = InnerGave /\ J = InnerGave' /\ IsFiniteSet(I)
  BY DEF RequestInv, CountsHold
<1>4. PICK O, P : O = OuterGave /\ P = OuterGave' /\ IsFiniteSet(O)
  BY DEF RequestInv, CountsHold
<1>5. /\ J \ {c} = I \ {c} /\ P \ {c} = O \ {c}
      /\ ~(c \in I /\ c \notin J) /\ ~(c \in O /\ c \notin P)
  BY <1>3, <1>4
<1>6. /\ IsFiniteSet(J) /\ Cardinality(I) \in Nat /\ Cardinality(J) \in Nat
      /\ (c \in I <=> c \in J) => Cardinality(J) = Cardinality(I)
      /\ c \notin I /\ c \in J => Cardinality(J) = Cardinality(I) + 1
  BY <1>3, <1>5, OneMoves
<1>7. /\ IsFiniteSet(P) /\ Cardinality(O) \in Nat /\ Cardinality(P) \in Nat
      /\ (c \in O <=> c \in P) => Cardinality(P) = Cardinality(O)
      /\ c \notin O /\ c \in P => Cardinality(P) = Cardinality(O) + 1
  BY <1>4, <1>5, OneMoves
<1>8. /\ outcome = "body" => Cardinality(P) + Cardinality(J) = Cardinality(O) + Cardinality(I) + 1
      /\ outcome # "body" => Cardinality(P) + Cardinality(J) = Cardinality(O) + Cardinality(I)
  <2>1. CASE c \notin I /\ (c \in J <=> outcome = "body") /\ O = P
    BY <1>6, <1>7, <2>1
  <2>2. CASE c \notin O /\ (c \in P <=> outcome = "body") /\ I = J
    BY <1>6, <1>7, <2>2
  <2> QED BY <1>3, <1>4, <2>1, <2>2
<1>9. /\ heard' \in Heard
      /\ heard'.start = heard.start /\ heard'.end = heard.end + 1
      /\ outcome = "body" => heard'.success = heard.success + 1 /\ heard'.failure = heard.failure
      /\ outcome # "body" => heard'.success = heard.success /\ heard'.failure = heard.failure + 1
  <2> PICK h \in Heard : h = heard
    BY DEF RequestInv
  <2>1. CASE outcome = "body"
    <3>1. PICK a \in Nat, b \in Nat : a = h.end + 1 /\ b = h.success + 1
      BY DEF Heard
    <3>2. heard' = [h EXCEPT !.end = a, !.success = b]
      BY <2>1, <3>1 DEF Requests!Told
    <3>3. PICK g : g = [h EXCEPT !.end = a, !.success = b]
      OBVIOUS
    <3>4. /\ g \in Heard /\ g.start = h.start /\ g.end = a
          /\ g.success = b /\ g.failure = h.failure
      BY <3>3 DEF Heard
    <3> QED BY <2>1, <3>1, <3>2, <3>3, <3>4
  <2>2. CASE outcome # "body"
    <3>1. PICK a \in Nat, b \in Nat : a = h.end + 1 /\ b = h.failure + 1
      BY DEF Heard
    <3>2. heard' = [h EXCEPT !.end = a, !.failure = b]
      BY <2>2, <3>1 DEF Requests!Told
    <3>3. PICK g : g = [h EXCEPT !.end = a, !.failure = b]
      OBVIOUS
    <3>4. /\ g \in Heard /\ g.start = h.start /\ g.end = a
          /\ g.failure = b /\ g.success = h.success
      BY <3>3 DEF Heard
    <3> QED BY <2>2, <3>1, <3>2, <3>3, <3>4
  <2> QED BY <2>1, <2>2
<1>10. /\ heard.end \in Nat /\ heard.success \in Nat /\ heard.failure \in Nat
       /\ heard.start = heard.end + Cardinality(S)
       /\ heard.success = Cardinality(O) + Cardinality(I)
       /\ heard.success + heard.failure = heard.end
  BY <1>1, <1>3, <1>4 DEF RequestInv, CountsHold, Heard
<1>11. heard'.start = heard'.end + Cardinality(T)
  BY <1>2, <1>9, <1>10
<1>12. heard'.success = Cardinality(P) + Cardinality(J)
  BY <1>6, <1>7, <1>8, <1>9, <1>10
<1>13. heard'.success + heard'.failure = heard'.end
  BY <1>9, <1>10
<1> QED BY <1>1, <1>2, <1>3, <1>4, <1>6, <1>7, <1>9, <1>11, <1>12, <1>13 DEF CountsHold

\* What happens to the sets of calls when one of them gets on.
LEMMA GaveMoves ==
    ASSUME RequestInv, NEW c \in Calls, NEW k \in TimedCalls,
           timedCall' = [timedCall EXCEPT ![c] = k]
    PROVE  /\ InnerGave' \ {c} = InnerGave \ {c} /\ OuterGave' \ {c} = OuterGave \ {c}
           /\ (c \in InnerGave' <=> k.pc \in {"answered", "done"} /\ k.outcome = "body")
           /\ (c \in OuterGave' <=> k.pc = "done" /\ k.outcome = "body")
<1>1. /\ timedCall'[c] = k
      /\ \A d \in Calls : d # c => timedCall'[d] = timedCall[d]
  BY DEF RequestInv
<1> QED BY <1>1 DEF InnerGave, OuterGave

LEMMA NoErrorGives ==
    ASSUME RequestInv, NEW c \in Calls, NEW k \in TimedCalls,
           timedCall' = [timedCall EXCEPT ![c] = k],
           k.outcome = "body" => k.answer.status = "ok" /\ k.answer.body # "errcode"
    PROVE  Requests!NoErrorResolves'
<1>1. /\ timedCall'[c] = k
      /\ \A d \in Calls : d # c => timedCall'[d] = timedCall[d]
  BY DEF RequestInv
<1> QED BY <1>1 DEF RequestInv, Requests!NoErrorResolves

\* A function starts.
LEMMA FunctionStarts ==
    ASSUME RequestInv, NEW c \in Calls, NEW m \in Objects, NEW level \in TimerLevels,
           NEW timer \in Timers, NEW k \in TimedCalls, StartsTimer(c, m, level, timer, k),
           k.outcome = "body" => k.answer.status = "ok" /\ k.answer.body # "errcode",
           k.pc \in {"started", "request"}, timedCall[c].pc \in {"idle", "started"},
           heard' = [heard EXCEPT !.start = @ + 1], UNCHANGED <<time, mistimed>>
    PROVE  RequestInv'
<1>1. /\ uid' \in [Objects -> Nat] /\ requestStartTimes' \in [Objects -> SUBSET Timers]
      /\ timedCall' \in [Calls -> TimedCalls]
      /\ TimersHold' /\ RunningNow' \ {<<c, level>>} = RunningNow \ {<<c, level>>}
      /\ <<c, level>> \in RunningNow' /\ <<c, level>> \notin RunningNow
  BY TimerStarts
<1>2. InnerGave' = InnerGave /\ OuterGave' = OuterGave
  <2>1. c \notin InnerGave /\ c \notin OuterGave
    BY DEF InnerGave, OuterGave
  <2>2. timedCall' = [timedCall EXCEPT ![c] = k]
    BY DEF StartsTimer
  <2>3. /\ InnerGave' \ {c} = InnerGave \ {c} /\ OuterGave' \ {c} = OuterGave \ {c}
        /\ c \notin InnerGave' /\ c \notin OuterGave'
    BY <2>2, GaveMoves
  <2> QED BY <2>1, <2>3
<1>3. CountsHold' /\ heard' \in Heard
  BY <1>1, <1>2, StartCounted
<1>4. Requests!NoErrorResolves'
  <2>1. timedCall' = [timedCall EXCEPT ![c] = k]
    BY DEF StartsTimer
  <2> QED BY <2>1, NoErrorGives
<1> QED BY <1>1, <1>3, <1>4 DEF RequestInv

\* A function ends.
LEMMA FunctionEnds ==
    ASSUME RequestInv, NEW c \in Calls, NEW m \in Objects, NEW level \in TimerLevels,
           NEW k \in TimedCalls, EndsTimer(c, m, level, k), Requests!Told(k.outcome),
           k.outcome = "body" => k.answer.status = "ok" /\ k.answer.body # "errcode",
           k.pc = (IF level = "inner" THEN "answered" ELSE "done"),
           level = "outer" => timedCall[c].pc = "answered" /\ timedCall[c].outcome = k.outcome,
           level = "inner" => timedCall[c].pc = "request", time' = time
    PROVE  RequestInv'
<1>1. /\ requestStartTimes' \in [Objects -> SUBSET Timers] /\ mistimed' = FALSE
      /\ timedCall' \in [Calls -> TimedCalls]
      /\ TimersHold' /\ RunningNow' \ {<<c, level>>} = RunningNow \ {<<c, level>>}
      /\ <<c, level>> \notin RunningNow' /\ <<c, level>> \in RunningNow
  BY TimerEnds
<1>2. timedCall' = [timedCall EXCEPT ![c] = k] /\ uid' = uid
  BY DEF EndsTimer
<1>3. /\ InnerGave' \ {c} = InnerGave \ {c} /\ OuterGave' \ {c} = OuterGave \ {c}
      /\ (c \in InnerGave' <=> k.pc \in {"answered", "done"} /\ k.outcome = "body")
      /\ (c \in OuterGave' <=> k.pc = "done" /\ k.outcome = "body")
  BY <1>2, GaveMoves
<1>4. \/ /\ InnerGave' \ {c} = InnerGave \ {c} /\ c \notin InnerGave
         /\ (c \in InnerGave' <=> k.outcome = "body") /\ OuterGave' = OuterGave
      \/ /\ OuterGave' \ {c} = OuterGave \ {c} /\ c \notin OuterGave
         /\ (c \in OuterGave' <=> k.outcome = "body") /\ InnerGave' = InnerGave
  <2>1. CASE level = "inner"
    <3>1. c \notin InnerGave /\ c \notin OuterGave
      BY <2>1 DEF InnerGave, OuterGave
    <3> QED BY <1>3, <2>1, <3>1
  <2>2. CASE level = "outer"
    <3>1. c \notin OuterGave /\ (c \in InnerGave <=> k.outcome = "body")
      BY <2>2 DEF InnerGave, OuterGave
    <3> QED BY <1>3, <2>2, <3>1
  <2> QED BY <2>1, <2>2 DEF TimerLevels
<1>5. CountsHold' /\ heard' \in Heard
  BY <1>1, <1>4, EndCounted
<1>6. Requests!NoErrorResolves'
  BY <1>2, NoErrorGives
<1> QED BY <1>1, <1>2, <1>5, <1>6 DEF RequestInv

\* A call is made, or calls doRequest.
LEMMA CallStarts ==
    ASSUME RequestInv, NEW c \in Calls,
           (\E m \in Objects : Requests!Start(c, m)) \/ Requests!StartRequest(c)
    PROVE  RequestInv'
<1>1. ASSUME NEW m \in Objects, NEW level \in TimerLevels
      PROVE  Requests!Timer(m, c, level) \in Timers
  BY DEF Requests!Timer, Requests!UniqueId, Timers, RequestInv
<1>2. ASSUME NEW m \in Objects, Requests!Start(c, m) PROVE RequestInv'
  <2>1. PICK none \in TimedCalls : none = Requests!NoCall /\ none.outcome = Nothing
    BY NoTimedCall
  <2>2. PICK timer \in Timers : timer = Requests!Timer(m, c, "outer")
    BY <1>1 DEF TimerLevels
  <2>3. PICK k : k = [none EXCEPT !.pc = "started", !.client = m, !.outer = timer]
    OBVIOUS
  <2>4. /\ k \in TimedCalls /\ k.pc = "started" /\ k.client = m /\ k.outer = timer
        /\ k.outcome = Nothing
    BY <2>1, <2>3 DEF TimedCalls
  <2>5. /\ timedCall[c].pc = "idle" /\ Requests!StartTimer(m, timer)
        /\ timedCall' = [timedCall EXCEPT ![c] = k]
        /\ heard' = [heard EXCEPT !.start = @ + 1] /\ UNCHANGED <<time, mistimed>>
    BY <1>2, <2>1, <2>2, <2>3 DEF Requests!Start
  <2>6. StartsTimer(c, m, "outer", timer, k)
    BY <2>2, <2>4, <2>5 DEF StartsTimer, Runs, TimerIn, TimerLevels
  <2>7. k.outcome = "body" => k.answer.status = "ok" /\ k.answer.body # "errcode"
    BY <2>4, NoTimedCall
  <2>8. "outer" \in TimerLevels /\ k.pc \in {"started", "request"}
        /\ timedCall[c].pc \in {"idle", "started"}
    BY <2>4, <2>5 DEF TimerLevels
  <2> QED BY <2>4, <2>5, <2>6, <2>7, <2>8, FunctionStarts
<1>3. CASE Requests!StartRequest(c)
  <2>1. PICK r \in TimedCalls : r = timedCall[c] /\ r.pc = "started"
    BY <1>3 DEF RequestInv, Requests!StartRequest
  <2>2. PICK m \in Objects : m = r.client
    BY <2>1 DEF RequestInv, TimersHold, Runs, TimerLevels
  <2>3. PICK timer \in Timers : timer = Requests!Timer(m, c, "inner")
    BY <1>1, <2>2 DEF TimerLevels
  <2>4. PICK k : k = [r EXCEPT !.pc = "request", !.inner = timer]
    OBVIOUS
  <2>5. /\ k \in TimedCalls /\ k.pc = "request" /\ k.client = m /\ k.inner = timer
        /\ k.outer = r.outer /\ k.outcome = r.outcome /\ k.answer = r.answer
    BY <2>2, <2>4 DEF TimedCalls
  <2>6. /\ Requests!StartTimer(m, timer) /\ timedCall' = [timedCall EXCEPT ![c] = k]
        /\ heard' = [heard EXCEPT !.start = @ + 1] /\ UNCHANGED <<time, mistimed>>
    <3>1. timedCall' = [timedCall EXCEPT ![c].pc = "request", ![c].inner = timer]
      BY <1>3, <2>1, <2>2, <2>3 DEF Requests!StartRequest
    <3>2. timedCall' = [timedCall EXCEPT ![c] = k]
      BY <2>1, <2>4, <3>1 DEF RequestInv
    <3> QED BY <1>3, <2>1, <2>2, <2>3, <3>2 DEF Requests!StartRequest
  <2>7. StartsTimer(c, m, "inner", timer, k)
    BY <2>1, <2>2, <2>3, <2>5, <2>6 DEF StartsTimer, Runs, TimerIn, TimerLevels
  <2>8. k.outcome = "body" => k.answer.status = "ok" /\ k.answer.body # "errcode"
    BY <2>1, <2>5 DEF RequestInv, Requests!NoErrorResolves
  <2>9. "inner" \in TimerLevels /\ k.pc \in {"started", "request"}
        /\ timedCall[c].pc \in {"idle", "started"}
    BY <2>1, <2>5 DEF TimerLevels
  <2> QED BY <2>5, <2>6, <2>7, <2>8, <2>9, FunctionStarts
<1> QED BY <1>2, <1>3

\* Its request is answered, or it ends.
LEMMA CallEnds ==
    ASSUME RequestInv, NEW c \in Calls,
           (\E answer \in Requests!Answers : Requests!FinishRequest(c, answer))
           \/ Requests!Finish(c)
    PROVE  RequestInv'
<1>1. PICK r \in TimedCalls : r = timedCall[c]
  BY DEF RequestInv
<1>2. ASSUME NEW answer \in Requests!Answers, Requests!FinishRequest(c, answer)
      PROVE  RequestInv'
  <2>1. r.pc = "request"
    BY <1>1, <1>2 DEF Requests!FinishRequest
  <2>2. PICK m \in Objects : m = r.client
    BY <1>1, <2>1 DEF RequestInv, TimersHold, Runs, TimerLevels
  <2>3. PICK outcome \in Outcomes :
            /\ outcome = Requests!Outcome(answer)
            /\ outcome = "body" => answer.status = "ok" /\ answer.body # "errcode"
    BY DEF Requests!Outcome, Requests!NoAnswer, Outcomes
  <2>4. PICK k : k = [r EXCEPT !.pc = "answered", !.answer = answer, !.outcome = outcome]
    OBVIOUS
  <2>5. /\ k \in TimedCalls /\ k.pc = "answered" /\ k.client = m /\ k.outcome = outcome
        /\ k.outer = r.outer /\ k.answer = answer
    BY <2>2, <2>4 DEF TimedCalls
  <2>6. /\ Requests!EndTimer(m, r.inner) /\ Requests!Told(k.outcome)
        /\ timedCall' = [timedCall EXCEPT ![c] = k] /\ uid' = uid /\ time' = time
    <3>1. timedCall' = [timedCall EXCEPT ![c].pc = "answered", ![c].answer = answer,
                                        ![c].outcome = outcome]
      BY <1>2, <2>3 DEF Requests!FinishRequest
    <3>2. timedCall' = [timedCall EXCEPT ![c] = k]
      BY <1>1, <2>4, <3>1 DEF RequestInv
    <3> QED BY <1>1, <1>2, <2>2, <2>3, <2>5, <3>2 DEF Requests!FinishRequest
  <2>7. EndsTimer(c, m, "inner", k)
    BY <1>1, <2>1, <2>2, <2>5, <2>6 DEF EndsTimer, Runs, TimerIn, TimerLevels
  <2>8. /\ k.outcome = "body" => k.answer.status = "ok" /\ k.answer.body # "errcode"
        /\ k.pc = (IF "inner" = "inner" THEN "answered" ELSE "done")
        /\ "inner" = "outer" => timedCall[c].pc = "answered" /\ timedCall[c].outcome = k.outcome
        /\ "inner" = "inner" => timedCall[c].pc = "request"
        /\ "inner" \in TimerLevels
    BY <1>1, <2>1, <2>3, <2>5 DEF TimerLevels
  <2> QED BY <2>5, <2>6, <2>7, <2>8, FunctionEnds
<1>3. CASE Requests!Finish(c)
  <2>1. r.pc = "answered"
    BY <1>1, <1>3 DEF Requests!Finish
  <2>2. PICK m \in Objects : m = r.client
    BY <1>1, <2>1 DEF RequestInv, TimersHold, Runs, TimerLevels
  <2>3. PICK k : k = [r EXCEPT !.pc = "done"]
    OBVIOUS
  <2>4. /\ k \in TimedCalls /\ k.pc = "done" /\ k.client = m /\ k.outcome = r.outcome
        /\ k.answer = r.answer
    BY <2>2, <2>3 DEF TimedCalls
  <2>5. /\ Requests!EndTimer(m, r.outer) /\ Requests!Told(k.outcome)
        /\ timedCall' = [timedCall EXCEPT ![c] = k] /\ uid' = uid /\ time' = time
    <3>1. timedCall' = [timedCall EXCEPT ![c].pc = "done"]
      BY <1>3 DEF Requests!Finish
    <3>2. timedCall' = [timedCall EXCEPT ![c] = k]
      BY <1>1, <2>3, <3>1 DEF RequestInv
    <3> QED BY <1>1, <1>3, <2>2, <2>4, <3>2 DEF Requests!Finish
  <2>6. EndsTimer(c, m, "outer", k)
    BY <1>1, <2>1, <2>2, <2>4, <2>5 DEF EndsTimer, Runs, TimerIn, TimerLevels
  <2>7. /\ k.outcome = "body" => k.answer.status = "ok" /\ k.answer.body # "errcode"
        /\ k.pc = (IF "outer" = "inner" THEN "answered" ELSE "done")
        /\ "outer" = "outer" => timedCall[c].pc = "answered" /\ timedCall[c].outcome = k.outcome
        /\ "outer" = "inner" => timedCall[c].pc = "request"
        /\ "outer" \in TimerLevels
    BY <1>1, <2>1, <2>4 DEF TimerLevels, RequestInv, Requests!NoErrorResolves
  <2> QED BY <2>4, <2>5, <2>6, <2>7, FunctionEnds
<1> QED BY <1>2, <1>3

LEMMA RequestsStay ==
    ASSUME RequestInv, time' \in Nat,
           UNCHANGED <<uid, requestStartTimes, timedCall, heard, mistimed>>
    PROVE  RequestInv'
<1>1. TimersHold'
  BY DEF RequestInv, TimersHold
<1>2. CountsHold'
  <2>1. RunningNow' = RunningNow /\ InnerGave' = InnerGave /\ OuterGave' = OuterGave
    BY DEF RunningNow, InnerGave, OuterGave
  <2> QED BY <2>1 DEF RequestInv, CountsHold
<1>3. Requests!NoErrorResolves'
  BY DEF RequestInv, Requests!NoErrorResolves
<1> QED BY <1>1, <1>2, <1>3 DEF RequestInv

LEMMA RequestsKeep ==
    ASSUME RequestInv, Requests!Next \/ UNCHANGED requestsVars
    PROVE  RequestInv'
<1>1. CASE Requests!Next
  <2>1. CASE Requests!Tick
    <3>1. /\ time \in Nat /\ time' = time + 1
          /\ UNCHANGED <<uid, requestStartTimes, timedCall, heard, mistimed>>
      BY <2>1 DEF Requests!Tick, RequestInv
    <3>2. time' \in Nat
      BY <3>1
    <3> QED BY <3>1, <3>2, RequestsStay
  <2> QED BY <1>1, <2>1, CallStarts, CallEnds DEF Requests!Next
<1>2. CASE UNCHANGED requestsVars
  BY <1>2, RequestsStay DEF requestsVars, RequestInv
<1> QED BY <1>1, <1>2

LEMMA CallsAreCounted == RequestInv => Requests!CallsAreTold
<1> SUFFICES ASSUME RequestInv PROVE Requests!CallsAreTold
  OBVIOUS
<1> DEFINE outer == {c \in Calls : timedCall[c].pc \in {"started", "request", "answered"}}
           inner == {c \in Calls : timedCall[c].pc = "request"}
           pairs == (outer \X {"outer"}) \cup (inner \X {"inner"})
           timed == UNION {{<<t.call, t.level>> : t \in requestStartTimes[m]} : m \in Objects}
<1>1. pairs = RunningNow
  <2>1. ASSUME NEW p PROVE p \in pairs <=> p \in RunningNow
    BY DEF RunningNow, Runs, TimerLevels
  <2> QED BY <2>1
<1>2. timed = RunningNow
  <2>1. ASSUME NEW p \in timed PROVE p \in RunningNow
    <3>1. PICK m \in Objects : p \in {<<t.call, t.level>> : t \in requestStartTimes[m]}
      BY <2>1
    <3>2. PICK t \in requestStartTimes[m] : p = <<t.call, t.level>>
      BY <3>1
    <3>3. t \in Timers /\ Runs(timedCall[t.call], t.level)
      BY <3>2 DEF RequestInv, TimersHold
    <3> QED BY <3>2, <3>3 DEF RunningNow, Timers
  <2>2. ASSUME NEW p \in RunningNow PROVE p \in timed
    <3>1. PICK c \in Calls, level \in TimerLevels : p = <<c, level>> /\ Runs(timedCall[c], level)
      BY <2>2 DEF RunningNow
    <3>2. PICK m \in Objects : m = timedCall[c].client
      BY <3>1 DEF RequestInv, TimersHold
    <3>3. PICK t \in requestStartTimes[m] : t.call = c /\ t.level = level
      BY <3>1, <3>2 DEF RequestInv, TimersHold
    <3>4. p \in {<<u.call, u.level>> : u \in requestStartTimes[m]}
      BY <3>1, <3>3
    <3> QED BY <3>4
  <2> HIDE DEF timed
  <2> QED BY <2>1, <2>2
<1>3. /\ heard.start - heard.end = Cardinality(RunningNow)
      /\ heard.success = Cardinality(OuterGave) + Cardinality(InnerGave)
      /\ heard.success + heard.failure = heard.end /\ mistimed = FALSE
  <2>1. PICK n \in Nat : n = Cardinality(RunningNow)
    BY FS_CardinalityType DEF RequestInv, CountsHold
  <2>2. heard.start \in Nat /\ heard.end \in Nat /\ heard.start = heard.end + n
    BY <2>1 DEF RequestInv, CountsHold, Heard
  <2>3. heard.start - heard.end = n
    BY <2>2
  <2> QED BY <2>1, <2>3 DEF RequestInv, CountsHold
<1>4. Requests!CallsAreMeasured
  <2>1. /\ heard.start - heard.end = Cardinality(pairs) /\ timed = pairs
        /\ heard.success = Cardinality({c \in Calls : timedCall[c].pc = "done" /\ timedCall[c].outcome = "body"})
               + Cardinality({c \in Calls : timedCall[c].pc \in {"answered", "done"} /\ timedCall[c].outcome = "body"})
    BY <1>1, <1>2, <1>3 DEF OuterGave, InnerGave
  <2> QED BY <1>3, <2>1 DEF Requests!CallsAreMeasured, Requests!Cardinality, Cardinality
<1> QED BY <1>4 DEF Requests!CallsAreTold, RequestInv

\* A caller gets a body only of an answer that is no error, and every function is
\* timed and counted once, as it went, whatever overlaps; and what an identity
\* server is told, and tells, is in order, of one moment and in clear only if
\* allowed, whatever changes between two requests (doHttpRequest in src/src/http.ts,
\* src/src/metrics and src/src/identity/IdentityClient.ts).
THEOREM CallsAreHeld == PartsSpec => []CallsHold
<1> DEFINE Inv == /\ part = "requests" => RequestInv
                  /\ part = "server" => ServerInv
<1>1. PartsInit => Inv
  <2>1. PartsInit => Requests!Init /\ (part = "server" => Server!Init)
    BY DEF PartsInit, ServerInit
  <2> QED BY <2>1, RequestsStart, ServerStarts
<1>2. Inv /\ [PartsNext]_partsVars => Inv'
  BY PartSteps, RequestsKeep, ServerKeeps
<1>3. Inv => CallsHold
  BY CallsAreCounted, IdentityServerHolds DEF CallsHold
<1> QED BY <1>1, <1>2, <1>3, PTL DEF PartsSpec

-----------------------------------------------------------------------------
(* What is kept by a storage provider                                       *)

\* The forms of cells, each with its names. No two names are the same.
LEMMA CellForms ==
    ASSUME kind \in Storages!Kinds, NEW c \in Storages!Cells
    PROVE  \/ \E s \in Storages!Scopes, w \in {"token", "filter"} :
                  /\ c = <<s, w>>
                  /\ Storages!Name(c) = IF Storages!Namespaced(c) THEN <<"kv", s, "_int_", w>> ELSE c
           \/ \E s \in Storages!Scopes, k \in Keys :
                  /\ c = <<s, "kv", k>>
                  /\ Storages!Name(c) = IF Storages!Namespaced(c) THEN <<"kv", s, "_kv_", k>>
                                        ELSE IF s = Me THEN <<"kv", k>> ELSE c
           \/ \E tag \in {"registered", "completed", "room"} : \E x :
                  c = <<tag, x>> /\ Storages!Name(c) = c
           \/ c = <<"deviceId">> /\ Storages!Name(c) = c
<1> USE DEF Storages!Scopes
<1>1. CASE c \in Storages!Meta(Storages!Scopes)
  <2>1. PICK s \in Storages!Scopes, w \in {"token", "filter"} : c = <<s, w>>
    BY <1>1 DEF Storages!Meta
  <2>2. /\ c[1] = s /\ c[2] = w /\ Len(c) = 2 /\ c[Len(c)] = w
        /\ c \notin Storages!Kv({Me}) /\ w # "kv"
    BY <2>1 DEF Storages!Kv
  <2>3. Storages!Name(c) = IF Storages!Namespaced(c) THEN <<"kv", s, "_int_", w>> ELSE c
    BY <2>2 DEF Storages!Name
  <2> QED BY <2>1, <2>3
<1>2. CASE c \in Storages!Kv(Storages!Scopes)
  <2>1. PICK s \in Storages!Scopes, k \in Keys : c = <<s, "kv", k>>
    BY <1>2 DEF Storages!Kv
  <2>2. /\ c[1] = s /\ c[2] = "kv" /\ c[3] = k /\ Len(c) = 3 /\ c[Len(c)] = k
        /\ c \in Storages!Kv({Me}) <=> s = Me
    BY <2>1 DEF Storages!Kv
  <2>3. Storages!Name(c) = IF Storages!Namespaced(c) THEN <<"kv", s, "_kv_", k>>
                           ELSE IF s = Me THEN <<"kv", k>> ELSE c
    BY <2>2 DEF Storages!Name
  <2> QED BY <2>1, <2>3
<1>3. CASE \/ c \in {"registered"} \X Objects \/ c \in {"completed"} \X Calls
           \/ c \in {"room"} \X StoredRooms
  <2>1. PICK tag \in {"registered", "completed", "room"} : \E x : c = <<tag, x>>
    BY <1>3
  <2>2. c[1] = tag /\ c[1] \notin Objects /\ c \notin Storages!Kv({Me})
    BY <2>1, ClientAssumption DEF Storages!Kv
  <2>3. Storages!Name(c) = c
    BY <2>2 DEF Storages!Name, Storages!Namespaced
  <2> QED BY <2>1, <2>3
<1>4. CASE c = <<"deviceId">>
  <2>1. c[1] = "deviceId" /\ c[1] \notin Objects /\ c \notin Storages!Kv({Me})
    BY <1>4, ClientAssumption DEF Storages!Kv
  <2>2. Storages!Name(c) = c
    BY <2>1 DEF Storages!Name, Storages!Namespaced
  <2> QED BY <1>4, <2>2
<1> QED BY <1>1, <1>2, <1>3, <1>4 DEF Storages!Cells, Storages!CryptoCells, Storages!PlainCells

LEMMA NamesDiffer ==
    ASSUME kind \in Storages!Kinds, NEW c \in Storages!Cells, NEW d \in Storages!Cells,
           Storages!Name(c) = Storages!Name(d)
    PROVE  c = d
<1> DEFINE Scope == {Me} \cup Objects
<1>0. Storages!Scopes = Scope
  BY DEF Storages!Scopes
<1>1. \A s \in Scope : s \notin {"kv", "registered", "completed", "room", "deviceId"}
  BY ClientAssumption
<1>2. \A x, y, z, u, v, w :
          /\ <<"kv", x, "_int_", y>> # <<"kv", u, "_kv_", v>> /\ <<"kv", x, z, y>> # <<u, v>>
          /\ <<"kv", x, z, y>> # <<u, v, w>> /\ <<"kv", x, z, y>> # <<u>>
          /\ <<x, y, z>> # <<u, v>> /\ <<x, y, z>> # <<u>> /\ <<x, y>> # <<u>>
          /\ <<"kv", x, z, y>> = <<"kv", u, w, v>> => x = u /\ y = v
          /\ <<x, y>> = <<u, v>> => x = u /\ y = v
          /\ <<x, y, z>> = <<u, v, w>> => x = u /\ y = v /\ z = w
  OBVIOUS
<1> HIDE DEF Scope
<1> QED BY <1>0, <1>1, <1>2, CellForms, SMTT(60)

\* What is decoded is what was encoded.
LEMMA FormsAgree ==
    ASSUME kind \in Storages!Kinds, NEW c \in Storages!Offered, NEW v \in Storages!Given(c)
    PROVE  /\ Storages!Decode(c, Storages!Encode(c, v)) = v
           /\ c \in Storages!Cells /\ v \in Values \cup {Nothing, TRUE}
           /\ Storages!InMemory(c) => v = TRUE
<1>1. c \in Storages!Cells
  BY DEF Storages!Offered, Storages!Cells
<1>2. v \in Values \cup {Nothing, TRUE}
  BY DEF Storages!Given
<1>3. /\ Blank \notin Values \cup {Nothing, TRUE}
      /\ \A u \in Values \cup {Nothing} : Nothing # [json |-> u]
  BY ClientAssumption
<1>4. c \in Storages!Scopes \X {"filter"} => v \in Values \cup {Nothing}
  BY DEF Storages!Given, Storages!Meta
<1>5. ASSUME Storages!IsJson(c), v # Nothing \/ Storages!Namespaced(c)
      PROVE  Storages!Decode(c, Storages!Encode(c, v)) = v
  <2>1. Storages!Encode(c, v) = [json |-> v] /\ v \in Values \cup {Nothing}
    BY <1>4, <1>5 DEF Storages!Encode, Storages!Json, Storages!IsJson
  <2>2. Nothing # [json |-> v] /\ [json |-> v].json = v
    BY <1>3, <2>1
  <2> QED BY <1>5, <2>1, <2>2 DEF Storages!Decode
<1>6. ASSUME ~(Storages!IsJson(c) /\ (v # Nothing \/ Storages!Namespaced(c)))
      PROVE  Storages!Decode(c, Storages!Encode(c, v)) = v
  <2>1. CASE kind.provider = "postgres" /\ Storages!Namespaced(c) /\ v = Nothing
    <3>1. Storages!Encode(c, v) = Blank /\ ~Storages!IsJson(c)
      BY <1>6, <2>1 DEF Storages!Encode
    <3> QED BY <2>1, <3>1 DEF Storages!Decode
  <2>2. CASE ~(kind.provider = "postgres" /\ Storages!Namespaced(c) /\ v = Nothing)
    <3>1. Storages!Encode(c, v) = v
      BY <1>6, <2>2 DEF Storages!Encode
    <3> QED BY <1>2, <1>3, <1>6, <3>1 DEF Storages!Decode
  <2> QED BY <2>1, <2>2
<1>7. Storages!InMemory(c) => v = TRUE
  <2> SUFFICES ASSUME Storages!InMemory(c) PROVE v = TRUE
    OBVIOUS
  <2>1. c[1] = "completed" /\ c[1] \notin {Me} \cup Objects
    BY ClientAssumption DEF Storages!InMemory
  <2>2. c \notin Storages!Meta(Storages!Scopes) /\ c \notin Storages!Kv(Storages!Scopes)
    BY <2>1 DEF Storages!Meta, Storages!Kv, Storages!Scopes
  <2>3. c \notin Storages!CryptoCells
    BY <2>1 DEF Storages!CryptoCells
  <2> QED BY <2>2, <2>3 DEF Storages!Given
<1> QED BY <1>1, <1>2, <1>5, <1>6, <1>7

\* A cell is written, and the others are as they were.
LEMMA CellWritten ==
    ASSUME kind \in Storages!Kinds, NEW c \in Storages!Offered, NEW v \in Storages!Given(c),
           NEW rows, ~Storages!InMemory(c)
    PROVE  LET to == Storages!Set(rows, Storages!Name(c), Storages!Encode(c, v))
           IN  /\ Storages!Get(c, to) = v
               /\ \A d \in Storages!Cells \ {c} : Storages!Get(d, to) = Storages!Get(d, rows)
<1> PICK to : to = Storages!Set(rows, Storages!Name(c), Storages!Encode(c, v))
  OBVIOUS
<1>1. /\ DOMAIN to = DOMAIN rows \cup {Storages!Name(c)}
      /\ to[Storages!Name(c)] = Storages!Encode(c, v)
      /\ \A x \in DOMAIN rows : x # Storages!Name(c) => to[x] = rows[x]
  BY DEF Storages!Set
<1>2. Storages!Get(c, to) = v
  BY <1>1, FormsAgree DEF Storages!Get
<1>3. ASSUME NEW d \in Storages!Cells \ {c}
      PROVE  Storages!Get(d, to) = Storages!Get(d, rows)
  <2>1. Storages!Name(d) # Storages!Name(c)
    BY NamesDiffer, FormsAgree
  <2> QED BY <1>1, <2>1 DEF Storages!Get
<1> QED BY <1>2, <1>3

StoreInv ==
    /\ kind \in Storages!Kinds
    /\ completedTransactions \in Seq(Calls) /\ Len(completedTransactions) <= MaxInMemory
    /\ kind.provider = "memory" => file = Storages!Empty
    /\ \A q \in inserts :
           /\ kind.provider = "postgres"
           /\ q.cell \in Storages!Offered /\ q.value \in Storages!Given(q.cell)

\* A transaction is recorded in memory; others may be forgotten.
LEMMA TransactionPushed ==
    ASSUME StoreInv, NEW t \in Calls, Storages!Push(t)
    PROVE  /\ completedTransactions' \in Seq(Calls) /\ Len(completedTransactions') <= MaxInMemory
           /\ Storages!Completed(t)'
           /\ \A u : Storages!Completed(u)' => Storages!Completed(u) \/ u = t
<1>1. PICK all : all = IF Storages!Completed(t) THEN completedTransactions
                       ELSE Append(completedTransactions, t)
  OBVIOUS
<1>2. completedTransactions' = IF Len(all) > MaxInMemory THEN Tail(all) ELSE all
  BY <1>1 DEF Storages!Push
<1>3. completedTransactions \in Seq(Calls) /\ MaxInMemory \in Nat \ {0}
      /\ Len(completedTransactions) <= MaxInMemory
  BY ClientAssumption DEF StoreInv
<1>4. CASE Storages!Completed(t)
  <2>1. completedTransactions' = completedTransactions
    <3>1. Len(completedTransactions) \in Nat
      BY <1>3
    <3> QED BY <1>1, <1>2, <1>3, <1>4, <3>1
  <2> QED BY <1>3, <1>4, <2>1 DEF Storages!Completed
<1>5. CASE ~Storages!Completed(t)
  <2>1. /\ all \in Seq(Calls) /\ Len(all) = Len(completedTransactions) + 1 /\ all[Len(all)] = t
        /\ \A n \in 1..Len(completedTransactions) : all[n] = completedTransactions[n]
    BY <1>1, <1>3, <1>5
  <2>2. \A n \in 1..Len(all) : all[n] = t \/ Storages!Completed(all[n])
    BY <2>1, <1>3 DEF Storages!Completed
  <2>3. CASE Len(all) > MaxInMemory
    <3>1. completedTransactions' = Tail(all) /\ Len(all) >= 2
      BY <1>2, <1>3, <2>3, <2>1
    <3>2. /\ Tail(all) \in Seq(Calls) /\ Len(Tail(all)) = Len(all) - 1
          /\ \A n \in 1..(Len(all) - 1) : Tail(all)[n] = all[n + 1]
      BY <2>1, <3>1
    <3>3. Tail(all)[Len(all) - 1] = t
      BY <2>1, <3>1, <3>2
    <3>4. \A n \in 1..(Len(all) - 1) : Tail(all)[n] = t \/ Storages!Completed(Tail(all)[n])
      BY <2>1, <2>2, <3>2
    <3>5. PICK rest, n : rest = Tail(all) /\ n = Len(all) - 1
      OBVIOUS
    <3>6. /\ completedTransactions' = rest /\ rest \in Seq(Calls) /\ DOMAIN rest = 1..n
          /\ Len(rest) = n /\ n \in DOMAIN rest /\ n <= MaxInMemory
      BY <1>3, <2>1, <3>1, <3>2, <3>5
    <3>7. Storages!Completed(t)'
      BY <3>3, <3>5, <3>6 DEF Storages!Completed
    <3>8. \A u : Storages!Completed(u)' => Storages!Completed(u) \/ u = t
      <4>1. \A i \in 1..n : rest[i] = t \/ Storages!Completed(rest[i])
        BY <3>4, <3>5
      <4> QED BY <3>6, <4>1 DEF Storages!Completed
    <3> QED BY <3>6, <3>7, <3>8
  <2>4. CASE ~(Len(all) > MaxInMemory)
    BY <1>2, <1>3, <2>1, <2>2, <2>4 DEF Storages!Completed
  <2> QED BY <2>3, <2>4
<1> QED BY <1>4, <1>5

LEMMA StorageSteps ==
    ASSUME [PartsNext]_partsVars
    PROVE  Storages!Next \/ UNCHANGED storagesVars
<1>1. CASE UNCHANGED partsVars
  BY <1>1 DEF partsVars, oneHalf
<1>2. CASE PartsNext
  BY <1>2 DEF PartsNext, oneHalf
<1> QED BY <1>1, <1>2

\* What is read of one cell, now and after a restart, before and after a step.
Read(d, rows)        == IF Storages!InMemory(d) THEN (IF Storages!Completed(d[2]) THEN TRUE ELSE Nothing)
                        ELSE Storages!Get(d, rows)
ReadLater(d, rows, saved) ==
    IF Storages!InMemory(d) \/ kind.provider = "memory" THEN Nothing
    ELSE Storages!Get(d, IF kind.provider = "postgres" THEN rows ELSE saved)

LEMMA WhatIsRead ==
    ASSUME NEW d \in Storages!Cells
    PROVE  Storages!Now[d] = Read(d, row) /\ Storages!Later[d] = ReadLater(d, row, file)
BY DEF Storages!Now, Storages!Later, Read, ReadLater, Storages!Get

LEMMA WhatWillBeRead ==
    ASSUME NEW d \in Storages!Cells, kind' = kind, NEW rows, rows = row', NEW saved, saved = file'
    PROVE  /\ Storages!Now'[d] = IF Storages!InMemory(d)
                                 THEN (IF Storages!Completed(d[2])' THEN TRUE ELSE Nothing)
                                 ELSE Storages!Get(d, rows)
           /\ Storages!Later'[d] = ReadLater(d, rows, saved)
           /\ completedTransactions' = completedTransactions => Storages!Now'[d] = Read(d, rows)
BY DEF Storages!Now, Storages!Later, Storages!Get, Storages!InMemory, Storages!Name, Storages!Decode,
       Storages!IsJson, Storages!Namespaced, Storages!Completed, Read, ReadLater

\* A cell is written to the rows, of which the file may or may not be told.
LEMMA RowWritten ==
    ASSUME StoreInv, NEW c \in Storages!Offered, NEW v \in Storages!Given(c),
           ~Storages!InMemory(c),
           row' = Storages!Set(row, Storages!Name(c), Storages!Encode(c, v)),
           file' = file \/ (file' = row' /\ kind.provider # "memory"),
           UNCHANGED <<kind, completedTransactions>>
    PROVE  Storages!Store!Write(c, v)
<1> PICK rows, r, f : rows = row /\ r = row' /\ f = file'
  OBVIOUS
<1>1. /\ Storages!Get(c, r) = v /\ c \in Storages!Cells
      /\ \A d \in Storages!Cells \ {c} : Storages!Get(d, r) = Storages!Get(d, row)
  <2>1. kind \in Storages!Kinds
    BY DEF StoreInv
  <2>2. r = Storages!Set(rows, Storages!Name(c), Storages!Encode(c, v))
    OBVIOUS
  <2>3. /\ Storages!Get(c, r) = v
        /\ \A d \in Storages!Cells \ {c} : Storages!Get(d, r) = Storages!Get(d, rows)
    BY <2>1, <2>2, CellWritten
  <2> QED BY <2>1, <2>3, FormsAgree
<1>2. \A d \in Storages!Cells :
          /\ Storages!Now[d] = Read(d, row) /\ Storages!Later[d] = ReadLater(d, row, file)
          /\ Storages!Now'[d] = Read(d, r) /\ Storages!Later'[d] = ReadLater(d, r, f)
  BY WhatIsRead, WhatWillBeRead
<1>3. Storages!Now'[c] = v
  BY <1>1, <1>2 DEF Read
<1>4. ASSUME NEW d \in Storages!Cells \ {c} PROVE Storages!Now'[d] = Storages!Now[d]
  <2>1. Storages!Now[d] = Read(d, row) /\ Storages!Now'[d] = Read(d, r)
    BY <1>2
  <2>2. Storages!Get(d, r) = Storages!Get(d, row)
    BY <1>1
  <2> QED BY <2>1, <2>2 DEF Read
<1>5. ASSUME NEW d \in Storages!Cells
      PROVE  Storages!Later'[d] \in {Storages!Later[d], Storages!Now'[d]}
  <2>1. CASE Storages!InMemory(d) \/ kind.provider = "memory"
    BY <1>2, <2>1 DEF ReadLater
  <2>2. CASE ~(Storages!InMemory(d) \/ kind.provider = "memory")
    BY <1>2, <2>2 DEF Read, ReadLater
  <2> QED BY <2>1, <2>2
<1> QED BY <1>3, <1>4, <1>5 DEF Storages!Store!Write

LEMMA CompletedCell ==
    ASSUME NEW c \in Storages!Offered, Storages!InMemory(c)
    PROVE  c[2] \in Calls
BY ClientAssumption DEF Storages!InMemory, Storages!Offered, Storages!CryptoCells, Storages!PlainCells,
   Storages!Meta, Storages!Kv, Storages!Scopes

\* What is read stays as it is.
LEMMA NothingRead ==
    ASSUME UNCHANGED <<kind, row, file, completedTransactions>>
    PROVE  UNCHANGED <<Storages!Now, Storages!Later>>
BY DEF Storages!Now, Storages!Later, Storages!Get, Storages!InMemory, Storages!Name, Storages!Decode,
   Storages!IsJson, Storages!Namespaced, Storages!Completed

\* A transaction is recorded in memory.
LEMMA TransactionRecorded ==
    ASSUME StoreInv, NEW c \in Storages!Offered, NEW v \in Storages!Given(c),
           Storages!InMemory(c), Storages!Push(c[2]), UNCHANGED <<kind, row, file>>
    PROVE  Storages!Store!Write(c, v)
<1>1. v = TRUE /\ c \in Storages!Cells
  BY FormsAgree DEF StoreInv
<1>2. c[2] \in Calls
  BY CompletedCell
<1>3. /\ Storages!Completed(c[2])'
      /\ \A u : Storages!Completed(u)' => Storages!Completed(u) \/ u = c[2]
  BY <1>2, TransactionPushed
<1>4. \A d \in Storages!Cells :
          /\ Storages!Now[d] = Read(d, row) /\ Storages!Later[d] = ReadLater(d, row, file)
          /\ Storages!Now'[d] = IF Storages!InMemory(d)
                                THEN (IF Storages!Completed(d[2])' THEN TRUE ELSE Nothing)
                                ELSE Storages!Get(d, row)
          /\ Storages!Later'[d] = ReadLater(d, row, file)
  BY WhatIsRead, WhatWillBeRead
<1>5. Storages!Now'[c] = v
  BY <1>1, <1>3, <1>4
<1>6. \A d \in Storages!Cells : Storages!Later'[d] = Storages!Later[d]
  BY <1>4
<1>7. ASSUME NEW d \in Storages!Cells \ {c}
      PROVE  \/ Storages!Now'[d] = Storages!Now[d]
             \/ Storages!Now'[d] = Nothing /\ Storages!Later[d] = Nothing
  <2>1. CASE ~Storages!InMemory(d)
    BY <1>4, <2>1 DEF Read
  <2>2. CASE Storages!InMemory(d)
    <3>1. d[2] # c[2]
      BY <2>2, ClientAssumption DEF Storages!InMemory, Storages!Offered, Storages!Cells,
         Storages!CryptoCells, Storages!PlainCells, Storages!Meta, Storages!Kv, Storages!Scopes
    <3>2. Storages!Later[d] = Nothing
      BY <1>4, <2>2 DEF ReadLater
    <3>3. Storages!Completed(d[2])' => Storages!Completed(d[2])
      BY <1>3, <3>1
    <3>4. /\ Storages!Now[d] = IF Storages!Completed(d[2]) THEN TRUE ELSE Nothing
          /\ Storages!Now'[d] = IF Storages!Completed(d[2])' THEN TRUE ELSE Nothing
      BY <1>4, <2>2 DEF Read
    <3>5. CASE Storages!Completed(d[2])'
      BY <3>3, <3>4, <3>5
    <3>6. CASE ~Storages!Completed(d[2])'
      BY <3>2, <3>4, <3>6
    <3> QED BY <3>5, <3>6
  <2> QED BY <2>1, <2>2
<1> QED BY <1>5, <1>6, <1>7 DEF Storages!Store!Write

\* A provider starts again.
LEMMA StoreRestarts ==
    ASSUME StoreInv, Storages!Restart
    PROVE  Storages!Store!Restart
<1> PICK r, f : r = row' /\ f = file'
  OBVIOUS
<1>1. /\ kind' = kind /\ f = file /\ completedTransactions' = <<>>
      /\ r = IF kind.provider = "postgres" THEN row ELSE file
  BY DEF Storages!Restart
<1>2. \A u : ~Storages!Completed(u)'
  BY <1>1 DEF Storages!Completed
<1>3. ASSUME NEW d \in Storages!Cells, kind.provider = "memory"
      PROVE  Storages!Get(d, file) = Nothing \/ Storages!InMemory(d)
  BY <1>3 DEF StoreInv, Storages!Get, Storages!Empty
<1>4. ASSUME NEW d \in Storages!Cells
      PROVE  Storages!Now'[d] = Storages!Later[d] /\ Storages!Later'[d] = Storages!Later[d]
  <2>1. /\ Storages!Later[d] = ReadLater(d, row, file)
        /\ Storages!Now'[d] = IF Storages!InMemory(d)
                              THEN (IF Storages!Completed(d[2])' THEN TRUE ELSE Nothing)
                              ELSE Storages!Get(d, r)
        /\ Storages!Later'[d] = ReadLater(d, r, f)
    BY <1>1, WhatIsRead, WhatWillBeRead
  <2>2. Storages!InMemory(d) => Storages!Now'[d] = Nothing
    BY <1>2, <2>1
  <2>3. Storages!Later'[d] = Storages!Later[d]
    BY <1>1, <2>1 DEF ReadLater
  <2>4. Storages!Now'[d] = Storages!Later[d]
    BY <1>1, <1>3, <2>1, <2>2 DEF ReadLater
  <2> QED BY <2>3, <2>4
<1>5. /\ Storages!Now = [d \in Storages!Cells |-> Storages!Now[d]]
      /\ Storages!Later = [d \in Storages!Cells |-> Storages!Later[d]]
      /\ Storages!Now' = [d \in Storages!Cells |-> Storages!Now'[d]]
      /\ Storages!Later' = [d \in Storages!Cells |-> Storages!Later'[d]]
  BY DEF Storages!Now, Storages!Later, Storages!Cells, Storages!CryptoCells, Storages!PlainCells,
     Storages!Meta, Storages!Kv, Storages!Scopes
<1> QED BY <1>4, <1>5 DEF Storages!Store!Restart

StoreStep == [Storages!Store!Next]_<<Storages!Now, Storages!Later>>

\* A setter of a synchronous provider.
LEMMA PutIsWrite ==
    ASSUME StoreInv, NEW c \in Storages!Offered, NEW v \in Storages!Given(c), Storages!Put(c, v)
    PROVE  Storages!Store!Write(c, v) /\ StoreInv'
<1>1. /\ kind' = kind /\ kind.provider # "postgres" /\ inserts' = inserts
      /\ IF kind.provider = "fs" /\ Storages!InMemory(c)
         THEN Storages!Push(c[2]) /\ UNCHANGED <<row, file>>
         ELSE /\ row' = Storages!Set(row, Storages!Name(c), Storages!Encode(c, v))
              /\ file' = file \/ (file' = row' /\ kind.provider # "memory")
              /\ UNCHANGED completedTransactions
  BY DEF Storages!Put, Storages!IsFile
<1>2. inserts = {}
  BY <1>1 DEF StoreInv
<1>3. CASE kind.provider = "fs" /\ Storages!InMemory(c)
  <2>1. Storages!Push(c[2]) /\ UNCHANGED <<kind, row, file>> /\ c[2] \in Calls
    BY <1>1, <1>3, CompletedCell
  <2>2. Storages!Store!Write(c, v)
    BY <1>3, <2>1, TransactionRecorded
  <2> QED BY <1>1, <1>2, <2>1, <2>2, TransactionPushed DEF StoreInv
<1>4. CASE ~(kind.provider = "fs" /\ Storages!InMemory(c))
  <2>1. ~Storages!InMemory(c)
    BY <1>1, <1>4 DEF StoreInv, Storages!InMemory, Storages!Kinds
  <2>2. Storages!Store!Write(c, v)
    BY <1>1, <1>4, <2>1, RowWritten
  <2> QED BY <1>1, <1>2, <1>4, <2>2 DEF StoreInv
<1> QED BY <1>3, <1>4

\* The call of a setter of the other provider gets to the database, or rejects.
LEMMA QueryIsWrite ==
    ASSUME StoreInv, NEW q \in inserts, Storages!Upsert(q) \/ Storages!Rejects(q)
    PROVE  StoreStep /\ StoreInv'
<1>0. PICK c \in Storages!Offered : c = q.cell /\ q.value \in Storages!Given(c)
  BY DEF StoreInv
<1>1. PICK v \in Storages!Given(c) : v = q.value
  BY <1>0
<1>2. /\ kind' = kind /\ kind.provider = "postgres" /\ file' = file
      /\ inserts' = inserts \ {q}
  BY DEF StoreInv, Storages!Upsert, Storages!Rejects
<1>3. c \in Storages!Cells /\ v \in Values \cup {Nothing, TRUE}
  BY FormsAgree DEF StoreInv
<1>4. \A r \in inserts' :
          /\ kind'.provider = "postgres"
          /\ r.cell \in Storages!Offered' /\ r.value \in Storages!Given(r.cell)'
  BY <1>2 DEF StoreInv, Storages!Offered, Storages!Given
<1>5. CASE Storages!InMemory(c) /\ Storages!Push(c[2]) /\ row' = row
  <2>1. c[2] \in Calls
    BY <1>5, CompletedCell
  <2>2. Storages!Store!Write(c, v)
    BY <1>2, <1>5, TransactionRecorded
  <2> QED BY <1>2, <1>3, <1>4, <1>5, <2>1, <2>2, TransactionPushed
          DEF StoreInv, StoreStep, Storages!Store!Next
<1>6. CASE /\ ~Storages!InMemory(c) /\ completedTransactions' = completedTransactions
           /\ row' = Storages!Set(row, Storages!Name(c), Storages!Encode(c, v))
  <2>1. Storages!Store!Write(c, v)
    BY <1>2, <1>6, RowWritten
  <2> QED BY <1>2, <1>3, <1>4, <1>6, <2>1 DEF StoreInv, StoreStep, Storages!Store!Next
<1>7. CASE UNCHANGED <<row, completedTransactions>>
  <2>1. UNCHANGED <<Storages!Now, Storages!Later>>
    BY <1>2, <1>7, NothingRead
  <2> QED BY <1>2, <1>4, <1>7, <2>1 DEF StoreInv, StoreStep
<1> QED BY <1>0, <1>1, <1>5, <1>6, <1>7 DEF Storages!Upsert, Storages!Rejects

LEMMA StoreStarts ==
    ASSUME Storages!Init PROVE StoreInv /\ Storages!Store!Init
<1>1. /\ kind \in Storages!Kinds /\ row = Storages!Empty /\ file = Storages!Empty
      /\ completedTransactions = <<>> /\ inserts = {}
  BY DEF Storages!Init
<1>2. StoreInv
  BY <1>1, ClientAssumption DEF StoreInv
<1>3. \A u : ~Storages!Completed(u)
  BY <1>1 DEF Storages!Completed
<1>4. ASSUME NEW d \in Storages!Cells
      PROVE  Storages!Get(d, row) = Nothing /\ Storages!Get(d, file) = Nothing
  BY <1>1, <1>3 DEF Storages!Get, Storages!Empty
<1>5. /\ Storages!Now = [d \in Storages!Cells |-> Nothing]
      /\ Storages!Later = [d \in Storages!Cells |-> Nothing]
  BY <1>4 DEF Storages!Now, Storages!Later
<1> QED BY <1>2, <1>5 DEF Storages!Store!Init

LEMMA StoreKeeps ==
    ASSUME StoreInv, Storages!Next \/ UNCHANGED storagesVars
    PROVE  StoreStep /\ StoreInv'
<1>1. ASSUME NEW c \in Storages!Offered, NEW v \in Storages!Given(c), Storages!Put(c, v)
      PROVE  StoreStep /\ StoreInv'
  <2>1. c \in Storages!Cells /\ v \in Values \cup {Nothing, TRUE}
    BY FormsAgree DEF StoreInv
  <2> QED BY <1>1, <2>1, PutIsWrite DEF StoreStep, Storages!Store!Next
<1>2. ASSUME NEW c \in Storages!Offered, NEW v \in Storages!Given(c), Storages!Query(c, v)
      PROVE  StoreStep /\ StoreInv'
  <2>1. /\ UNCHANGED <<kind, row, file, completedTransactions>> /\ kind.provider = "postgres"
        /\ inserts' = inserts \cup {[cell |-> c, value |-> v]}
    BY <1>2 DEF Storages!Query
  <2>2. StoreInv'
    <3>1. \A q \in inserts' : q.cell \in Storages!Offered /\ q.value \in Storages!Given(q.cell)
      <4> PICK q : q = [cell |-> c, value |-> v]
        OBVIOUS
      <4>1. q.cell = c /\ q.value = v
        OBVIOUS
      <4> QED BY <2>1, <4>1 DEF StoreInv
    <3>2. \A q \in inserts' : q.cell \in Storages!Offered' /\ q.value \in Storages!Given(q.cell)'
      BY <2>1, <3>1 DEF Storages!Offered, Storages!Given
    <3> QED BY <2>1, <3>2 DEF StoreInv
  <2> QED BY <2>1, <2>2, NothingRead DEF StoreStep
<1>3. CASE Storages!Tables \/ UNCHANGED storagesVars
  <2>1. UNCHANGED <<kind, row, file, completedTransactions, inserts>>
    BY <1>3 DEF Storages!Tables, storagesVars
  <2>2. StoreInv'
    BY <2>1 DEF StoreInv, Storages!Offered, Storages!Given
  <2> QED BY <2>1, <2>2, NothingRead DEF StoreStep
<1>4. CASE Storages!Restart
  <2>1. kind' = kind /\ file' = file /\ completedTransactions' = <<>> /\ inserts' = {}
    BY <1>4 DEF Storages!Restart
  <2>2. StoreInv'
    BY <2>1, ClientAssumption DEF StoreInv
  <2> QED BY <1>4, <2>2, StoreRestarts DEF StoreStep, Storages!Store!Next
<1> QED BY <1>1, <1>2, <1>3, <1>4, QueryIsWrite DEF Storages!Next

\* Every provider keeps the cells it is given, for the bot and for each user, by
\* names that do not coincide and in forms that are read back, and has them
\* again after a restart if they were persisted, whichever writes fail: each of
\* its steps is one of KeyValues, or changes nothing a reader sees (the
\* directory src/src/storage).
THEOREM StoreHolds == PartsSpec => StoreRefined
<1>1. PartsInit => StoreInv /\ Storages!Store!Init
  BY StoreStarts DEF PartsInit
<1>2. StoreInv /\ [PartsNext]_partsVars => StoreInv'
  BY StorageSteps, StoreKeeps
<1>3. StoreInv /\ [PartsNext]_partsVars => [Storages!Store!Next]_<<Storages!Now, Storages!Later>>
  BY StorageSteps, StoreKeeps DEF StoreStep
<1> QED BY <1>1, <1>2, <1>3, PTL
        DEF PartsSpec, StoreRefined, Storages!StoreRefined, Storages!Store!Spec

-----------------------------------------------------------------------------
(* What is told of an event                                                 *)

TypedNames == {"room.join", "room.leave", "room.invite", "room.message", "room.archived",
               "room.upgraded", "room.event"}
Emissions  == TypedNames \cup {"room.encrypted_event", "room.decrypted_event", "room.failed_decryption"}
Forms      == {"join", "leave", "invite", "message", "tombstone", "create", "other", "encrypted"}
Places     == {"begin", "announced", "look", "first", "second", "failed", "rest", "over", "thrown"}
NoticeTypes == {"message", "tombstone", "create"}

\* A setting, of a client or of an appservice.
Settled(s) ==
    /\ s \in Timeline!Settings /\ s.side \in {"client", "appservice"}
    /\ s.side = "client" => s.tried = Nothing
    /\ s.inner \in {"message", "other"}
    /\ s.crypto \in BOOLEAN /\ s.own \in BOOLEAN /\ s.listed \in BOOLEAN
    /\ Nothing \notin s.holders
Announced(s, f) == s.side = "client" /\ f = "join" /\ s.own /\ ~s.listed
Readable(s)     == Me \in s.holders \/ s.tried \in s.holders

Notice == [message |-> "room.message", tombstone |-> "room.archived", create |-> "room.upgraded"]

\* Counted: how often each name was told, in a place of the code, of an event in
\* form f that n preprocessings have seen; names are those it has for good.
Counted(s, p, f, n, m, c) ==
    /\ p \in Places /\ f \in Forms /\ n \in Nat /\ m \in {0, 1} /\ c \in [Emissions -> Nat]
    /\ c["room.decrypted_event"] > 0 => f = s.inner
    /\ c["room.failed_decryption"] > 0 /\ c["room.decrypted_event"] > 0 => m = 1
    /\ c["room.decrypted_event"] <= (IF s.side = "client" THEN 1 ELSE 2)
    /\ p \in {"begin", "announced", "look", "first"} => c["room.decrypted_event"] = 0
    /\ p = "second" => s.side # "client" /\ c["room.decrypted_event"] <= 1
    /\ p \in {"begin", "announced", "look", "first", "second", "failed"} =>
           /\ \A name \in TypedNames : c[name] = 0 \/ (name = "room.join" /\ s.side = "client")
           /\ c["room.failed_decryption"] = 0
           /\ c["room.decrypted_event"] > 0 => m = 1
    /\ p = "begin" => n = 0
    /\ p = "announced" => Announced(s, f) /\ n = 1
    /\ p \in {"begin", "announced", "look"} => c["room.encrypted_event"] = 0
    /\ p \in {"look", "first", "second", "failed"} => f # "join" /\ n = 1
    /\ p \in {"rest", "over"} => n = (IF Announced(s, f) THEN 2 ELSE 1)
    /\ m = 0 /\ p = "second" => Me \notin s.holders
    /\ m = 0 /\ p = "failed" => ~Readable(s)
    /\ m = 0 /\ p \in {"rest", "over"} /\ c["room.encrypted_event"] = 1 /\ s.crypto =>
           /\ c["room.decrypted_event"] = (IF Readable(s) THEN 1 ELSE 0)
           /\ c["room.failed_decryption"] = (IF Readable(s) THEN 0 ELSE 1)
    /\ p \in {"rest", "over"} => \A type \in NoticeTypes : f # type => c[Notice[type]] = 0

\* The names of the event are told in their order, the last one at the end.
InTurn(p, names, c) ==
    /\ p = "rest" => /\ \A i \in 1..Len(names) : c[names[i]] \in {0, 1}
                     /\ \A i, j \in 1..Len(names) : i < j /\ c[names[j]] = 1 => c[names[i]] = 1
                     /\ c[names[Len(names)]] = 0
    /\ p = "over" => \A i \in 1..Len(names) : c[names[i]] = 1

\* What Names may be.
NamesOf(s, f, names) ==
    /\ names \in Seq(TypedNames) /\ Len(names) >= 1
    /\ \A i, j \in 1..Len(names) : i # j => names[i] # names[j]
    /\ \E i \in 1..Len(names) : names[i] = "room.event"
    /\ \A type \in NoticeTypes : (\E i \in 1..Len(names) : names[i] = Notice[type]) <=> f = type
    /\ s.side = "client" => \A i \in 1..Len(names) : names[i] # "room.join"

Count(t, name) == Cardinality({i \in DOMAIN t : t[i].name = name})
Counts         == [name \in Emissions |-> Count(told, name)]

Telling == [name : Emissions, form : Forms]

\* Nothing but the clear event is told after it was decrypted.
InClear(t, f) ==
    /\ \A i, j \in DOMAIN t : i < j /\ t[i].name = "room.decrypted_event" => t[j].form = f
    /\ t \in Seq(Telling)

Thrown == IF mishap THEN 1 ELSE 0

TimelineInv ==
    /\ mishap \in BOOLEAN
    /\ Settled(setting)
    /\ Counted(setting, place, form, passes, Thrown, Counts)
    /\ InTurn(place, Timeline!Names, Counts)
    /\ InClear(told, setting.inner)
    /\ place = "over" => told # <<>> /\ told[Len(told)].form = form

LEMMA CountMore ==
    ASSUME NEW t \in Seq(Telling), NEW e \in Telling
    PROVE  /\ \A name : Count(t, name) \in Nat
           /\ \A name : Count(Append(t, e), name) = Count(t, name) + IF name = e.name THEN 1 ELSE 0
<1> SUFFICES ASSUME NEW name
             PROVE  /\ Count(t, name) \in Nat
                    /\ Count(Append(t, e), name) = Count(t, name) + IF name = e.name THEN 1 ELSE 0
  OBVIOUS
<1> PICK u : u = Append(t, e)
  OBVIOUS
<1> PICK A, B : A = {i \in DOMAIN t : t[i].name = name} /\ B = {i \in DOMAIN u : u[i].name = name}
  OBVIOUS
<1>1. /\ DOMAIN t = 1..Len(t) /\ Len(t) \in Nat /\ DOMAIN u = 1..(Len(t) + 1)
      /\ u[Len(t) + 1] = e /\ \A i \in 1..Len(t) : u[i] = t[i]
  OBVIOUS
<1>2. IsFiniteSet(1..Len(t))
  BY <1>1, FS_Interval
<1>3. IsFiniteSet(A) /\ Len(t) + 1 \notin A
  <2>1. A \subseteq 1..Len(t)
    BY <1>1
  <2> QED BY <1>1, <1>2, <2>1, FS_Subset
<1>4. B = IF name = e.name THEN A \cup {Len(t) + 1} ELSE A
  <2>1. \A i : i \in A <=> i \in 1..Len(t) /\ t[i].name = name
    BY <1>1
  <2>2. \A i : i \in B <=> i \in 1..(Len(t) + 1) /\ u[i].name = name
    BY <1>1
  <2>3. \A i : i \in 1..(Len(t) + 1) <=> i \in 1..Len(t) \/ i = Len(t) + 1
    BY <1>1
  <2> QED BY <1>1, <2>1, <2>2, <2>3
<1>5. PICK n \in Nat : n = Cardinality(A)
  BY <1>3, FS_CardinalityType
<1>6. /\ name = e.name => Cardinality(B) = n + 1
      /\ name # e.name => Cardinality(B) = n
  <2>1. Cardinality(A \cup {Len(t) + 1}) = n + 1
    BY <1>3, <1>5, FS_AddElement
  <2> QED BY <1>4, <1>5, <2>1
<1>7. Count(t, name) = n /\ Count(u, name) = Cardinality(B)
  BY <1>5 DEF Count
<1>8. CASE name = e.name
  BY <1>6, <1>7, <1>8
<1>9. CASE name # e.name
  <2>1. n + 0 = n
    BY <1>5
  <2> QED BY <1>5, <1>6, <1>7, <1>9, <2>1
<1> QED BY <1>8, <1>9

LEMMA CountNone == \A name : Count(<<>>, name) = 0
<1>1. \A name : {i \in DOMAIN <<>> : <<>>[i].name = name} = {}
  OBVIOUS
<1> QED BY <1>1, FS_EmptySet DEF Count

LEMMA CountsAre ==
    ASSUME told \in Seq(Telling)
    PROVE  /\ Counts \in [Emissions -> Nat]
           /\ \A name \in Emissions : Timeline!Told(name) = Counts[name]
<1>1. \A name : Count(told, name) \in Nat
  <2>1. PICK e \in Telling : TRUE
    <3>1. [name |-> "room.event", form |-> "other"] \in Telling
      BY DEF Telling, Emissions, TypedNames, Forms
    <3> QED BY <3>1
  <2> QED BY <2>1, CountMore
<1>2. \A name : Timeline!Told(name) = Count(told, name)
  BY DEF Timeline!Told, Timeline!Cardinality, Count, Cardinality
<1> QED BY <1>1, <1>2 DEF Counts

LEMMA NamesAre == Settled(setting) /\ form \in Forms => NamesOf(setting, form, Timeline!Names)
<1> SUFFICES ASSUME Settled(setting), form \in Forms
             PROVE  NamesOf(setting, form, Timeline!Names)
  OBVIOUS
<1> PICK names : names = Timeline!Names
  OBVIOUS
<1>1. /\ Timeline!Notices = Notice /\ DOMAIN Timeline!Notices = NoticeTypes
      /\ DOMAIN Timeline!Membership = {"join", "leave", "invite"}
      /\ \A f \in {"join", "leave", "invite"} :
             Timeline!Membership[f] \in {"room.join", "room.leave", "room.invite"}
      /\ \A f \in NoticeTypes : Notice[f] \in {"room.message", "room.archived", "room.upgraded"}
      /\ \A f, g \in NoticeTypes : Notice[f] = Notice[g] => f = g
  BY DEF Timeline!Notices, Timeline!Membership, Notice, NoticeTypes
<1>2. \A type \in NoticeTypes : Notice[type] # "room.event"
  BY <1>1
<1>3. form \in NoticeTypes => form \notin {"join", "leave", "invite"}
  BY DEF NoticeTypes
<1>4. PICK notice, membered :
          /\ notice = IF form \in NoticeTypes THEN <<Notice[form]>> ELSE <<>>
          /\ membered = IF form \in {"join", "leave", "invite"} /\ setting.own
                        THEN <<Timeline!Membership[form]>> ELSE <<>>
          /\ names = IF Timeline!OfClient THEN notice \o <<"room.event">>
                     ELSE <<"room.event">> \o notice \o membered
  BY <1>1 DEF Timeline!Names
<1>5. Timeline!OfClient <=> setting.side = "client"
  BY DEF Timeline!OfClient
<1>6. \A x, y : /\ Len(<<x>> \o <<y>>) = 2 /\ (<<x>> \o <<y>>)[1] = x /\ (<<x>> \o <<y>>)[2] = y
                /\ <<x>> \o <<>> = <<x>> /\ <<>> \o <<x>> = <<x>>
  OBVIOUS
<1>7. \A x \in TypedNames, y \in TypedNames :
          /\ <<x>> \in Seq(TypedNames) /\ <<x>> \o <<y>> \in Seq(TypedNames)
          /\ <<x>> \o <<y>> \o <<>> = <<x>> \o <<y>>
  OBVIOUS
<1>8. CASE form \in NoticeTypes
  <2>1. /\ names \in Seq(TypedNames) /\ Len(names) = 2
        /\ Timeline!OfClient => names[1] = Notice[form] /\ names[2] = "room.event"
        /\ ~Timeline!OfClient => names[1] = "room.event" /\ names[2] = Notice[form]
    <3>1. Notice[form] \in TypedNames /\ "room.event" \in TypedNames
      BY <1>1, <1>8 DEF TypedNames
    <3>2. notice = <<Notice[form]>> /\ membered = <<>>
      BY <1>3, <1>4, <1>8
    <3> QED BY <1>4, <1>6, <1>7, <3>1, <3>2
  <2>2. Notice[form] \notin {"room.event", "room.join"}
    BY <1>1, <1>8
  <2> QED BY <1>1, <1>2, <1>5, <1>8, <2>1, <2>2 DEF NamesOf
<1>9. CASE form \in {"join", "leave", "invite"} /\ setting.own /\ ~Timeline!OfClient
  <2>1. Timeline!Membership[form] \in {"room.join", "room.leave", "room.invite"}
    BY <1>1, <1>9
  <2>2. /\ names \in Seq(TypedNames) /\ Len(names) = 2
        /\ names[1] = "room.event" /\ names[2] = Timeline!Membership[form]
    <3>1. Timeline!Membership[form] \in TypedNames /\ "room.event" \in TypedNames
      BY <2>1 DEF TypedNames
    <3>2. notice = <<>> /\ membered = <<Timeline!Membership[form]>>
      BY <1>3, <1>4, <1>9
    <3>3. names = <<"room.event">> \o <<Timeline!Membership[form]>>
      BY <1>4, <1>6, <1>9, <3>2
    <3> QED BY <1>6, <1>7, <3>1, <3>3
  <2> QED BY <1>1, <1>3, <1>5, <1>9, <2>1, <2>2 DEF NamesOf
<1>10. CASE form \notin NoticeTypes /\ (Timeline!OfClient \/ ~(form \in {"join", "leave", "invite"} /\ setting.own))
  <2>1. names = <<"room.event">>
    BY <1>4, <1>6, <1>10
  <2> QED BY <1>2, <1>10, <2>1 DEF NamesOf, TypedNames
<1> QED BY <1>3, <1>8, <1>9, <1>10

\* Listeners are told.
LEMMA ToldMore ==
    ASSUME TimelineInv, NEW name \in Emissions, NEW f \in Forms,
           Counts["room.decrypted_event"] > 0 => f = setting.inner,
           told' = Append(told, [name |-> name, form |-> f]), setting' = setting
    PROVE  /\ Settled(setting)' /\ InClear(told, setting.inner)'
           /\ Counts' = [Counts EXCEPT ![name] = @ + 1] /\ Counts \in [Emissions -> Nat]
           /\ told' # <<>> /\ told'[Len(told')].form = f
<1>1. told \in Seq(Telling) /\ Counts \in [Emissions -> Nat]
  BY CountsAre DEF TimelineInv, InClear
<1>2. PICK e \in Telling : e = [name |-> name, form |-> f] /\ e.name = name /\ e.form = f
  BY DEF Telling
<1>3. PICK t : t = Append(told, e) /\ t \in Seq(Telling)
  <2>1. Append(told, e) \in Seq(Telling)
    BY <1>1
  <2> QED BY <2>1
<1>4. /\ Len(t) = Len(told) + 1 /\ t[Len(t)] = e /\ Len(told) \in Nat
      /\ \A i \in 1..Len(told) : t[i] = told[i]
      /\ DOMAIN told = 1..Len(told) /\ DOMAIN t = 1..(Len(told) + 1)
  BY <1>1, <1>3
<1>5. \A x \in Emissions : Count(t, x) = Counts[x] + IF x = name THEN 1 ELSE 0
  BY <1>1, <1>2, <1>3, CountMore DEF Counts
<1>6. Counts' = [x \in Emissions |-> Count(t, x)]
  BY <1>2, <1>3 DEF Counts
<1>7. Counts' = [Counts EXCEPT ![name] = @ + 1]
  <2> PICK c \in [Emissions -> Nat] : c = Counts
    BY <1>1
  <2>1. [x \in Emissions |-> Count(t, x)] = [c EXCEPT ![name] = @ + 1]
    <3>1. \A x \in Emissions : c[x] + 0 = c[x]
      OBVIOUS
    <3> QED BY <1>5, <3>1
  <2> QED BY <1>6, <2>1
<1>8. \A i \in 1..Len(told) : told[i].name = "room.decrypted_event" => f = setting.inner
  <2> SUFFICES ASSUME NEW i \in 1..Len(told), told[i].name = "room.decrypted_event"
               PROVE  Counts["room.decrypted_event"] > 0
    OBVIOUS
  <2>1. PICK A : A = {j \in DOMAIN told : told[j].name = "room.decrypted_event"}
    OBVIOUS
  <2>2. Cardinality(A) \in Nat /\ IsFiniteSet(A)
    <3>1. IsFiniteSet(1..Len(told)) /\ A \subseteq 1..Len(told)
      BY <1>4, <2>1, FS_Interval
    <3> QED BY <3>1, FS_Subset, FS_CardinalityType
  <2>3. i \in A
    BY <1>4, <2>1
  <2>4. Cardinality(A) # 0
    BY <2>2, <2>3, FS_EmptySet
  <2> QED BY <2>1, <2>2, <2>4 DEF Counts, Count, Emissions
<1>9. \A i, j \in DOMAIN t :
          i < j /\ t[i].name = "room.decrypted_event" => t[j].form = setting.inner
  <2> SUFFICES ASSUME NEW i \in DOMAIN t, NEW j \in DOMAIN t, i < j,
                      t[i].name = "room.decrypted_event"
               PROVE  t[j].form = setting.inner
    OBVIOUS
  <2>1. i \in 1..Len(told) /\ t[i] = told[i] /\ (j \in 1..Len(told) \/ j = Len(t))
    BY <1>4
  <2>2. CASE j = Len(t)
    BY <1>2, <1>4, <1>8, <2>1, <2>2
  <2>3. CASE j \in 1..Len(told)
    BY <1>4, <2>1, <2>3 DEF TimelineInv, InClear
  <2> QED BY <2>1, <2>2, <2>3
<1>10. told' = t
  BY <1>2, <1>3
<1>11. Settled(setting)'
  BY DEF TimelineInv, Settled
<1>12. InClear(told, setting.inner)'
  BY <1>3, <1>9, <1>10 DEF InClear
<1>13. t # <<>> /\ t[Len(t)].form = f
  BY <1>2, <1>4
<1> QED BY <1>1, <1>7, <1>10, <1>11, <1>12, <1>13

\* Nobody is told anything.
LEMMA NothingTold ==
    ASSUME TimelineInv, UNCHANGED <<told, setting>>
    PROVE  /\ Settled(setting)' /\ InClear(told, setting.inner)' /\ Counts' = Counts
           /\ Counts \in [Emissions -> Nat]
<1>1. Settled(setting)' /\ InClear(told, setting.inner)'
  BY DEF TimelineInv, Settled, InClear
<1>2. Counts' = Counts
  BY DEF Counts
<1> QED BY <1>1, <1>2 DEF TimelineInv, Counted

\* The parts of the invariant, of values.
LEMMA TimelineHolds ==
    ASSUME TimelineInv, setting' = setting, NEW names, names = Timeline!Names', NEW c, c = Counts',
           Settled(setting)', InClear(told, setting.inner)',
           mishap' \in BOOLEAN, NEW m, m = Thrown', Counted(setting, place', form', passes', m, c), InTurn(place', names, c),
           place' = "over" => told' # <<>> /\ told'[Len(told')].form = form'
    PROVE  TimelineInv'
BY DEF TimelineInv, Counted, InTurn

LEMMA NamesWillBe == (Settled(setting) /\ form \in Forms => NamesOf(setting, form, Timeline!Names))'
BY NamesAre, PTL

\* An event that was not told of yet.
LEMMA NotToldYet ==
    ASSUME Settled(setting)', form' \in Forms, NEW c \in [Emissions -> Nat],
           \A name \in TypedNames : c[name] = 0 \/ (name = "room.join" /\ setting'.side = "client")
    PROVE  /\ InTurn("rest", Timeline!Names', c)
           /\ \A type \in NoticeTypes : c[Notice[type]] = 0
<1> PICK names : names = Timeline!Names'
  OBVIOUS
<1>1. NamesOf(setting', form', names)
  <2>1. NamesOf(setting, form, Timeline!Names)'
    BY NamesWillBe
  <2> QED BY <2>1 DEF NamesOf
<1>2. \A i \in 1..Len(names) : c[names[i]] = 0
  BY <1>1 DEF NamesOf
<1>3. Len(names) \in 1..Len(names)
  BY <1>1 DEF NamesOf
<1>4. \A type \in NoticeTypes : Notice[type] \in TypedNames \ {"room.join"}
  BY DEF Notice, NoticeTypes, TypedNames
<1> QED BY <1>2, <1>3, <1>4 DEF InTurn

\* A listener may throw.
LEMMA TellStep ==
    ASSUME TimelineInv, NEW name, NEW next, Timeline!Tell(name, next)
    PROVE  /\ told' = Append(told, [name |-> name, form |-> form]) /\ mishap' \in BOOLEAN
           /\ \/ place' = next /\ Thrown' = Thrown
              \/ place' = "thrown" /\ Thrown' = 1
<1>1. /\ told' = Append(told, [name |-> name, form |-> form]) /\ place' \in {next, "thrown"}
      /\ mishap' \in BOOLEAN
  BY DEF Timeline!Tell
<1>2. CASE place' = "thrown"
  <2>1. mishap'
    BY <1>2 DEF Timeline!Tell
  <2> QED BY <1>1, <1>2, <2>1 DEF Thrown
<1>3. CASE place' # "thrown"
  <2>1. mishap' <=> mishap
    BY <1>3 DEF Timeline!Tell
  <2> QED BY <1>1, <1>3, <2>1 DEF Thrown
<1> QED BY <1>2, <1>3

\* A join is announced.
LEMMA Announces ==
    ASSUME TimelineInv, Timeline!Announce
    PROVE  TimelineInv'
<1> PICK s, f, c : s = setting /\ f = form /\ c = Counts
  OBVIOUS
<1> PICK d, names : d = Counts' /\ names = Timeline!Names'
  OBVIOUS
<1>1. /\ place = "begin" /\ Announced(s, f) /\ setting' = s /\ form' = f
      /\ passes' = passes + 1 /\ told' = Append(told, [name |-> "room.join", form |-> f])
      /\ mishap' \in BOOLEAN
      /\ \/ place' = "announced" /\ Thrown' = Thrown
         \/ place' = "thrown" /\ Thrown' = 1
  BY TellStep DEF Timeline!Announce, Timeline!Announces, Timeline!OfClient, Announced
<1>2. Counted(s, "begin", f, passes, Thrown, c)
  BY <1>1 DEF TimelineInv
<1>3. /\ Settled(setting)' /\ InClear(told, setting.inner)' /\ d = [c EXCEPT !["room.join"] = @ + 1]
      /\ c \in [Emissions -> Nat]
  <2>1. "room.join" \in Emissions /\ f \in Forms /\ c["room.decrypted_event"] = 0
    BY <1>2 DEF Counted, Emissions, TypedNames
  <2> QED BY <1>1, <2>1, ToldMore
<1>4. Counted(s, place', f, passes', Thrown', d)
  BY <1>1, <1>2, <1>3 DEF Counted, Emissions, TypedNames, Announced, Places
<1>5. InTurn(place', names, d)
  BY <1>1 DEF InTurn
<1> QED BY <1>1, <1>3, <1>4, <1>5, TimelineHolds

\* The preprocessors see the event.
LEMMA Processed ==
    ASSUME TimelineInv, Timeline!ProcessEvent \/ Timeline!ProcessFails
    PROVE  TimelineInv'
<1> PICK s, f, c : s = setting /\ f = form /\ c = Counts
  OBVIOUS
<1> PICK names : names = Timeline!Names'
  OBVIOUS
<1>1. /\ setting' = s /\ form' = f /\ told' = told
      /\ place \in {"begin", "announced"} /\ place' \in {"look", "rest", "thrown"}
      /\ place' \in {"look", "rest"} =>
             passes' = passes + 1 /\ Thrown' = Thrown /\ (place = "announced" <=> Announced(s, f))
      /\ place' = "look" => f = "encrypted"
      /\ place' = "thrown" => passes' = passes /\ Thrown' = 1
      /\ mishap' \in BOOLEAN
  <2>1. CASE Timeline!ProcessFails
    BY <2>1 DEF Timeline!ProcessFails, Thrown
  <2>2. CASE Timeline!ProcessEvent
    <3>1. /\ setting' = s /\ form' = f /\ told' = told /\ passes' = passes + 1 /\ mishap' = mishap
          /\ place = IF Announced(s, f) THEN "announced" ELSE "begin"
          /\ place' \in {"look", "rest"}
          /\ place' = "look" => f = "encrypted"
      BY <2>2 DEF Timeline!ProcessEvent, Timeline!Announces, Timeline!OfClient, Announced, Timeline!Looks
    <3> QED BY <3>1 DEF TimelineInv, Thrown
  <2> QED BY <2>1, <2>2
<1>2. Counted(s, place, f, passes, Thrown, c)
  BY <1>1 DEF TimelineInv
<1>3. /\ Settled(setting)' /\ InClear(told, setting.inner)' /\ Counts' = c
      /\ c \in [Emissions -> Nat]
  BY <1>1, NothingTold
<1>4. \A name \in TypedNames : c[name] = 0 \/ (name = "room.join" /\ s.side = "client")
  BY <1>1, <1>2 DEF Counted
<1>5. InTurn("rest", names, c) /\ \A type \in NoticeTypes : c[Notice[type]] = 0
  <2>1. Settled(setting)' /\ form' \in Forms /\ setting' = s /\ c \in [Emissions -> Nat]
    BY <1>1, <1>2, <1>3 DEF Counted
  <2> QED BY <1>4, <2>1, NotToldYet
<1>6. Counted(s, place', f, passes', Thrown', c)
  <2>1. /\ passes \in Nat /\ Thrown \in {0, 1} /\ f \in Forms
        /\ f = "join" => f # "encrypted"
        /\ place = "begin" => passes = 0
        /\ place = "announced" => passes = 1
        /\ c["room.decrypted_event"] = 0 /\ c["room.failed_decryption"] = 0
        /\ c["room.encrypted_event"] = 0
    BY <1>1, <1>2 DEF Counted
  <2>2. place' = "look" => f # "join" /\ ~Announced(s, f)
    BY <1>1 DEF Announced
  <2>3. PICK p, n, m : p = place' /\ n = passes' /\ m = Thrown'
    OBVIOUS
  <2>4. /\ n \in Nat /\ m \in {0, 1} /\ p \in {"look", "rest", "thrown"}
        /\ p = "look" => n = 1 /\ f # "join"
        /\ p = "rest" => n = (IF Announced(s, f) THEN 2 ELSE 1)
    <3>1. CASE p = "thrown"
      BY <1>1, <2>1, <2>3, <3>1
    <3>2. CASE p # "thrown" /\ place = "announced"
      BY <1>1, <2>1, <2>2, <2>3, <3>2
    <3>3. CASE p # "thrown" /\ place = "begin"
      BY <1>1, <2>1, <2>2, <2>3, <3>3
    <3> QED BY <1>1, <3>1, <3>2, <3>3
  <2>5. Counted(s, p, f, n, m, c)
    BY <1>3, <1>4, <1>5, <2>1, <2>4 DEF Counted, Places
  <2> QED BY <2>3, <2>5
<1>7. InTurn(place', names, c)
  BY <1>1, <1>5 DEF InTurn
<1> QED BY <1>1, <1>3, <1>6, <1>7, TimelineHolds

\* Listeners hear that the event is encrypted.
LEMMA TellsEncrypted ==
    ASSUME TimelineInv, Timeline!TellEncrypted
    PROVE  TimelineInv'
<1> PICK s, f, c : s = setting /\ f = form /\ c = Counts
  OBVIOUS
<1> PICK d, names, p, n, m, k : /\ d = Counts' /\ names = Timeline!Names' /\ p = place' /\ n = passes
                                /\ m = Thrown' /\ k = Thrown
  OBVIOUS
<1>1. /\ place = "look" /\ setting' = s /\ form' = f /\ passes' = n
      /\ told' = Append(told, [name |-> "room.encrypted_event", form |-> f])
      /\ mishap' \in BOOLEAN
      /\ \/ p = (IF s.crypto THEN "first" ELSE "rest") /\ m = k
         \/ p = "thrown" /\ m = 1
  BY TellStep DEF Timeline!TellEncrypted
<1>2. Counted(s, "look", f, n, k, c)
  BY <1>1 DEF TimelineInv
<1>3. /\ Settled(setting)' /\ InClear(told, setting.inner)'
      /\ d = [c EXCEPT !["room.encrypted_event"] = @ + 1]
      /\ c \in [Emissions -> Nat]
  <2>1. "room.encrypted_event" \in Emissions /\ f \in Forms /\ c["room.decrypted_event"] = 0
    BY <1>2 DEF Counted, Emissions
  <2> QED BY <1>1, <2>1, ToldMore
<1>4. /\ \A name \in TypedNames : d[name] = 0 \/ (name = "room.join" /\ s.side = "client")
      /\ d \in [Emissions -> Nat] /\ d["room.decrypted_event"] = 0 /\ d["room.failed_decryption"] = 0
  BY <1>2, <1>3 DEF Counted, Emissions, TypedNames
<1>5. InTurn("rest", names, d) /\ \A type \in NoticeTypes : d[Notice[type]] = 0
  <2>1. Settled(setting)' /\ form' \in Forms /\ setting' = s
    BY <1>1, <1>2, <1>3 DEF Counted
  <2> QED BY <1>4, <2>1, NotToldYet
<1>6. Counted(s, p, f, n, m, d)
  <2>1. /\ f \in Forms /\ f # "join" /\ n = 1 /\ k \in {0, 1} /\ ~Announced(s, f)
    BY <1>2 DEF Counted, Announced
  <2>2. /\ p \in {"first", "rest", "thrown"} /\ m \in {0, 1}
        /\ p = "rest" => s.crypto = FALSE
    <3>1. Settled(s)
      BY DEF TimelineInv
    <3>2. s.crypto \in BOOLEAN
      BY <3>1 DEF Settled
    <3> QED BY <1>1, <2>1, <3>2
  <2> QED BY <1>4, <1>5, <2>1, <2>2 DEF Counted, Places
<1>7. InTurn(p, names, d)
  <2>1. p # "over"
    BY <1>1
  <2> QED BY <1>5, <2>1 DEF InTurn
<1> QED BY <1>1, <1>3, <1>6, <1>7, TimelineHolds

\* What is in hand when the event was decrypted, with and without throwing.
LEMMA Decrypted ==
    ASSUME TimelineInv, place \in {"first", "second"}, Timeline!Decryptor \in setting.holders
    PROVE  /\ setting.inner \in Forms /\ setting.inner # "join"
           /\ Counts["room.decrypted_event"] > 0 => Thrown = 1
           /\ Counts["room.decrypted_event"] <= (IF place = "first" THEN 0 ELSE 1)
           /\ place = "second" => setting.side # "client"
           /\ Counts["room.failed_decryption"] = 0
           /\ \A name \in TypedNames :
                  Counts[name] = 0 \/ (name = "room.join" /\ setting.side = "client")
           /\ Readable(setting) /\ Thrown \in {0, 1} /\ Counts \in [Emissions -> Nat]
<1> PICK s, f, c, p, n, m : /\ s = setting /\ f = form /\ c = Counts /\ p = place /\ n = passes
                            /\ m = Thrown
  OBVIOUS
<1>1. Counted(s, p, f, n, m, c) /\ p \in {"first", "second"} /\ s.inner \in {"message", "other"}
  <2>1. Counted(s, p, f, n, m, c) /\ Settled(s)
    BY DEF TimelineInv
  <2> QED BY <2>1 DEF Settled
<1>2. /\ c["room.decrypted_event"] > 0 => m = 1
      /\ c["room.decrypted_event"] <= (IF p = "first" THEN 0 ELSE 1)
      /\ p = "second" => s.side # "client"
      /\ c["room.failed_decryption"] = 0 /\ m \in {0, 1} /\ c \in [Emissions -> Nat]
      /\ \A name \in TypedNames : c[name] = 0 \/ (name = "room.join" /\ s.side = "client")
  BY <1>1 DEF Counted, Emissions
<1>3. Readable(setting)
  BY DEF Timeline!Decryptor, Readable
<1> QED BY <1>1, <1>2, <1>3 DEF Forms

\* An event is decrypted.
LEMMA Decrypts ==
    ASSUME TimelineInv, Timeline!Decrypt
    PROVE  TimelineInv'
<1> PICK s, f, c, p : s = setting /\ f = setting.inner /\ c = Counts /\ p = place
  OBVIOUS
<1> PICK d, names, m : d = Counts' /\ names = Timeline!Names' /\ m = Thrown
  OBVIOUS
<1>1. /\ p \in {"first", "second"} /\ setting' = s /\ form' = f /\ passes' = 1
      /\ told' = Append(told, [name |-> "room.decrypted_event", form |-> f])
      /\ mishap' \in BOOLEAN /\ Thrown' = m /\ place' = "rest"
  BY DEF Timeline!Decrypt, TimelineInv, Thrown
<1>2. /\ f \in Forms /\ f # "join"
      /\ c["room.decrypted_event"] > 0 => m = 1
      /\ c["room.decrypted_event"] <= (IF p = "first" THEN 0 ELSE 1)
      /\ p = "second" => s.side # "client"
      /\ c["room.failed_decryption"] = 0
      /\ \A name \in TypedNames : c[name] = 0 \/ (name = "room.join" /\ s.side = "client")
      /\ Readable(s) /\ m \in {0, 1} /\ c \in [Emissions -> Nat]
  BY <1>1, Decrypted DEF Timeline!Decrypt
<1>3. /\ Settled(setting)' /\ InClear(told, setting.inner)'
      /\ d = [c EXCEPT !["room.decrypted_event"] = @ + 1]
  <2>1. "room.decrypted_event" \in Emissions
    BY DEF Emissions
  <2> QED BY <1>1, <1>2, <2>1, ToldMore
<1>4. /\ \A name \in TypedNames : d[name] = 0 \/ (name = "room.join" /\ s.side = "client")
      /\ d \in [Emissions -> Nat] /\ d["room.failed_decryption"] = 0
      /\ d["room.decrypted_event"] = c["room.decrypted_event"] + 1
  BY <1>2, <1>3 DEF Emissions, TypedNames
<1>5. InTurn("rest", names, d) /\ \A type \in NoticeTypes : d[Notice[type]] = 0
  <2>1. Settled(setting)' /\ form' \in Forms /\ setting' = s
    BY <1>1, <1>2, <1>3
  <2> QED BY <1>4, <2>1, NotToldYet
<1>6. Counted(s, "rest", f, 1, m, d)
  <2>1. ~Announced(s, f) /\ c["room.decrypted_event"] \in Nat
    BY <1>2 DEF Announced, Emissions
  <2>2. s.side = "client" => p = "first"
    BY <1>1, <1>2
  <2>3. /\ d["room.decrypted_event"] <= (IF s.side = "client" THEN 1 ELSE 2)
        /\ m = 0 => d["room.decrypted_event"] = 1
    BY <1>1, <1>2, <1>4, <2>1, <2>2
  <2> QED BY <1>1, <1>2, <1>4, <1>5, <2>1, <2>3 DEF Counted, Places
<1> QED BY <1>1, <1>3, <1>5, <1>6, TimelineHolds

\* The place an attempt that throws leads to, and what the next one relies on.
LEMMA Caught ==
    ASSUME TimelineInv, place \in {"first", "second"}
    PROVE  /\ Timeline!Catch \in {"second", "failed"}
           /\ Timeline!Catch = "second" => setting.side # "client" /\ place = "first"
           /\ Timeline!Catch = "failed" /\ Timeline!Decryptor \notin setting.holders
                  /\ Me \notin setting.holders => ~Readable(setting)
<1>1. /\ setting.side = "client" => setting.tried = Nothing
      /\ Nothing \notin setting.holders
  <2>1. Settled(setting)
    BY DEF TimelineInv
  <2> QED BY <2>1 DEF Settled
<1> QED BY <1>1 DEF Timeline!Catch, Timeline!OfClient, Timeline!Decryptor, Readable

\* It cannot be decrypted.
LEMMA DecryptionFails ==
    ASSUME TimelineInv, Timeline!DecryptFails
    PROVE  TimelineInv'
<1> PICK s, f, c, p : s = setting /\ f = form /\ c = Counts /\ p = place
  OBVIOUS
<1> PICK names, m, n, q : names = Timeline!Names' /\ m = Thrown /\ n = passes /\ q = Timeline!Catch
  OBVIOUS
<1>1. /\ p \in {"first", "second"} /\ setting' = s /\ form' = f /\ passes' = n /\ told' = told
      /\ mishap' \in BOOLEAN /\ Thrown' = m /\ place' = q
      /\ Timeline!Decryptor \notin s.holders
  BY DEF Timeline!DecryptFails, TimelineInv, Thrown
<1>2. Counted(s, p, f, n, m, c)
  BY DEF TimelineInv
<1>3. /\ Settled(setting)' /\ InClear(told, setting.inner)' /\ Counts' = c /\ c \in [Emissions -> Nat]
  BY <1>1, NothingTold
<1>4. /\ m = 0 => Me \notin s.holders
      /\ c["room.decrypted_event"] > 0 => m = 1
  <2>1. p = "first" => Me \notin s.holders
    BY <1>1 DEF Timeline!Decryptor
  <2> QED BY <1>1, <1>2, <2>1 DEF Counted
<1>5. /\ q \in {"second", "failed"}
      /\ q = "second" => s.side # "client" /\ p = "first"
      /\ q = "failed" /\ m = 0 => ~Readable(s)
  BY <1>1, <1>4, Caught
<1>6. Counted(s, q, f, n, m, c)
  BY <1>1, <1>2, <1>3, <1>4, <1>5 DEF Counted, Places
<1>7. InTurn(q, names, c)
  BY <1>5 DEF InTurn
<1> QED BY <1>1, <1>3, <1>5, <1>6, <1>7, TimelineHolds

\* It is decrypted, and then a preprocessor or listener throws.
LEMMA DecryptedAndThrown ==
    ASSUME TimelineInv, Timeline!DecryptedThrows
    PROVE  TimelineInv'
<1> PICK s, f, c, p : s = setting /\ f = setting.inner /\ c = Counts /\ p = place
  OBVIOUS
<1> PICK d, names, q : d = Counts' /\ names = Timeline!Names' /\ q = Timeline!Catch
  OBVIOUS
<1>1. /\ p \in {"first", "second"} /\ setting' = s /\ form' = f /\ passes' = 1
      /\ \/ told' = told
         \/ told' = Append(told, [name |-> "room.decrypted_event", form |-> f])
      /\ mishap' \in BOOLEAN /\ Thrown' = 1 /\ place' = q
  BY DEF Timeline!DecryptedThrows, Thrown
<1>2. /\ f \in Forms /\ f # "join"
      /\ c["room.decrypted_event"] <= (IF p = "first" THEN 0 ELSE 1)
      /\ p = "second" => s.side # "client"
      /\ c["room.failed_decryption"] = 0
      /\ \A name \in TypedNames : c[name] = 0 \/ (name = "room.join" /\ s.side = "client")
      /\ c \in [Emissions -> Nat]
  BY <1>1, Decrypted DEF Timeline!DecryptedThrows
<1>3. /\ Settled(setting)' /\ InClear(told, setting.inner)'
      /\ d = c \/ d = [c EXCEPT !["room.decrypted_event"] = @ + 1]
  <2>1. "room.decrypted_event" \in Emissions
    BY DEF Emissions
  <2>2. CASE told' = told
    BY <1>1, <2>2, NothingTold
  <2>3. CASE told' = Append(told, [name |-> "room.decrypted_event", form |-> f])
    BY <1>1, <1>2, <2>1, <2>3, ToldMore
  <2> QED BY <1>1, <2>2, <2>3
<1>4. /\ \A name \in TypedNames : d[name] = 0 \/ (name = "room.join" /\ s.side = "client")
      /\ d \in [Emissions -> Nat] /\ d["room.failed_decryption"] = 0
      /\ d["room.decrypted_event"] <= c["room.decrypted_event"] + 1
      /\ c["room.decrypted_event"] \in Nat
  BY <1>2, <1>3 DEF Emissions, TypedNames
<1>5. /\ q \in {"second", "failed"}
      /\ q = "second" => s.side # "client" /\ p = "first"
  BY <1>1, Caught
<1>6. Counted(s, q, f, 1, 1, d)
  <2>1. s.side = "client" => p = "first"
    BY <1>1, <1>2
  <2>2. /\ d["room.decrypted_event"] <= (IF s.side = "client" THEN 1 ELSE 2)
        /\ q = "second" => d["room.decrypted_event"] <= 1
        /\ d["room.decrypted_event"] > 0 => f = s.inner
    <3>1. PICK x \in Nat, y \in Nat : x = c["room.decrypted_event"] /\ y = d["room.decrypted_event"]
      BY <1>4 DEF Emissions
    <3>2. CASE p = "first"
      <4>1. x <= 0 /\ y <= x + 1
        BY <1>2, <1>4, <3>1, <3>2
      <4> QED BY <1>1, <3>1, <4>1
    <3>3. CASE p = "second"
      <4>1. /\ x <= 1 /\ y <= x + 1 /\ s.side # "client"
            /\ q # "second"
        BY <1>2, <1>4, <1>5, <3>1, <3>3
      <4> QED BY <1>1, <3>1, <4>1
    <3> QED BY <1>1, <3>2, <3>3
  <2> QED BY <1>2, <1>4, <1>5, <2>2 DEF Counted, Places
<1>7. InTurn(q, names, d)
  BY <1>5 DEF InTurn
<1> QED BY <1>1, <1>3, <1>5, <1>6, <1>7, TimelineHolds

\* It was not decrypted.
LEMMA TellsFailed ==
    ASSUME TimelineInv, Timeline!TellFailed
    PROVE  TimelineInv'
<1> PICK s, f, c : s = setting /\ f = form /\ c = Counts
  OBVIOUS
<1> PICK d, names, p, n, m, k : /\ d = Counts' /\ names = Timeline!Names' /\ p = place' /\ n = passes
                                /\ m = Thrown' /\ k = Thrown
  OBVIOUS
<1>1. /\ place = "failed" /\ setting' = s /\ form' = f /\ passes' = n
      /\ told' = Append(told, [name |-> "room.failed_decryption", form |-> f])
      /\ mishap' \in BOOLEAN
      /\ \/ p = "rest" /\ m = k
         \/ p = "thrown" /\ m = 1
  BY TellStep DEF Timeline!TellFailed
<1>2. Counted(s, "failed", f, n, k, c)
  BY <1>1 DEF TimelineInv
<1>3. /\ Settled(setting)' /\ InClear(told, setting.inner)'
      /\ d = [c EXCEPT !["room.failed_decryption"] = @ + 1]
      /\ c \in [Emissions -> Nat]
  <2>1. "room.failed_decryption" \in Emissions /\ f \in Forms
        /\ (c["room.decrypted_event"] > 0 => f = s.inner)
    BY <1>2 DEF Counted, Emissions
  <2> QED BY <1>1, <2>1, ToldMore
<1>4. /\ \A name \in TypedNames : d[name] = 0 \/ (name = "room.join" /\ s.side = "client")
      /\ d \in [Emissions -> Nat] /\ d["room.failed_decryption"] = 1
      /\ d["room.decrypted_event"] = c["room.decrypted_event"]
  BY <1>2, <1>3 DEF Counted, Emissions, TypedNames
<1>5. InTurn("rest", names, d) /\ \A type \in NoticeTypes : d[Notice[type]] = 0
  <2>1. Settled(setting)' /\ form' \in Forms /\ setting' = s
    BY <1>1, <1>2, <1>3 DEF Counted
  <2> QED BY <1>4, <2>1, NotToldYet
<1>6. Counted(s, p, f, n, m, d)
  <2>1. /\ f \in Forms /\ f # "join" /\ n = 1 /\ k \in {0, 1} /\ ~Announced(s, f)
        /\ d["room.decrypted_event"] <= (IF s.side = "client" THEN 1 ELSE 2)
    BY <1>2, <1>4 DEF Counted, Announced
  <2>2. /\ d["room.decrypted_event"] > 0 => f = s.inner /\ k = 1
        /\ k = 0 => ~Readable(s)
        /\ d["room.decrypted_event"] \in Nat
    BY <1>2, <1>4 DEF Counted, Emissions
  <2>3. /\ p \in {"rest", "thrown"} /\ m \in {0, 1}
        /\ m = 0 => k = 0
    BY <1>1, <2>1
  <2> QED BY <1>4, <1>5, <2>1, <2>2, <2>3 DEF Counted, Places
<1>7. InTurn(p, names, d)
  BY <1>1, <1>5 DEF InTurn
<1> QED BY <1>1, <1>3, <1>6, <1>7, TimelineHolds

\* The names of an event are told in turn.
LEMMA TellsRest ==
    ASSUME TimelineInv, Timeline!TellRest
    PROVE  TimelineInv'
<1> PICK s, f, c, names : s = setting /\ f = form /\ c = Counts /\ names = Timeline!Names
  OBVIOUS
<1> PICK d, p, n, m, k : d = Counts' /\ p = place' /\ n = passes /\ m = Thrown' /\ k = Thrown
  OBVIOUS
<1> DEFINE last == Len(names)
<1>1. /\ Counted(s, "rest", f, n, k, c) /\ InTurn("rest", names, c) /\ NamesOf(s, f, names)
      /\ place = "rest"
  <2>1. place = "rest"
    BY DEF Timeline!TellRest
  <2>2. Settled(s) /\ Counted(s, "rest", f, n, k, c) /\ InTurn("rest", names, c)
    BY <2>1 DEF TimelineInv
  <2>3. f \in Forms
    BY <2>2 DEF Counted
  <2> QED BY <2>1, <2>2, <2>3, NamesAre
<1>2. /\ DOMAIN names = 1..last /\ last \in Nat /\ last >= 1
      /\ \A j \in 1..last : names[j] \in TypedNames /\ names[j] \in Emissions
      /\ c \in [Emissions -> Nat] /\ \A name \in Emissions : Timeline!Told(name) = c[name]
  <2>1. told \in Seq(Telling) /\ c \in [Emissions -> Nat]
    BY <1>1 DEF TimelineInv, InClear, Counted
  <2>2. \A name \in Emissions : Timeline!Told(name) = c[name]
    BY <2>1, CountsAre
  <2> QED BY <1>1, <2>1, <2>2 DEF NamesOf, Emissions
<1>3. PICK i \in 1..last :
          /\ \A j \in 1..last : j < i <=> c[names[j]] > 0
          /\ Timeline!Tell(names[i], IF i = last THEN "over" ELSE "rest")
  <2>1. PICK i \in DOMAIN Timeline!Names :
            /\ \A j \in DOMAIN Timeline!Names : j < i <=> Timeline!Told(Timeline!Names[j]) > 0
            /\ Timeline!Tell(Timeline!Names[i], IF i = Len(Timeline!Names) THEN "over" ELSE "rest")
    BY DEF Timeline!TellRest
  <2> QED BY <1>2, <2>1
<1> PICK name : name = names[i]
  OBVIOUS
<1>4. /\ setting' = s /\ form' = f /\ passes' = n
      /\ told' = Append(told, [name |-> name, form |-> f])
      /\ mishap' \in BOOLEAN
      /\ \/ p = (IF i = last THEN "over" ELSE "rest") /\ m = k
         \/ p = "thrown" /\ m = 1
  BY <1>3, TellStep DEF Timeline!TellRest
<1>5. Timeline!Names' = names
  BY <1>4 DEF Timeline!Names, Timeline!OfClient
<1>6. /\ Settled(setting)' /\ InClear(told, setting.inner)'
      /\ d = [c EXCEPT ![name] = @ + 1]
      /\ told' # <<>> /\ told'[Len(told')].form = f
  <2>1. name \in Emissions /\ f \in Forms /\ (c["room.decrypted_event"] > 0 => f = s.inner)
    BY <1>1, <1>2 DEF Counted
  <2> QED BY <1>4, <2>1, ToldMore
<1>7. /\ d \in [Emissions -> Nat]
      /\ \A x \in Emissions : d[x] = IF x = name THEN c[x] + 1 ELSE c[x]
      /\ name \in TypedNames
  <2>1. c[name] + 1 \in Nat
    BY <1>2
  <2> QED BY <1>2, <1>6, <2>1
<1>8. /\ \A j \in 1..last : c[names[j]] = IF j < i THEN 1 ELSE 0
      /\ \A j \in 1..last : j # i => names[j] # name
  <2>1. \A j \in 1..last : c[names[j]] \in {0, 1}
    BY <1>1 DEF InTurn
  <2> QED BY <1>1, <1>3, <2>1 DEF NamesOf
<1>9. \A j \in 1..last : d[names[j]] = IF j <= i THEN 1 ELSE 0
  <2> SUFFICES ASSUME NEW j \in 1..last PROVE d[names[j]] = IF j <= i THEN 1 ELSE 0
    OBVIOUS
  <2>1. CASE j = i
    <3>1. c[name] = 0 /\ names[j] = name /\ name \in Emissions
      BY <1>2, <1>8, <2>1
    <3> QED BY <1>7, <2>1, <3>1
  <2>2. CASE j # i
    <3>1. names[j] # name /\ names[j] \in Emissions
      BY <1>2, <1>8, <2>2
    <3> QED BY <1>7, <1>8, <2>2, <3>1
  <2> QED BY <2>1, <2>2
<1>10. InTurn(p, names, d)
  <2>1. p = "over" => i = last
    BY <1>4
  <2>2. p = "rest" => i # last
    BY <1>4
  <2>3. p = "over" => \A j \in 1..last : d[names[j]] = 1
    BY <1>2, <1>9, <2>1
  <2>4. p = "rest" => d[names[last]] = 0
    <3>1. last \in 1..last
      BY <1>2
    <3>2. i # last => ~(last <= i)
      <4>1. last \in Nat
        BY <1>2
      <4> HIDE DEF last
      <4> QED BY <4>1
    <3> QED BY <1>9, <2>2, <3>1, <3>2
  <2>5. \A j \in 1..last : d[names[j]] \in {0, 1}
    BY <1>9
  <2>6. \A j, x \in 1..last : j < x /\ d[names[x]] = 1 => d[names[j]] = 1
    BY <1>2, <1>9
  <2> QED BY <2>3, <2>4, <2>5, <2>6 DEF InTurn
<1>11. Counted(s, p, f, n, m, d)
  <2>1. /\ p \in {"rest", "over", "thrown"} /\ m \in {0, 1}
        /\ m = 0 => k = 0
    BY <1>1, <1>4 DEF Counted
  <2>2. \A x \in {"room.decrypted_event", "room.failed_decryption", "room.encrypted_event"} : d[x] = c[x]
    BY <1>7 DEF TypedNames, Emissions
  <2>3. \A type \in NoticeTypes : f # type => d[Notice[type]] = 0
    <3> SUFFICES ASSUME NEW type \in NoticeTypes, f # type PROVE d[Notice[type]] = 0
      OBVIOUS
    <3>1. c[Notice[type]] = 0 /\ Notice[type] # name
      BY <1>1 DEF Counted, NamesOf
    <3>2. Notice[type] \in Emissions
      BY DEF Notice, NoticeTypes, Emissions, TypedNames
    <3> QED BY <1>7, <3>1, <3>2
  <2> QED BY <1>1, <1>7, <2>1, <2>2, <2>3 DEF Counted, Places
<1> QED BY <1>4, <1>5, <1>6, <1>10, <1>11, TimelineHolds

\* The rooms of a user cannot be read.
LEMMA RestEnds ==
    ASSUME TimelineInv, Timeline!RestFails
    PROVE  TimelineInv'
<1> PICK s, f, c, names, n : /\ s = setting /\ f = form /\ c = Counts /\ names = Timeline!Names'
                             /\ n = passes
  OBVIOUS
<1>1. /\ place = "rest" /\ setting' = s /\ form' = f /\ passes' = n /\ told' = told
      /\ mishap' \in BOOLEAN /\ Thrown' = 1 /\ place' = "thrown"
  BY DEF Timeline!RestFails, Thrown
<1>2. Counted(s, "rest", f, n, Thrown, c)
  BY <1>1 DEF TimelineInv
<1>3. /\ Settled(setting)' /\ InClear(told, setting.inner)' /\ Counts' = c
  BY <1>1, NothingTold
<1>4. Counted(s, "thrown", f, n, 1, c) /\ InTurn("thrown", names, c)
  BY <1>2 DEF Counted, Places, InTurn
<1> QED BY <1>1, <1>3, <1>4, TimelineHolds

LEMMA TimelineStarts == Timeline!Init => TimelineInv
<1> SUFFICES ASSUME Timeline!Init PROVE TimelineInv
  OBVIOUS
<1> PICK s, f, c : s = setting /\ f = form /\ c = Counts
  OBVIOUS
<1>1. /\ place = "begin" /\ passes = 0 /\ told = <<>> /\ mishap = FALSE /\ Thrown = 0
      /\ s \in Timeline!Settings
      /\ s.side = "client" => s.tried = Nothing
      /\ f \in Forms
  BY DEF Timeline!Init, Timeline!Types, Timeline!Membership, Timeline!Notices, Forms, Thrown
<1>2. Settled(s)
  <2>1. /\ s.side \in {"client", "appservice"} /\ s.inner \in {"message", "other"}
        /\ s.crypto \in BOOLEAN /\ s.own \in BOOLEAN /\ s.listed \in BOOLEAN
        /\ s.holders \in SUBSET {Me, Other}
    BY <1>1 DEF Timeline!Settings
  <2>2. Nothing \notin {Me, Other}
    BY ClientAssumption
  <2> QED BY <1>1, <2>1, <2>2 DEF Settled
<1>3. c = [name \in Emissions |-> 0]
  BY <1>1, CountNone DEF Counts
<1>4. Counted(s, "begin", f, 0, 0, c)
  BY <1>1, <1>3 DEF Counted, Places, Emissions, TypedNames
<1>5. InTurn("begin", Timeline!Names, c) /\ InClear(told, s.inner)
  BY <1>1 DEF InTurn, InClear
<1> QED BY <1>1, <1>2, <1>4, <1>5 DEF TimelineInv

LEMMA TimelineStays ==
    ASSUME TimelineInv, UNCHANGED timelineVars
    PROVE  TimelineInv'
<1>1. UNCHANGED <<setting, form, passes, place, told, mishap>>
  BY DEF timelineVars
<1>2. Timeline!Names' = Timeline!Names /\ Counts' = Counts /\ Thrown' = Thrown
  BY <1>1 DEF Timeline!Names, Timeline!OfClient, Counts, Thrown
<1> QED BY <1>1, <1>2 DEF TimelineInv, Settled, Counted, InTurn, InClear

LEMMA TimelineKeeps == TimelineInv /\ (Timeline!Next \/ UNCHANGED timelineVars) => TimelineInv'
BY Announces, Processed, TellsEncrypted, Decrypts, DecryptionFails, DecryptedAndThrown,
   TellsFailed, TellsRest, RestEnds, TimelineStays DEF Timeline!Next

LEMMA TimelineTells == TimelineInv => Timeline!EventsAreTold
<1> SUFFICES ASSUME TimelineInv PROVE Timeline!EventsAreTold
  OBVIOUS
<1> PICK s, f, c, p, n, m, names :
         /\ s = setting /\ f = form /\ c = Counts /\ p = place /\ n = passes /\ m = Thrown
         /\ names = Timeline!Names
  OBVIOUS
<1>1. /\ Settled(s) /\ Counted(s, p, f, n, m, c) /\ InTurn(p, names, c) /\ InClear(told, s.inner)
      /\ mishap \in BOOLEAN /\ (m = 1 <=> mishap)
      /\ p = "over" => told # <<>> /\ told[Len(told)].form = f
  BY DEF TimelineInv, Thrown
<1>2. NamesOf(s, f, names) /\ told \in Seq(Telling)
  <2>1. f \in Forms
    BY <1>1 DEF Counted
  <2> QED BY <1>1, <2>1, NamesAre DEF InClear
<1>3. \A name \in Emissions : Timeline!Told(name) = c[name]
  BY <1>2, CountsAre
<1>4. Timeline!Notices = Notice /\ DOMAIN Timeline!Notices = NoticeTypes
      /\ (Timeline!Announces <=> Announced(s, f)) /\ (Timeline!OfClient <=> s.side = "client")
  BY DEF Timeline!Notices, Notice, NoticeTypes, Timeline!Announces, Timeline!OfClient, Announced
<1>5. Timeline!Decryptable <=> Readable(s)
  BY DEF Timeline!Decryptable, Readable
<1>6. \A i, j \in DOMAIN told :
          i < j /\ told[i].name = "room.decrypted_event" => told[j].form = setting.inner
  BY <1>1 DEF InClear
<1>7. ASSUME p = "over"
      PROVE  /\ c["room.event"] = 1
             /\ \A type \in NoticeTypes : c[Notice[type]] = (IF f = type THEN 1 ELSE 0)
             /\ n = (IF Announced(s, f) THEN 2 ELSE 1)
             /\ m = 0 /\ c["room.encrypted_event"] = 1 /\ s.crypto =>
                    /\ c["room.decrypted_event"] = (IF Readable(s) THEN 1 ELSE 0)
                    /\ c["room.failed_decryption"] = (IF Readable(s) THEN 0 ELSE 1)
  <2>1. \A i \in 1..Len(names) : c[names[i]] = 1
    BY <1>1, <1>7 DEF InTurn
  <2>2. c["room.event"] = 1
    BY <1>2, <2>1 DEF NamesOf
  <2>3. \A type \in NoticeTypes : f # type => c[Notice[type]] = 0
    BY <1>1, <1>7 DEF Counted
  <2>4. \A type \in NoticeTypes : f = type => c[Notice[type]] = 1
    BY <1>2, <2>1 DEF NamesOf
  <2> QED BY <1>1, <1>7, <2>2, <2>3, <2>4 DEF Counted
<1>8. /\ c["room.failed_decryption"] > 0 /\ c["room.decrypted_event"] > 0 => mishap
      /\ c["room.decrypted_event"] <= (IF s.side = "client" THEN 1 ELSE 2)
  BY <1>1 DEF Counted
<1>9. /\ "room.event" \in Emissions /\ "room.encrypted_event" \in Emissions
      /\ "room.decrypted_event" \in Emissions /\ "room.failed_decryption" \in Emissions
      /\ \A type \in NoticeTypes : Notice[type] \in Emissions
  BY DEF Emissions, TypedNames, NoticeTypes, Notice
<1>10. ASSUME place = "over"
       PROVE  /\ Timeline!Told("room.event") = 1
              /\ told[Len(told)].form = form
              /\ \A type \in DOMAIN Timeline!Notices :
                     Timeline!Told(Timeline!Notices[type]) = (IF form = type THEN 1 ELSE 0)
              /\ passes = (IF Timeline!Announces THEN 2 ELSE 1)
              /\ ~mishap /\ Timeline!Told("room.encrypted_event") = 1 /\ setting.crypto =>
                     /\ Timeline!Told("room.decrypted_event") = (IF Timeline!Decryptable THEN 1 ELSE 0)
                     /\ Timeline!Told("room.failed_decryption") = (IF Timeline!Decryptable THEN 0 ELSE 1)
  <2>1. ~mishap => m = 0
    BY DEF Thrown
  <2> QED BY <1>1, <1>3, <1>4, <1>5, <1>7, <1>9, <1>10, <2>1
<1> QED BY <1>3, <1>4, <1>6, <1>8, <1>9, <1>10 DEF Timeline!EventsAreTold

-----------------------------------------------------------------------------
(* Sequences                                                                *)

LEMMA SameSeq ==
    ASSUME NEW S, NEW s \in Seq(S), NEW t \in Seq(S), Len(s) = Len(t), \A i \in 1..Len(t) : s[i] = t[i]
    PROVE  s = t
OBVIOUS

LEMMA Concat ==
    ASSUME NEW S, NEW s \in Seq(S), NEW t \in Seq(S)
    PROVE  /\ s \o t \in Seq(S) /\ Len(s \o t) = Len(s) + Len(t)
           /\ DOMAIN (s \o t) = 1..(Len(s) + Len(t))
           /\ Len(s) \in Nat /\ Len(t) \in Nat
           /\ \A i \in 1..Len(s) : (s \o t)[i] = s[i]
           /\ \A i \in 1..Len(t) : (s \o t)[Len(s) + i] = t[i]
OBVIOUS

LEMMA ConcatLength ==
    ASSUME NEW S, NEW s \in Seq(S), NEW t \in Seq(S)
    PROVE  s \o t \in Seq(S) /\ Len(s \o t) = Len(s) + Len(t)
OBVIOUS

LEMMA ConcatFirst ==
    ASSUME NEW S, NEW s \in Seq(S), NEW t \in Seq(S)
    PROVE  \A i \in 1..Len(s) : (s \o t)[i] = s[i]
OBVIOUS

LEMMA ConcatRest ==
    ASSUME NEW S, NEW s \in Seq(S), NEW t \in Seq(S)
    PROVE  \A i \in 1..Len(t) : (s \o t)[Len(s) + i] = t[i]
OBVIOUS

LEMMA Prefixed ==
    ASSUME NEW S, NEW x \in S, NEW s \in Seq(S)
    PROVE  LET u == <<x>> \o s IN
           /\ u \in Seq(S) /\ Len(u) = Len(s) + 1 /\ DOMAIN u = 1..(Len(s) + 1) /\ Len(s) \in Nat
           /\ u[1] = x /\ u # <<>> /\ Head(u) = x
           /\ \A i \in 1..Len(s) : u[i + 1] = s[i]
           /\ Tail(u) = s
<1> PICK e, u : e = <<x>> /\ u = <<x>> \o s
  OBVIOUS
<1>1. e \in Seq(S) /\ Len(e) = 1 /\ e[1] = x
  OBVIOUS
<1>2. /\ u \in Seq(S) /\ Len(u) = Len(e) + Len(s) /\ DOMAIN u = 1..(Len(e) + Len(s)) /\ Len(s) \in Nat
      /\ \A i \in 1..Len(e) : u[i] = e[i]
      /\ \A i \in 1..Len(s) : u[Len(e) + i] = s[i]
  BY <1>1, Concat
<1>3. /\ u \in Seq(S) /\ Len(u) = Len(s) + 1 /\ DOMAIN u = 1..(Len(s) + 1) /\ Len(s) \in Nat
      /\ u[1] = x
  BY <1>1, <1>2
<1>4. \A i \in 1..Len(s) : u[i + 1] = s[i]
  BY <1>1, <1>2
<1>5. u # <<>>
  BY <1>3
<1>6. Tail(u) = s
  <2> PICK rest : rest = Tail(u)
    OBVIOUS
  <2>1. rest \in Seq(S) /\ Len(rest) = Len(s)
    BY <1>3, <1>5
  <2>2. \A i \in 1..Len(s) : rest[i] = s[i]
    BY <1>3, <1>4, <1>5
  <2>3. rest = s
    BY <2>1, <2>2, SameSeq
  <2> QED BY <2>3
<1> QED BY <1>3, <1>4, <1>5, <1>6

LEMMA PrefixedFirst ==
    ASSUME NEW S, NEW x \in S, NEW s \in Seq(S)
    PROVE  /\ <<x>> \o s \in Seq(S) /\ Len(<<x>> \o s) = Len(s) + 1
           /\ DOMAIN (<<x>> \o s) = 1..(Len(s) + 1) /\ (<<x>> \o s)[1] = x
BY Prefixed

LEMMA PrefixedRest ==
    ASSUME NEW S, NEW x \in S, NEW s \in Seq(S)
    PROVE  \A i \in 1..Len(s) : (<<x>> \o s)[i + 1] = s[i]
BY Prefixed

LEMMA Part ==
    ASSUME NEW S, NEW s \in Seq(S), NEW m \in Nat \ {0}, NEW n \in Nat, m <= n + 1, n <= Len(s)
    PROVE  /\ SubSeq(s, m, n) \in Seq(S) /\ Len(SubSeq(s, m, n)) = n - m + 1
           /\ \A i \in 1..(n - m + 1) : SubSeq(s, m, n)[i] = s[m + i - 1]
           /\ m <= n => SubSeq(s, m, n) # <<>>
<1>1. /\ SubSeq(s, m, n) \in Seq(S) /\ Len(SubSeq(s, m, n)) = n - m + 1
      /\ \A i \in 1..(n - m + 1) : SubSeq(s, m, n)[i] = s[m + i - 1]
  OBVIOUS
<1>2. m <= n => n - m + 1 # 0
  OBVIOUS
<1>3. PICK u : u = SubSeq(s, m, n)
  OBVIOUS
<1>4. m <= n => u # <<>>
  BY <1>1, <1>2, <1>3
<1> QED BY <1>1, <1>3, <1>4

LEMMA PartLength ==
    ASSUME NEW S, NEW s \in Seq(S), NEW m \in Nat \ {0}, NEW n \in Nat, m <= n + 1, n <= Len(s)
    PROVE  SubSeq(s, m, n) \in Seq(S) /\ Len(SubSeq(s, m, n)) = n - m + 1
BY Part

-----------------------------------------------------------------------------
(* Replies                                                                  *)

Words  == STRING \ (Senders \cup {"</mx-reply>"})
Tokens == Words \cup Senders \cup
          {"> ", "\n", "<br>", "<br />", "<mx-reply>", "</mx-reply>", "<blockquote>", "</blockquote>"}
Pieces == Seq(Tokens)
Plain  == Seq(Seq(Words)) \ {<<>>}

\* What one replies to: an event as somebody sees it.
Legible(v) ==
    /\ v.id \in Nat /\ v.sender \in Senders /\ v.body \in Seq(Pieces) \ {<<>>} /\ v.html \in Seq(Pieces)
    /\ ~Replies!HasFallback(v) => v.body \in Plain

\* An event of the room, that replies with or without a fallback or does not.
Written(e) ==
    /\ e \in [id : Nat, sender : Senders, replyTo : Nat \cup {Nothing}, body : Seq(Pieces) \ {<<>>},
              html : Seq(Pieces), said : Plain, shown : Seq(Pieces), seen : {e.seen}]
    /\ \/ /\ e.seen = Nothing /\ e.body \in Plain
          /\ e.replyTo # Nothing => e.html = <<>>
       \/ /\ Legible(e.seen) /\ e.replyTo = e.seen.id
          /\ e.body = Replies!ReplyBody(e.seen, e.said)
          /\ e.html = Replies!FallbackHtml(e.seen) \o e.shown
          /\ ~Replies!Has(Replies!End, e.shown)

RepliesInv == /\ \E S : timeline \in Seq(S)
              /\ \A n \in DOMAIN timeline : Written(timeline[n])

LEMMA PlainIsText == Plain \subseteq Seq(Pieces) \ {<<>>} /\ Seq(Words) \subseteq Pieces
<1>1. Words \subseteq Tokens
  BY DEF Tokens
<1>2. Seq(Words) \subseteq Seq(Tokens)
  BY <1>1
<1>3. Seq(Seq(Words)) \subseteq Seq(Seq(Tokens))
  BY <1>2
<1> QED BY <1>2, <1>3 DEF Plain, Pieces

LEMMA LinesPlain ==
    ASSUME NEW text \in Plain, NEW break \in {"<br>", "\n"}
    PROVE  /\ Replies!Lines(text, break) \in Seq(Pieces) /\ Replies!Lines(text, break) # <<>>
           /\ ~Replies!Has(Replies!End, Replies!Lines(text, break))
<1> PICK html : html = Replies!Lines(text, break)
  OBVIOUS
<1>1. text \in Seq(Seq(Words)) /\ text # <<>> /\ Len(text) \in Nat /\ DOMAIN text = 1..Len(text)
  BY DEF Plain
<1>2. \A i \in 1..Len(text) : text[i] \in Seq(Words) /\ text[i] \in Pieces
  BY <1>1, PlainIsText
<1>3. html = [i \in 1..Len(text) |-> IF i = 1 THEN text[i] ELSE <<break>> \o text[i]]
  BY <1>1 DEF Replies!Lines
<1>4. \A i \in 1..Len(text) :
          <<break>> \o text[i] \in Pieces /\ (<<break>> \o text[i])[1] = break
  <2>2. break \in Tokens
    BY DEF Tokens
  <2>1. <<break>> \in Seq(Tokens)
    BY <2>2
  <2> QED BY <1>2, <2>1 DEF Pieces
<1>5. \A i \in 1..Len(text) : html[i] \in Pieces
  BY <1>2, <1>3, <1>4
<1>6. html \in Seq(Pieces) /\ Len(html) = Len(text)
  <2>1. PICK k \in Nat : k = Len(text)
    BY <1>1
  <2>2. DOMAIN html = 1..k /\ html = [i \in 1..k |-> html[i]]
    BY <1>3, <2>1
  <2>3. \A i \in 1..k : html[i] \in Pieces
    BY <1>5, <2>1
  <2> QED BY <2>1, <2>2, <2>3
<1>7. \A i \in 1..Len(text) : html[i] # <<"</mx-reply>">>
  <2> SUFFICES ASSUME NEW i \in 1..Len(text), html[i] = <<"</mx-reply>">> PROVE FALSE
    OBVIOUS
  <2>1. CASE i = 1
    <3>1. text[1] = <<"</mx-reply>">> /\ text[1] \in Seq(Words)
      BY <1>2, <1>3, <2>1
    <3>2. text[1][1] = "</mx-reply>" /\ 1 \in DOMAIN text[1]
      BY <3>1
    <3>3. "</mx-reply>" \in Words
      BY <3>1, <3>2
    <3> QED BY <3>3 DEF Words
  <2>2. CASE i # 1
    <3>1. PICK line : line = <<break>> \o text[i]
      OBVIOUS
    <3>2. line[1] = break /\ line = <<"</mx-reply>">>
      BY <1>3, <1>4, <2>2, <3>1
    <3>3. line[1] = "</mx-reply>"
      BY <3>2
    <3> QED BY <3>2, <3>3
  <2> QED BY <2>1, <2>2
<1>9. Len(text) # 0
  BY <1>1
<1>8. DOMAIN html = 1..Len(text) /\ html # <<>>
  <2>1. DOMAIN html = 1..Len(text)
    BY <1>3
  <2>2. Len(html) # 0
    BY <1>6, <1>9
  <2>3. html # <<>>
    BY <2>2
  <2> QED BY <2>1, <2>3
<1> QED BY <1>6, <1>7, <1>8 DEF Replies!Has, Replies!End

LEMMA HtmlPlain ==
    ASSUME NEW text \in Plain, NEW html \in {Replies!HtmlOf(text), Replies!Encoded(text)}
    PROVE  html \in Seq(Pieces) /\ html # <<>> /\ ~Replies!Has(Replies!End, html)
BY LinesPlain DEF Replies!HtmlOf, Replies!Encoded

\* The lines before the first that quotes nothing.
LEMMA QuotesEnd ==
    ASSUME NEW body \in Seq(Pieces)
    PROVE  Replies!QuotedLines(body) \in 0..Len(body)
<1> DEFINE others == {i \in DOMAIN body : ~Replies!IsQuote(body[i])}
<1>1. Len(body) \in Nat /\ others \subseteq 1..Len(body)
  OBVIOUS
<1>2. CASE others = {}
  BY <1>1, <1>2 DEF Replies!QuotedLines
<1>3. CASE others # {}
  <2>1. \E i \in others : \A j \in others : i <= j
    <3>1. others \subseteq Nat
      BY <1>1
    <3> HIDE DEF others
    <3> QED BY <1>3, <3>1, Least
  <2>2. PICK k : k = CHOOSE i \in others : \A j \in others : i <= j
    OBVIOUS
  <2>3. k \in others
    <3> HIDE DEF others
    <3> QED BY <2>1, <2>2
  <2>4. Replies!QuotedLines(body) = k - 1
    BY <1>3, <2>2 DEF Replies!QuotedLines
  <2> QED BY <1>1, <2>3, <2>4
<1> QED BY <1>2, <1>3

LEMMA QuotesAre ==
    ASSUME NEW body \in Seq(Pieces), NEW q \in Nat, q < Len(body),
           \A i \in 1..q : Replies!IsQuote(body[i]), ~Replies!IsQuote(body[q + 1])
    PROVE  Replies!QuotedLines(body) = q
<1> DEFINE others == {i \in DOMAIN body : ~Replies!IsQuote(body[i])}
<1>1. Len(body) \in Nat /\ DOMAIN body = 1..Len(body)
  OBVIOUS
<1>2. q + 1 \in others /\ others # {}
  BY <1>1
<1>3. \A j \in others : q + 1 <= j
  BY <1>1
<1>4. others \subseteq Nat
  BY <1>1
<1>5. (CHOOSE i \in others : \A j \in others : i <= j) = q + 1
  <2> HIDE DEF others
  <2>1. PICK k : k = CHOOSE i \in others : \A j \in others : i <= j
    OBVIOUS
  <2>2. k \in others /\ \A j \in others : k <= j
    BY <1>2, <1>3, <2>1
  <2>3. k <= q + 1 /\ q + 1 <= k /\ k \in Nat
    BY <1>2, <1>3, <1>4, <2>2
  <2> QED BY <2>1, <2>3
<1> QED BY <1>2, <1>5 DEF Replies!QuotedLines

LEMMA RealPlain ==
    ASSUME NEW body \in Plain
    PROVE  Replies!RealText(body) \in Plain
<1>1. PICK q, n : q = Replies!QuotedLines(body) /\ n = Len(body)
  OBVIOUS
<1>2. body \in Seq(Seq(Words)) /\ n \in Nat /\ body \in Seq(Pieces)
  BY <1>1, PlainIsText DEF Plain
<1>3. q \in 0..n
  BY <1>1, <1>2, QuotesEnd
<1>4. Replies!RealText(body) = IF q = n THEN body
                               ELSE IF q + 1 = n THEN << <<>> >>
                               ELSE SubSeq(body, q + 2, n)
  BY <1>1 DEF Replies!RealText, Replies!Separator
<1>5. CASE q # n /\ q + 1 # n
  <2>1. PICK m : m = q + 2
    OBVIOUS
  <2>2. m \in Nat \ {0} /\ m <= n /\ m <= n + 1
    BY <1>2, <1>3, <1>5, <2>1
  <2>3. n <= Len(body)
    BY <1>1, <1>2
  <2>4. SubSeq(body, m, n) \in Seq(Seq(Words)) /\ SubSeq(body, m, n) # <<>>
    BY <1>2, <2>2, <2>3, Part
  <2> QED BY <1>4, <1>5, <2>1, <2>4 DEF Plain
<1>6. << <<>> >> \in Seq(Seq(Words)) \ {<<>>}
  <2>1. <<>> \in Seq(Words)
    OBVIOUS
  <2> QED BY <2>1
<1> QED BY <1>4, <1>5, <1>6 DEF Plain

\* A line that starts with a token.
LEMMA QuotedLine ==
    ASSUME NEW x \in Tokens, NEW line \in Pieces
    PROVE  /\ <<x>> \o line \in Pieces /\ <<x>> \o line # <<>>
           /\ Head(<<x>> \o line) = x /\ Tail(<<x>> \o line) = line
<1>1. line \in Seq(Tokens)
  BY DEF Pieces
<1> QED BY <1>1, Prefixed DEF Pieces

\* The lines of a reply: what it quotes, an empty one, its text.
LEMMA ReplyLines ==
    ASSUME NEW quote \in Seq(Pieces), NEW k \in Nat \ {0}, Len(quote) = k, NEW text \in Plain
    PROVE  LET body == quote \o << <<>> >> \o text IN
           /\ body \in Seq(Pieces) \ {<<>>} /\ Len(body) = k + 1 + Len(text)
           /\ \A i \in 1..k : body[i] = quote[i]
           /\ body[k + 1] = <<>>
           /\ \A i \in 1..Len(text) : body[k + 1 + i] = text[i]
<1>1. text \in Seq(Pieces) /\ Len(text) \in Nat
  BY PlainIsText
<1>2. PICK gap : gap = << <<>> >>
  OBVIOUS
<1>3. gap \in Seq(Pieces) /\ Len(gap) = 1 /\ gap[1] = <<>>
  <2>1. <<>> \in Pieces
    BY DEF Pieces
  <2> QED BY <1>2, <2>1
<1>4. PICK half : half = quote \o gap
  OBVIOUS
<1>5. half \in Seq(Pieces) /\ Len(half) = k + 1
  <2>1. half \in Seq(Pieces) /\ Len(half) = Len(quote) + Len(gap)
    BY <1>3, <1>4, Concat
  <2> QED BY <1>3, <2>1
<1>6. \A i \in 1..k : half[i] = quote[i]
  BY <1>3, <1>4, ConcatFirst
<1>7. half[k + 1] = <<>>
  <2>1. gap \in Seq(Pieces) /\ 1 \in 1..Len(gap)
    BY <1>3
  <2>2. half[Len(quote) + 1] = gap[1]
    BY <1>4, <2>1, ConcatRest
  <2> QED BY <1>3, <2>2
<1>8. PICK body : body = half \o text
  OBVIOUS
<1>16. half \in Seq(Pieces) /\ text \in Seq(Pieces)
  BY <1>1, <1>5
<1>17. body \in Seq(Pieces) /\ Len(body) = Len(half) + Len(text)
  BY <1>8, <1>16, Concat
<1>9. \A i \in 1..Len(half) : body[i] = half[i]
  BY <1>8, <1>16, ConcatFirst
<1>10. \A i \in 1..Len(text) : body[Len(half) + i] = text[i]
  <2>1. \A i \in 1..Len(text) : (half \o text)[Len(half) + i] = text[i]
    BY <1>16, ConcatRest
  <2> QED BY <1>8, <2>1
<1>11. \A i \in 1..Len(text) : body[k + 1 + i] = text[i]
  BY <1>5, <1>10
<1>12. Len(body) = k + 1 + Len(text) /\ body # <<>>
  <2>1. Len(body) = k + 1 + Len(text)
    BY <1>5, <1>17
  <2>2. Len(body) # 0
    BY <1>1, <2>1
  <2> QED BY <2>1, <2>2
<1>13. \A i \in 1..(k + 1) : body[i] = half[i]
  BY <1>5, <1>9
<1>14. \A i \in 1..k : body[i] = quote[i]
  <2>1. \A i \in 1..k : i \in 1..(k + 1)
    OBVIOUS
  <2> QED BY <1>6, <1>13, <2>1
<1>15. body[k + 1] = <<>>
  <2>1. k + 1 \in 1..(k + 1)
    OBVIOUS
  <2> QED BY <1>7, <1>13, <2>1
<1> QED BY <1>2, <1>4, <1>8, <1>11, <1>12, <1>14, <1>15, <1>17

\* The lines of a fallback, and of a reply.
Signed(b, sender)  == [i \in DOMAIN b |-> IF i = 1 THEN <<sender>> \o b[1] ELSE b[i]]
Quoting(b, sender) == [i \in DOMAIN b |-> <<"> ">> \o Signed(b, sender)[i]]
LinesOf(quote, text) == quote \o << <<>> >> \o text

LEMMA FallbackLines ==
    ASSUME NEW b \in Seq(Pieces) \ {<<>>}, NEW sender \in Senders
    PROVE  /\ Quoting(b, sender) \in Seq(Pieces) /\ Len(Quoting(b, sender)) = Len(b)
           /\ Len(b) \in Nat \ {0}
           /\ \A i \in 1..Len(b) : /\ Replies!IsQuote(Quoting(b, sender)[i])
                                   /\ Tail(Quoting(b, sender)[i]) = Signed(b, sender)[i]
           /\ Quoting(b, sender)[1] = <<"> ">> \o (<<sender>> \o b[1])
           /\ Signed(b, sender) = [b EXCEPT ![1] = <<sender>> \o @]
           /\ DOMAIN Signed(b, sender) = 1..Len(b)
<1>1. sender \in Tokens /\ "> " \in Tokens
  BY DEF Tokens
<1>2. PICK k, head, first : k = Len(b) /\ head = <<sender>> \o b[1] /\ first = b[1]
  OBVIOUS
<1>3. k \in Nat \ {0} /\ DOMAIN b = 1..k
  BY <1>2
<1>4. \A i \in 1..k : b[i] \in Pieces
  BY <1>3
<1>5. 1 \in 1..k /\ first \in Pieces
  BY <1>2, <1>3, <1>4
<1>6. head \in Pieces
  BY <1>1, <1>2, <1>5, QuotedLine
<1>7. PICK signed, quote : signed = Signed(b, sender) /\ quote = Quoting(b, sender)
  OBVIOUS
<1>8. signed = [i \in 1..k |-> IF i = 1 THEN head ELSE b[i]]
  BY <1>2, <1>3, <1>7 DEF Signed
<1>9. \A i \in 1..k : signed[i] \in Pieces
  BY <1>4, <1>6, <1>8
<1>10. quote = [i \in 1..k |-> <<"> ">> \o signed[i]]
  BY <1>3, <1>7 DEF Quoting
<1>11. ASSUME NEW i \in 1..k
       PROVE  quote[i] \in Pieces /\ Replies!IsQuote(quote[i]) /\ Tail(quote[i]) = signed[i]
  <2>1. quote[i] = <<"> ">> \o signed[i]
    BY <1>10
  <2>2. signed[i] \in Pieces
    BY <1>9
  <2>3. /\ quote[i] \in Pieces /\ quote[i] # <<>> /\ Head(quote[i]) = "> "
        /\ Tail(quote[i]) = signed[i]
    BY <1>1, <2>1, <2>2, QuotedLine
  <2> QED BY <2>3 DEF Replies!IsQuote, Replies!QuoteMark
<1>12. quote \in Seq(Pieces) /\ Len(quote) = k
  <2>1. \A i \in 1..k : quote[i] \in Pieces
    BY <1>11
  <2>2. DOMAIN quote = 1..k /\ quote = [i \in 1..k |-> quote[i]]
    BY <1>10
  <2> QED BY <1>3, <2>1, <2>2
<1>13. quote[1] = <<"> ">> \o (<<sender>> \o b[1])
  BY <1>2, <1>5, <1>8, <1>10
<1>14. signed = [b EXCEPT ![1] = <<sender>> \o @]
  BY <1>2, <1>3, <1>5, <1>8
<1>15. DOMAIN signed = 1..k
  BY <1>8
<1> QED BY <1>2, <1>3, <1>7, <1>11, <1>12, <1>13, <1>14, <1>15

\* What the preprocessor makes of such lines.
LEMMA LinesAreRead ==
    ASSUME NEW quote \in Seq(Pieces), NEW k \in Nat \ {0}, Len(quote) = k, NEW text \in Plain,
           \A i \in 1..k : Replies!IsQuote(quote[i])
    PROVE  /\ LinesOf(quote, text) \in Seq(Pieces) \ {<<>>}
           /\ Replies!QuotedLines(LinesOf(quote, text)) = k
           /\ Replies!RealText(LinesOf(quote, text)) = text
           /\ Replies!QuotedText(LinesOf(quote, text)) = [i \in 1..k |-> Tail(quote[i])]
           /\ LinesOf(quote, text)[1] = quote[1]
<1>1. PICK body : body = LinesOf(quote, text)
  OBVIOUS
<1>2. body = quote \o << <<>> >> \o text
  BY <1>1 DEF LinesOf
<1> DEFINE lines == quote \o << <<>> >> \o text
<1>0. /\ lines \in Seq(Pieces) \ {<<>>} /\ Len(lines) = k + 1 + Len(text)
      /\ \A i \in 1..k : lines[i] = quote[i]
      /\ lines[k + 1] = <<>>
      /\ \A i \in 1..Len(text) : lines[k + 1 + i] = text[i]
  BY ReplyLines
<1>12. body = lines
  BY <1>2
<1> HIDE DEF lines
<1>3. body \in Seq(Pieces) \ {<<>>} /\ Len(body) = k + 1 + Len(text)
  BY <1>0, <1>12
<1>4. \A i \in 1..k : body[i] = quote[i]
  BY <1>0, <1>12
<1>5. body[k + 1] = <<>>
  BY <1>0, <1>12
<1>6. \A i \in 1..Len(text) : body[k + 1 + i] = text[i]
  BY <1>0, <1>12
<1>7. text \in Seq(Pieces) /\ Len(text) \in Nat \ {0}
  BY PlainIsText
<1>8. Replies!QuotedLines(body) = k
  <2>1. \A i \in 1..k : Replies!IsQuote(body[i])
    BY <1>4
  <2>2. ~Replies!IsQuote(body[k + 1])
    BY <1>5 DEF Replies!IsQuote
  <2>3. k < Len(body) /\ k \in Nat /\ body \in Seq(Pieces)
    BY <1>3, <1>7
  <2> QED BY <2>1, <2>2, <2>3, QuotesAre
<1>9. Replies!RealText(body) = text
  <2>1. PICK m, n : m = k + 2 /\ n = Len(body)
    OBVIOUS
  <2>2. /\ m \in Nat \ {0} /\ n \in Nat /\ m <= n + 1 /\ n <= Len(body)
        /\ n - m + 1 = Len(text) /\ k # n /\ k + 1 # n
    BY <1>3, <1>7, <2>1
  <2>3. Replies!RealText(body) = SubSeq(body, m, n)
    BY <1>8, <2>1, <2>2 DEF Replies!RealText
  <2>4. PICK rest : rest = SubSeq(body, m, n)
    OBVIOUS
  <2>5. body \in Seq(Pieces)
    BY <1>3
  <2>6. rest \in Seq(Pieces) /\ Len(rest) = Len(text)
    BY <2>2, <2>4, <2>5, Part
  <2>7. \A i \in 1..(n - m + 1) : rest[i] = body[m + i - 1]
    BY <2>2, <2>4, <2>5, Part
  <2>8. ASSUME NEW i \in 1..Len(text) PROVE rest[i] = text[i]
    <3>1. i \in 1..(n - m + 1) /\ m + i - 1 = k + 1 + i
      BY <1>7, <2>1, <2>2
    <3>2. rest[i] = body[k + 1 + i]
      BY <2>7, <3>1
    <3> QED BY <1>6, <3>2
  <2>9. \A i \in 1..Len(text) : rest[i] = text[i]
    BY <2>8
  <2>10. rest = text
    BY <1>7, <2>6, <2>9, SameSeq
  <2> QED BY <2>3, <2>4, <2>10
<1>10. Replies!QuotedText(body) = [i \in 1..k |-> Tail(quote[i])]
  BY <1>4, <1>8 DEF Replies!QuotedText
<1>11. body[1] = quote[1]
  <2>1. 1 \in 1..k
    OBVIOUS
  <2> QED BY <1>4, <2>1
<1> QED BY <1>1, <1>3, <1>8, <1>9, <1>10, <1>11

\* The first line of a fallback names one user.
LEMMA OneIsNamed ==
    ASSUME NEW first \in Seq(Words), NEW sender \in Senders
    PROVE  LET line == <<"> ">> \o (<<sender>> \o first)
           IN /\ {i \in DOMAIN line : line[i] \in Senders} = {2}
              /\ line \in Seq(Tokens) /\ Len(line) = Len(first) + 2 /\ DOMAIN line = 1..(Len(first) + 2)
              /\ line[2] = sender /\ \A i \in 1..Len(first) : line[i + 2] = first[i]
<1>1. PICK n, head : n = Len(first) /\ head = <<sender>> \o first
  OBVIOUS
<1>2. PICK line : line = <<"> ">> \o head
  OBVIOUS
<1>3. n \in Nat
  BY <1>1
<1>4. \A i \in 1..n : first[i] \in Words
  BY <1>1
<1>5. first \in Seq(Tokens) /\ sender \in Tokens /\ "> " \in Tokens
  <2>1. first \in Seq(Tokens)
    BY PlainIsText DEF Pieces
  <2> QED BY <2>1 DEF Tokens
<1>6. head \in Seq(Tokens) /\ Len(head) = n + 1 /\ head[1] = sender
  <2>1. /\ <<sender>> \o first \in Seq(Tokens) /\ Len(<<sender>> \o first) = Len(first) + 1
        /\ (<<sender>> \o first)[1] = sender
    BY <1>5, PrefixedFirst
  <2> QED BY <1>1, <2>1
<1>7. \A i \in 1..n : head[i + 1] = first[i]
  <2>1. \A i \in 1..Len(first) : (<<sender>> \o first)[i + 1] = first[i]
    BY <1>5, PrefixedRest
  <2> QED BY <1>1, <2>1
<1>8. line[1] = "> " /\ DOMAIN line = 1..(Len(head) + 1)
  <2>1. (<<"> ">> \o head)[1] = "> " /\ DOMAIN (<<"> ">> \o head) = 1..(Len(head) + 1)
    BY <1>5, <1>6, PrefixedFirst
  <2> QED BY <1>2, <2>1
<1>9. \A i \in 1..Len(head) : line[i + 1] = head[i]
  <2>1. \A i \in 1..Len(head) : (<<"> ">> \o head)[i + 1] = head[i]
    <3>1. "> " \in Tokens /\ head \in Seq(Tokens)
      BY <1>5, <1>6
    <3> QED BY <3>1, PrefixedRest
  <2> QED BY <1>2, <2>1
<1>10. DOMAIN line = 1..(n + 2)
  <2>1. Len(head) + 1 = n + 2
    BY <1>3, <1>6
  <2> QED BY <1>8, <2>1
<1>11. line[2] = sender
  <2>1. 1 \in 1..Len(head) /\ 1 + 1 = 2
    BY <1>3, <1>6
  <2> QED BY <1>6, <1>9, <2>1
<1>12. "> " \notin Senders
  BY RepliesAssumption
<1>13. ASSUME NEW i \in 1..(n + 2) PROVE line[i] \in Senders <=> i = 2
  <2>1. CASE i = 1
    <3>1. line[i] = "> "
      BY <1>8, <2>1
    <3>2. i # 2
      BY <2>1
    <3> QED BY <1>12, <3>1, <3>2
  <2>2. CASE i = 2
    BY <1>11, <2>2
  <2>3. CASE i # 1 /\ i # 2
    <3>1. PICK j : j = i - 2
      OBVIOUS
    <3>2. j \in 1..n /\ j + 1 \in 1..(n + 1) /\ i = (j + 1) + 1
      BY <1>3, <2>3, <3>1
    <3>3. line[i] = head[j + 1]
      <4>1. j + 1 \in 1..Len(head)
        BY <1>6, <3>2
      <4> QED BY <1>9, <3>2, <4>1
    <3>4. head[j + 1] = first[j] /\ first[j] \in Words
      BY <1>4, <1>7, <3>2
    <3>5. first[j] \notin Senders
      BY <3>4 DEF Words
    <3> QED BY <2>3, <3>3, <3>4, <3>5
  <2> QED BY <2>1, <2>2, <2>3
<1>14. 2 \in 1..(n + 2)
  BY <1>3
<1>15. {i \in DOMAIN line : line[i] \in Senders} = {2}
  BY <1>10, <1>13, <1>14
<1>16. line \in Seq(Tokens) /\ Len(line) = n + 2
  <2>1. "> " \in Tokens /\ head \in Seq(Tokens)
    BY <1>5, <1>6
  <2>2. <<"> ">> \o head \in Seq(Tokens) /\ Len(<<"> ">> \o head) = Len(head) + 1
    BY <2>1, PrefixedFirst
  <2>3. line \in Seq(Tokens) /\ Len(line) = Len(head) + 1
    BY <1>2, <2>2
  <2>4. Len(head) + 1 = n + 2
    BY <1>3, <1>6
  <2> QED BY <2>3, <2>4
<1>17. ASSUME NEW i \in 1..n PROVE line[i + 2] = first[i]
  <2>1. i + 1 \in 1..Len(head) /\ (i + 1) + 1 = i + 2
    BY <1>3, <1>6
  <2>2. line[(i + 1) + 1] = head[i + 1]
    BY <1>9, <2>1
  <2> QED BY <1>7, <2>1, <2>2
<1>18. \A i \in 1..Len(first) : line[i + 2] = first[i]
  BY <1>1, <1>17
<1>19. Len(line) = Len(first) + 2 /\ DOMAIN line = 1..(Len(first) + 2)
  BY <1>1, <1>10, <1>16
<1>20. <<"> ">> \o (<<sender>> \o first) = line
  BY <1>1, <1>2
<1> QED BY <1>11, <1>15, <1>16, <1>18, <1>19, <1>20

LEMMA Greatest ==
    ASSUME NEW n \in Nat, NEW T, T \subseteq 1..n, T # {}
    PROVE  \E x \in T : \A y \in T : y <= x
<1>1. PICK U : U = {k \in Nat : n - k \in T}
  OBVIOUS
<1>2. ASSUME NEW t \in T PROVE n - t \in U
  <2>1. t \in 1..n
    OBVIOUS
  <2>2. n - t \in Nat /\ n - (n - t) = t
    BY <2>1
  <2> QED BY <1>1, <2>2
<1>3. U \subseteq Nat /\ U # {}
  BY <1>1, <1>2
<1>4. PICK k \in U : \A j \in U : k <= j
  BY <1>3, Least
<1>5. k \in Nat /\ n - k \in T
  BY <1>1
<1>6. ASSUME NEW t \in T PROVE t <= n - k
  <2>1. t \in 1..n /\ k <= n - t
    BY <1>2, <1>4
  <2> QED BY <1>5, <2>1
<1> QED BY <1>5, <1>6

\* What is said of the sender of an event whose text begins with first
SenderTold(got, sender, first) ==
    got # <<>> /\ Head(got) = sender /\ (~Replies!HasAngle(first) => got = <<sender>>)

\* What a line that begins with a user gives up to the last >, its kth token.
LEMMA UpToTheLast ==
    ASSUME NEW n \in Nat, NEW sender \in Senders, NEW line \in Seq(Tokens), Len(line) = n + 2,
           line[2] = sender, NEW k \in 2..(n + 2)
    PROVE  LET t == SubSeq(line, 2, k)
           IN t # <<>> /\ Head(t) = sender /\ (k = 2 => t = <<sender>>)
<1>1. PICK t : t = SubSeq(line, 2, k)
  OBVIOUS
<1>2. /\ t \in Seq(Tokens) /\ Len(t) = k - 2 + 1 /\ t # <<>>
      /\ \A i \in 1..(k - 2 + 1) : t[i] = line[2 + i - 1]
  <2>1. k \in Nat /\ 2 \in Nat \ {0} /\ 2 <= k + 1 /\ k <= Len(line) /\ 2 <= k
    OBVIOUS
  <2>2. /\ SubSeq(line, 2, k) \in Seq(Tokens) /\ Len(SubSeq(line, 2, k)) = k - 2 + 1
        /\ \A i \in 1..(k - 2 + 1) : SubSeq(line, 2, k)[i] = line[2 + i - 1]
        /\ 2 <= k => SubSeq(line, 2, k) # <<>>
    BY <2>1, Part
  <2> QED BY <1>1, <2>1, <2>2
<1>3. t[1] = sender
  <2>1. 1 \in 1..(k - 2 + 1) /\ 2 + 1 - 1 = 2
    OBVIOUS
  <2>2. t[1] = line[2 + 1 - 1]
    BY <1>2, <2>1
  <2> QED BY <2>1, <2>2
<1>4. Head(t) = sender
  BY <1>2, <1>3
<1>5. ASSUME k = 2 PROVE t = <<sender>>
  <2>1. Len(t) = 1
    BY <1>2, <1>5
  <2>2. sender \in Tokens
    BY DEF Tokens
  <2>3. <<sender>> \in Seq(Tokens) /\ Len(<<sender>>) = 1 /\ <<sender>>[1] = sender
    BY <2>2
  <2>4. \A i \in 1..Len(<<sender>>) : t[i] = <<sender>>[i]
    BY <1>3, <2>3
  <2> QED BY <1>2, <2>1, <2>3, <2>4, SameSeq
<1> QED BY <1>1, <1>2, <1>4, <1>5

\* Where the last > is: at the user or behind it.
LEMMA LastAngle ==
    ASSUME NEW n \in Nat, NEW line, DOMAIN line = 1..(n + 2), line[2] \in Senders
    PROVE  LET angles == {i \in DOMAIN line : line[i] \in Replies!Angles}
               k == CHOOSE i \in angles : \A j \in angles : j <= i
           IN k \in 2..(n + 2) /\ line[k] \in Replies!Angles
<1>1. PICK angles : angles = {i \in DOMAIN line : line[i] \in Replies!Angles}
  OBVIOUS
<1>2. 2 \in 1..(n + 2) /\ n + 2 \in Nat
  OBVIOUS
<1>3. line[2] \in Replies!Angles
  BY DEF Replies!Angles
<1>4. angles \subseteq 1..(n + 2) /\ 2 \in angles
  BY <1>1, <1>2, <1>3
<1>5. \E x \in angles : \A y \in angles : y <= x
  <2>1. angles # {}
    BY <1>4
  <2> QED BY <1>2, <1>4, <2>1, Greatest
<1>6. PICK k : k = CHOOSE i \in angles : \A j \in angles : j <= i
  OBVIOUS
<1>7. k \in angles /\ \A j \in angles : j <= k
  BY <1>5, <1>6
<1>8. k \in 1..(n + 2) /\ 2 <= k /\ line[k] \in Replies!Angles
  BY <1>1, <1>4, <1>7
<1>9. k \in 2..(n + 2)
  BY <1>8
<1> QED BY <1>1, <1>6, <1>8, <1>9

\* A line that begins with a user and has no > behind it ends there.
LEMMA AngleIsSender ==
    ASSUME NEW n \in Nat, NEW first, DOMAIN first = 1..n, ~Replies!HasAngle(first), NEW line,
           \A i \in 1..n : line[i + 2] = first[i], NEW k \in 2..(n + 2), line[k] \in Replies!Angles
    PROVE  k = 2
<1>1. \A i \in 1..n : first[i] \notin Replies!Angles
  BY DEF Replies!HasAngle
<1>2. SUFFICES ASSUME k # 2 PROVE FALSE
  OBVIOUS
<1>3. PICK j : j = k - 2
  OBVIOUS
<1>4. j \in 1..n /\ j + 2 = k
  BY <1>2, <1>3
<1>5. line[j + 2] = first[j]
  BY <1>4
<1> QED BY <1>1, <1>4, <1>5

\* The text of a reply is read back, and what it quotes.
LEMMA TextIsRead ==
    ASSUME NEW v, v.sender \in Senders, v.body \in Seq(Pieces) \ {<<>>}, NEW text \in Plain
    PROVE  /\ Replies!ReplyBody(v, text) \in Seq(Pieces) \ {<<>>}
           /\ Replies!RealText(Replies!ReplyBody(v, text)) = text
           /\ Replies!QuotedText(Replies!ReplyBody(v, text)) = [v.body EXCEPT ![1] = <<v.sender>> \o @]
           /\ v.body \in Plain =>
                  SenderTold(Replies!FallbackSender(Replies!ReplyBody(v, text)), v.sender, v.body[1])
<1>1. PICK b, sender : b = v.body /\ sender = v.sender
  OBVIOUS
<1>2. b \in Seq(Pieces) \ {<<>>} /\ sender \in Senders
  BY <1>1
<1>3. PICK quote, signed, k : quote = Quoting(b, sender) /\ signed = Signed(b, sender) /\ k = Len(b)
  OBVIOUS
<1>4. quote \in Seq(Pieces) /\ Len(quote) = k /\ k \in Nat \ {0}
  BY <1>2, <1>3, FallbackLines
<1>5. \A i \in 1..k : Replies!IsQuote(quote[i]) /\ Tail(quote[i]) = signed[i]
  <2>1. \A i \in 1..Len(b) : /\ Replies!IsQuote(Quoting(b, sender)[i])
                            /\ Tail(Quoting(b, sender)[i]) = Signed(b, sender)[i]
    BY <1>2, FallbackLines
  <2> QED BY <1>3, <2>1
<1>6. /\ quote[1] = <<"> ">> \o (<<sender>> \o b[1])
      /\ signed = [b EXCEPT ![1] = <<sender>> \o @] /\ DOMAIN signed = 1..k
  BY <1>2, <1>3, FallbackLines
<1>7. PICK body : body = Replies!ReplyBody(v, text)
  OBVIOUS
<1>8. body = LinesOf(quote, text)
  <2>1. Replies!FallbackText(v) = [i \in DOMAIN signed |-> <<"> ">> \o signed[i]]
    BY <1>1, <1>6 DEF Replies!FallbackText, Replies!QuoteMark
  <2>2. DOMAIN signed = DOMAIN b
    BY <1>3 DEF Signed
  <2>3. Replies!FallbackText(v) = quote
    BY <1>3, <2>1, <2>2 DEF Quoting
  <2> QED BY <1>7, <2>3 DEF Replies!ReplyBody, Replies!Separator, LinesOf
<1>9. /\ body \in Seq(Pieces) \ {<<>>} /\ Replies!QuotedLines(body) = k /\ Replies!RealText(body) = text
      /\ Replies!QuotedText(body) = [i \in 1..k |-> Tail(quote[i])] /\ body[1] = quote[1]
  BY <1>4, <1>5, <1>8, LinesAreRead
<1>10. Replies!QuotedText(body) = [b EXCEPT ![1] = <<sender>> \o @]
  <2>1. [i \in 1..k |-> Tail(quote[i])] = [i \in 1..k |-> signed[i]]
    BY <1>5
  <2>2. signed = [i \in 1..k |-> signed[i]]
    BY <1>3, <1>6 DEF Signed
  <2> QED BY <1>6, <1>9, <2>1, <2>2
<1>11. ASSUME b \in Plain PROVE SenderTold(Replies!FallbackSender(body), sender, b[1])
  <2>1. b[1] \in Seq(Words)
    <3>1. b \in Seq(Seq(Words)) /\ Len(b) \in Nat \ {0}
      BY <1>3, <1>4, <1>11 DEF Plain
    <3> QED BY <3>1
  <2>2. PICK line, first : line = body[1] /\ first = b[1]
    OBVIOUS
  <2>3. line = <<"> ">> \o (<<sender>> \o first) /\ first \in Seq(Words)
    BY <1>6, <1>9, <2>1, <2>2
  <2>4. /\ {i \in DOMAIN line : line[i] \in Senders} = {2}
        /\ line \in Seq(Tokens) /\ Len(line) = Len(first) + 2 /\ DOMAIN line = 1..(Len(first) + 2)
        /\ line[2] = sender /\ \A i \in 1..Len(first) : line[i + 2] = first[i]
    <3>1. first \in Seq(Words)
      BY <2>3
    <3>2. LET l == <<"> ">> \o (<<sender>> \o first)
          IN /\ {i \in DOMAIN l : l[i] \in Senders} = {2}
             /\ l \in Seq(Tokens) /\ Len(l) = Len(first) + 2 /\ DOMAIN l = 1..(Len(first) + 2)
             /\ l[2] = sender /\ \A i \in 1..Len(first) : l[i + 2] = first[i]
      BY <1>2, <3>1, OneIsNamed, Zenon
    <3>3. line = <<"> ">> \o (<<sender>> \o first)
      BY <2>3
    <3> QED BY <3>2, <3>3, Zenon
  <2>5. (CHOOSE i \in {2} : \A j \in {2} : i <= j) = 2
    OBVIOUS
  <2>6. Replies!QuotedLines(body) # 0
    BY <1>4, <1>9
  <2>7. PICK named, angles : /\ named = {i \in DOMAIN line : line[i] \in Senders}
                             /\ angles = {i \in DOMAIN line : line[i] \in Replies!Angles}
    OBVIOUS
  <2>8. Replies!FallbackSender(body) =
            (IF Replies!QuotedLines(body) = 0 \/ named = {} THEN <<>>
             ELSE SubSeq(line, CHOOSE i \in named : \A j \in named : i <= j,
                               CHOOSE i \in angles : \A j \in angles : j <= i))
    <3> DEFINE users == {i \in DOMAIN body[1] : body[1][i] \in Senders}
               ends  == {i \in DOMAIN body[1] : body[1][i] \in Replies!Angles}
    <3>1. users = named /\ ends = angles
      BY <2>2, <2>7
    <3>2. Replies!FallbackSender(body) =
              (IF Replies!QuotedLines(body) = 0 \/ users = {} THEN <<>>
               ELSE SubSeq(body[1], CHOOSE i \in users : \A j \in users : i <= j,
                                    CHOOSE i \in ends : \A j \in ends : j <= i))
      BY DEF Replies!FallbackSender, Replies!NoSender
    <3> HIDE DEF users, ends
    <3> QED BY <2>2, <3>1, <3>2
  <2>9. named = {2} /\ named # {}
    BY <2>4, <2>7
  <2>10. PICK last : last = CHOOSE i \in angles : \A j \in angles : j <= i
    OBVIOUS
  <2>11. Replies!FallbackSender(body) = SubSeq(line, CHOOSE i \in named : \A j \in named : i <= j, last)
    BY <2>6, <2>8, <2>9, <2>10
  <2>12. Replies!FallbackSender(body) = SubSeq(line, 2, last)
    BY <2>5, <2>9, <2>11
  <2>13. PICK n : n = Len(first)
    OBVIOUS
  <2>14. n \in Nat /\ DOMAIN first = 1..n
    <3>1. first \in Seq(Words)
      BY <2>3
    <3> QED BY <2>13, <3>1
  <2>15. /\ line \in Seq(Tokens) /\ Len(line) = n + 2 /\ DOMAIN line = 1..(n + 2)
         /\ line[2] = sender /\ \A i \in 1..n : line[i + 2] = first[i]
    BY <2>4, <2>13
  <2>16. last \in 2..(n + 2) /\ line[last] \in Replies!Angles
    <3>1. line[2] \in Senders
      BY <1>2, <2>15
    <3>2. LET ends == {i \in DOMAIN line : line[i] \in Replies!Angles}
              l == CHOOSE i \in ends : \A j \in ends : j <= i
          IN l \in 2..(n + 2) /\ line[l] \in Replies!Angles
      BY <2>14, <2>15, <3>1, LastAngle
    <3> QED BY <2>7, <2>10, <3>2
  <2>17. PICK t : t = SubSeq(line, 2, last)
    OBVIOUS
  <2>18. t # <<>> /\ Head(t) = sender /\ (last = 2 => t = <<sender>>)
    <3>1. LET u == SubSeq(line, 2, last)
          IN u # <<>> /\ Head(u) = sender /\ (last = 2 => u = <<sender>>)
      BY <1>2, <2>14, <2>15, <2>16, UpToTheLast
    <3> QED BY <2>17, <3>1
  <2>19. ~Replies!HasAngle(first) => last = 2
    BY <2>14, <2>15, <2>16, AngleIsSender
  <2>20. SenderTold(t, sender, first)
    BY <2>18, <2>19 DEF SenderTold
  <2> QED BY <2>2, <2>12, <2>17, <2>20
<1> QED BY <1>1, <1>7, <1>9, <1>10, <1>11

\* The first tag of a kind.
LEMMA FirstIs ==
    ASSUME NEW html \in Seq(Pieces), NEW tag, NEW p \in 1..Len(html), html[p] = tag,
           \A i \in 1..(p - 1) : html[i] # tag
    PROVE  Replies!First(tag, html) = p /\ Replies!Has(tag, html)
<1>1. DOMAIN html = 1..Len(html) /\ Len(html) \in Nat
  OBVIOUS
<1>2. PICK k : k = CHOOSE i \in 1..Len(html) : html[i] = tag /\ \A j \in 1..(i - 1) : html[j] # tag
  OBVIOUS
<1>3. k \in 1..Len(html) /\ html[k] = tag /\ \A j \in 1..(k - 1) : html[j] # tag
  BY <1>2
<1>4. ~(k < p) /\ ~(p < k)
  BY <1>3
<1>5. k = p
  BY <1>3, <1>4
<1> QED BY <1>1, <1>2, <1>5 DEF Replies!First, Replies!Has

LEMMA FirstThere ==
    ASSUME NEW html \in Seq(Pieces), NEW tag, Replies!Has(tag, html)
    PROVE  Replies!First(tag, html) \in 1..Len(html)
<1>1. PICK n : n = Len(html)
  OBVIOUS
<1>2. DOMAIN html = 1..n /\ n \in Nat
  BY <1>1
<1>3. PICK T : T = {i \in 1..n : html[i] = tag}
  OBVIOUS
<1>4. T \subseteq Nat /\ T # {}
  BY <1>2, <1>3 DEF Replies!Has
<1>5. PICK p \in T : \A i \in T : p <= i
  BY <1>4, Least
<1>6. p \in 1..n /\ html[p] = tag
  BY <1>3, <1>5
<1>7. ASSUME NEW i \in 1..(p - 1) PROVE html[i] # tag
  <2>1. i \in 1..n /\ ~(p <= i)
    BY <1>2, <1>6
  <2> QED BY <1>3, <1>5, <2>1
<1>8. \A i \in 1..(p - 1) : html[i] # tag
  BY <1>7
<1>9. p \in 1..Len(html)
  BY <1>1, <1>6
<1>10. Replies!First(tag, html) = p
  BY <1>6, <1>8, <1>9, FirstIs
<1> QED BY <1>9, <1>10

LEMMA RealIsHtml ==
    ASSUME NEW html \in Seq(Pieces), Replies!Has(Replies!End, html)
    PROVE  Replies!RealHtml(html) \in Seq(Pieces)
<1>1. PICK p, n, m, e : /\ p = Replies!First(Replies!End, html) /\ n = Len(html) /\ m = p + 1
                        /\ e = Replies!End
  OBVIOUS
<1>2. p \in 1..n /\ n \in Nat
  BY <1>1, FirstThere
<1>3. m \in Nat \ {0} /\ m <= n + 1 /\ n <= Len(html)
  BY <1>1, <1>2
<1>4. PICK rest : rest = SubSeq(html, m, n)
  OBVIOUS
<1>5. rest \in Seq(Pieces)
  BY <1>2, <1>3, <1>4, Part
<1>6. PICK k : k = Replies!First(e, rest) - 1
  OBVIOUS
<1>7. Replies!RealHtml(html) = IF Replies!Has(e, rest) THEN SubSeq(rest, 1, k) ELSE rest
  BY <1>1, <1>4, <1>6 DEF Replies!RealHtml
<1>8. ASSUME Replies!Has(e, rest) PROVE SubSeq(rest, 1, k) \in Seq(Pieces)
  <2>1. Replies!First(e, rest) \in 1..Len(rest) /\ Len(rest) \in Nat
    BY <1>5, <1>8, FirstThere
  <2>2. k \in Nat /\ 1 <= k + 1 /\ k <= Len(rest)
    BY <1>6, <2>1
  <2> QED BY <1>5, <2>2, Part
<1> QED BY <1>5, <1>7, <1>8

\* The pieces of a reply: the tags, what it quotes, the tags, its text.
PiecesOf(quoted, html) == Replies!Opening \o quoted \o Replies!Closing \o html

LEMMA TagsAre ==
    /\ Replies!Opening \in Seq(Pieces) /\ Len(Replies!Opening) = 3
    /\ Replies!Opening[1] = <<"<mx-reply>">> /\ Replies!Opening[2] = <<"<blockquote>">>
    /\ Replies!Opening[3] = Replies!Break
    /\ Replies!Closing \in Seq(Pieces) /\ Len(Replies!Closing) = 2
    /\ Replies!Closing[1] = Replies!Unquote /\ Replies!Closing[2] = Replies!End
    /\ Replies!End # <<"<mx-reply>">> /\ Replies!End # <<"<blockquote>">>
    /\ Replies!End # Replies!Break /\ Replies!End # Replies!Unquote
    /\ Replies!Break # <<"<mx-reply>">> /\ Replies!Break # <<"<blockquote>">>
    /\ Head(<<"<mx-reply>">>) # "\n" /\ Head(<<"<blockquote>">>) # "\n"
    /\ Head(Replies!Break) # "\n" /\ Head(Replies!Unquote) # "\n"
<1>1. \A x \in Tokens : <<x>> \in Pieces
  BY DEF Pieces
<1>2. \A x, y : <<x>> = <<y>> => x = y
  <2> TAKE x, y
  <2> HAVE <<x>> = <<y>>
  <2>1. <<x>>[1] = <<y>>[1]
    OBVIOUS
  <2> QED BY <2>1
<1>3. {"<mx-reply>", "</mx-reply>", "<blockquote>", "</blockquote>", "<br />"} \subseteq Tokens
  BY DEF Tokens
<1>4. PICK a, b, c, d, e : /\ a = <<"<mx-reply>">> /\ b = <<"<blockquote>">> /\ c = <<"<br />">>
                           /\ d = <<"</blockquote>">> /\ e = <<"</mx-reply>">>
  OBVIOUS
<1>5. {a, b, c, d, e} \subseteq Pieces
  BY <1>1, <1>3, <1>4
<1>6. e # a /\ e # b /\ e # c /\ e # d /\ c # a /\ c # b
  BY <1>2, <1>4
<1>8. Head(a) # "\n" /\ Head(b) # "\n" /\ Head(c) # "\n" /\ Head(d) # "\n"
  <2>1. \A x : Head(<<x>>) = x
    OBVIOUS
  <2>2. /\ Head(a) = "<mx-reply>" /\ Head(b) = "<blockquote>" /\ Head(c) = "<br />"
        /\ Head(d) = "</blockquote>"
    BY <1>4, <2>1
  <2> QED BY <2>2
<1>7. /\ <<a, b, c>> \in Seq(Pieces) /\ Len(<<a, b, c>>) = 3 /\ <<a, b, c>>[1] = a
      /\ <<a, b, c>>[2] = b /\ <<a, b, c>>[3] = c
      /\ <<d, e>> \in Seq(Pieces) /\ Len(<<d, e>>) = 2 /\ <<d, e>>[1] = d /\ <<d, e>>[2] = e
  BY <1>5
<1> QED BY <1>4, <1>6, <1>7, <1>8 DEF Replies!Opening, Replies!Closing, Replies!Break, Replies!Unquote, Replies!End

\* h has the tags, the pieces and the tags, and then the others.
Shaped(h, quoted, html, q) ==
    /\ h \in Seq(Pieces) /\ q \in Nat /\ Len(h) = q + 5 + Len(html)
    /\ \A i \in 1..3 : h[i] = Replies!Opening[i]
    /\ \A i \in 1..q : h[3 + i] = quoted[i]
    /\ h[q + 4] = Replies!Unquote
    /\ h[q + 5] = Replies!End
    /\ \A i \in 1..Len(html) : h[q + 5 + i] = html[i]

LEMMA PiecesAre ==
    ASSUME NEW quoted \in Seq(Pieces), NEW html \in Seq(Pieces), NEW q, q = Len(quoted)
    PROVE  Shaped(PiecesOf(quoted, html), quoted, html, q)
<1>1. PICK o, k : o = Replies!Opening /\ k = Replies!Closing
  OBVIOUS
<1>2. o \in Seq(Pieces) /\ Len(o) = 3
  BY <1>1, TagsAre
<1>3. k \in Seq(Pieces) /\ Len(k) = 2 /\ k[1] = Replies!Unquote /\ k[2] = Replies!End
  BY <1>1, TagsAre
<1>4. q \in Nat /\ Len(html) \in Nat
  OBVIOUS
<1>5. PICK left : left = o \o quoted
  OBVIOUS
<1>6. left \in Seq(Pieces) /\ Len(left) = Len(o) + Len(quoted)
  <2>1. o \in Seq(Pieces)
    BY <1>2
  <2>2. o \o quoted \in Seq(Pieces) /\ Len(o \o quoted) = Len(o) + Len(quoted)
    BY <2>1, ConcatLength
  <2> QED BY <1>5, <2>2
<1>7. \A i \in 1..Len(o) : left[i] = o[i]
  BY <1>2, <1>5, ConcatFirst
<1>8. \A i \in 1..Len(quoted) : left[Len(o) + i] = quoted[i]
  <2>1. \A i \in 1..Len(quoted) : (o \o quoted)[Len(o) + i] = quoted[i]
    <3>1. o \in Seq(Pieces)
      BY <1>2
    <3> QED BY <3>1, ConcatRest
  <2> QED BY <1>5, <2>1
<1>9. PICK mid : mid = left \o k
  OBVIOUS
<1>10. mid \in Seq(Pieces) /\ Len(mid) = Len(left) + Len(k)
  <2>1. left \in Seq(Pieces) /\ k \in Seq(Pieces)
    BY <1>3, <1>6
  <2>2. left \o k \in Seq(Pieces) /\ Len(left \o k) = Len(left) + Len(k)
    BY <2>1, ConcatLength
  <2> QED BY <1>9, <2>2
<1>11. \A i \in 1..Len(left) : mid[i] = left[i]
  BY <1>3, <1>6, <1>9, ConcatFirst
<1>12. \A i \in 1..Len(k) : mid[Len(left) + i] = k[i]
  <2>1. left \in Seq(Pieces) /\ k \in Seq(Pieces)
    BY <1>3, <1>6
  <2>2. \A i \in 1..Len(k) : (left \o k)[Len(left) + i] = k[i]
    BY <2>1, ConcatRest
  <2> QED BY <1>9, <2>2
<1>13. PICK all : all = mid \o html
  OBVIOUS
<1>14. all \in Seq(Pieces) /\ Len(all) = Len(mid) + Len(html)
  BY <1>10, <1>13, Concat
<1>15. \A i \in 1..Len(mid) : all[i] = mid[i]
  BY <1>10, <1>13, ConcatFirst
<1>16. \A i \in 1..Len(html) : all[Len(mid) + i] = html[i]
  <2>1. mid \in Seq(Pieces)
    BY <1>10
  <2>2. \A i \in 1..Len(html) : (mid \o html)[Len(mid) + i] = html[i]
    BY <2>1, ConcatRest
  <2> QED BY <1>13, <2>2
<1>17. Len(o) = 3 /\ Len(quoted) = q /\ Len(left) = q + 3 /\ Len(mid) = q + 5
       /\ Len(all) = q + 5 + Len(html)
  BY <1>2, <1>3, <1>4, <1>6, <1>10, <1>14
<1>18. ASSUME NEW i \in 1..3 PROVE all[i] = o[i]
  <2>1. i \in 1..Len(o) /\ i \in 1..Len(left) /\ i \in 1..Len(mid)
    BY <1>4, <1>17
  <2> QED BY <1>7, <1>11, <1>15, <2>1
<1>19. ASSUME NEW i \in 1..q PROVE all[3 + i] = quoted[i]
  <2>1. i \in 1..Len(quoted) /\ 3 + i \in 1..Len(left) /\ 3 + i \in 1..Len(mid)
    BY <1>4, <1>17
  <2>2. left[3 + i] = quoted[i]
    BY <1>8, <1>17, <2>1
  <2> QED BY <1>11, <1>15, <2>1, <2>2
<1>20. all[q + 4] = Replies!Unquote /\ all[q + 5] = Replies!End
  <2>1. /\ 1 \in 1..Len(k) /\ 2 \in 1..Len(k) /\ q + 4 \in 1..Len(mid) /\ q + 5 \in 1..Len(mid)
        /\ Len(left) + 1 = q + 4 /\ Len(left) + 2 = q + 5
    BY <1>3, <1>4, <1>17
  <2>2. mid[q + 4] = k[1] /\ mid[q + 5] = k[2]
    BY <1>12, <2>1
  <2> QED BY <1>3, <1>15, <2>1, <2>2
<1>21. \A i \in 1..Len(html) : all[q + 5 + i] = html[i]
  BY <1>16, <1>17
<1>22. all = PiecesOf(quoted, html)
  BY <1>1, <1>5, <1>9, <1>13 DEF PiecesOf
<1>23. \A i \in 1..3 : all[i] = Replies!Opening[i]
  BY <1>1, <1>18
<1>24. \A i \in 1..q : all[3 + i] = quoted[i]
  BY <1>19
<1>25. Shaped(all, quoted, html, q)
  BY <1>4, <1>14, <1>17, <1>20, <1>21, <1>23, <1>24 DEF Shaped
<1> QED BY <1>22, <1>25

\* The HTML of a reply is read back. What it quotes is, too, unless it is a reply
\* by itself.
LEMMA HtmlIsRead ==
    ASSUME NEW quoted \in Seq(Pieces), NEW html \in Seq(Pieces), ~Replies!Has(Replies!End, html)
    PROVE  LET h == PiecesOf(quoted, html) IN
           /\ Replies!LooksLikeReply(h) /\ Replies!Has(Replies!End, h) /\ h \in Seq(Pieces)
           /\ ~Replies!Has(Replies!End, quoted) =>
                  /\ Replies!RealHtml(h) = html
                  /\ Replies!HasQuotation(Replies!FallbackOf(h)) <=> Replies!OneLine(quoted)
                  /\ Replies!QuotationOf(Replies!FallbackOf(h)) = quoted
<1>1. PICK h, q, n, e : h = PiecesOf(quoted, html) /\ q = Len(quoted) /\ n = Len(html) /\ e = Replies!End
  OBVIOUS
<1>13. Shaped(h, quoted, html, q)
  BY <1>1, PiecesAre
<1>2. h \in Seq(Pieces) /\ q \in Nat /\ n \in Nat /\ Len(h) = q + 5 + n
  BY <1>1, <1>13 DEF Shaped
<1>3. \A i \in 1..3 : h[i] = Replies!Opening[i]
  BY <1>13 DEF Shaped
<1>4. \A i \in 1..q : h[3 + i] = quoted[i]
  BY <1>13 DEF Shaped
<1>5. h[q + 4] = Replies!Unquote /\ h[q + 5] = e
  BY <1>1, <1>13 DEF Shaped
<1>6. \A i \in 1..n : h[q + 5 + i] = html[i]
  BY <1>1, <1>13 DEF Shaped
<1>7. DOMAIN h = 1..(q + 5 + n) /\ q + 5 \in 1..(q + 5 + n)
  BY <1>2
<1>8. Replies!Has(e, h)
  BY <1>5, <1>7 DEF Replies!Has
<1>9. /\ h[1] = <<"<mx-reply>">> /\ h[2] = <<"<blockquote>">> /\ h[3] = Replies!Break
  BY <1>3, TagsAre
<1>10. h # <<>>
  BY <1>2
<1>11. Replies!LooksLikeReply(h)
  BY <1>1, <1>8, <1>9, <1>10 DEF Replies!LooksLikeReply, Replies!NoHtml
<1>12. ASSUME ~Replies!Has(e, quoted)
       PROVE  /\ Replies!RealHtml(h) = html
              /\ Replies!HasQuotation(Replies!FallbackOf(h)) <=> Replies!OneLine(quoted)
              /\ Replies!QuotationOf(Replies!FallbackOf(h)) = quoted
  <2>1. \A i \in 1..q : quoted[i] # e
    BY <1>1, <1>12 DEF Replies!Has
  <2>2. ASSUME NEW i \in 1..(q + 4) PROVE h[i] # e
    <3>1. CASE i \in 1..3
      <4>1. i = 1 \/ i = 2 \/ i = 3
        BY <3>1
      <4> QED BY <1>1, <1>9, <4>1, TagsAre
    <3>2. CASE i = q + 4
      BY <1>1, <1>5, <3>2, TagsAre
    <3>3. CASE i \notin 1..3 /\ i # q + 4
      <4>1. PICK j : j = i - 3
        OBVIOUS
      <4>2. j \in 1..q /\ i = 3 + j
        BY <1>2, <3>3, <4>1
      <4> QED BY <1>4, <2>1, <4>2
    <3> QED BY <3>1, <3>2, <3>3
  <2>3. PICK p : p = q + 5
    OBVIOUS
  <2>4. p \in 1..Len(h) /\ p - 1 = q + 4
    BY <1>2, <2>3
  <2>5. h[p] = e /\ \A i \in 1..(p - 1) : h[i] # e
    BY <1>5, <2>2, <2>3, <2>4
  <2>6. Replies!First(e, h) = p
    BY <1>2, <2>4, <2>5, FirstIs
  <2>7. Replies!RealHtml(h) = html
    <3>1. PICK m, l : m = p + 1 /\ l = Len(h)
      OBVIOUS
    <3>2. m \in Nat \ {0} /\ l \in Nat /\ m <= l + 1 /\ l <= Len(h) /\ l - m + 1 = n
      BY <1>2, <2>3, <3>1
    <3>3. PICK rest : rest = SubSeq(h, m, l)
      OBVIOUS
    <3>4. rest \in Seq(Pieces) /\ Len(rest) = n
      <4>1. h \in Seq(Pieces)
        BY <1>2
      <4>2. SubSeq(h, m, l) \in Seq(Pieces) /\ Len(SubSeq(h, m, l)) = l - m + 1
        BY <3>2, <4>1, PartLength
      <4> QED BY <3>2, <3>3, <4>2
    <3>5. \A i \in 1..(l - m + 1) : rest[i] = h[m + i - 1]
      BY <1>2, <3>2, <3>3, Part
    <3>6. ASSUME NEW i \in 1..n PROVE rest[i] = html[i]
      <4>1. i \in 1..(l - m + 1) /\ m + i - 1 = q + 5 + i
        BY <1>2, <2>3, <3>1, <3>2
      <4>2. rest[i] = h[q + 5 + i]
        BY <3>5, <4>1
      <4> QED BY <1>6, <4>2
    <3>7. \A i \in 1..Len(html) : rest[i] = html[i]
      BY <1>1, <3>6
    <3>8. rest = html
      BY <1>1, <3>4, <3>7, SameSeq
    <3>9. ~Replies!Has(e, rest)
      BY <1>1, <3>8
    <3> QED BY <1>1, <2>6, <3>1, <3>3, <3>8, <3>9 DEF Replies!RealHtml
  <2>8. PICK part2, k : part2 = Replies!FallbackOf(h) /\ k = q + 4
    OBVIOUS
  <2>9. k \in Nat /\ 1 <= k + 1 /\ k <= Len(h) /\ k - 1 + 1 = q + 4 /\ p - 1 = k
    BY <1>2, <2>3, <2>8
  <2>10. part2 = SubSeq(h, 1, k)
    BY <1>1, <2>6, <2>8, <2>9 DEF Replies!FallbackOf
  <2>11. part2 \in Seq(Pieces) /\ Len(part2) = q + 4
    BY <1>2, <2>9, <2>10, Part
  <2>12. ASSUME NEW i \in 1..(q + 4) PROVE part2[i] = h[i]
    <3>1. \A j \in 1..(k - 1 + 1) : part2[j] = h[1 + j - 1]
      BY <1>2, <2>9, <2>10, Part
    <3>2. i \in 1..(k - 1 + 1) /\ 1 + i - 1 = i
      BY <2>9
    <3> QED BY <3>1, <3>2
  <2>13. /\ 1 \in 1..(q + 4) /\ 2 \in 1..(q + 4) /\ 3 \in 1..(q + 4) /\ q + 4 \in 1..(q + 4)
         /\ 3 \in 1..Len(part2)
    BY <1>2, <2>11
  <2>14. /\ part2[1] = <<"<mx-reply>">> /\ part2[2] = <<"<blockquote>">> /\ part2[3] = Replies!Break
         /\ part2[q + 4] = Replies!Unquote
    BY <1>5, <1>9, <2>12, <2>13
  <2>15. Replies!First(Replies!Break, part2) = 3 /\ Replies!Has(Replies!Break, part2)
    <3>1. \A i \in 1..(3 - 1) : part2[i] # Replies!Break
      <4>1. \A i \in 1..(3 - 1) : i = 1 \/ i = 2
        OBVIOUS
      <4> QED BY <2>14, <4>1, TagsAre
    <3> QED BY <2>11, <2>13, <2>14, <3>1, FirstIs
  <2>18. ASSUME NEW i \in 1..(q + 4) PROVE \/ i \in 1..3 \/ i = q + 4 \/ \E j \in 1..q : i = 3 + j
    <3>1. PICK j : j = i - 3
      OBVIOUS
    <3>2. i \notin 1..3 /\ i # q + 4 => j \in 1..q /\ i = 3 + j
      BY <1>2, <3>1
    <3> QED BY <3>2
  <2>19. \A i \in 1..q : part2[3 + i] = quoted[i] /\ 3 + i \in 1..(q + 4)
    <3>1. \A i \in 1..q : 3 + i \in 1..(q + 4)
      BY <1>2
    <3> QED BY <1>4, <2>12, <3>1
  <2>20. Replies!OneLine(part2) <=> Replies!OneLine(quoted)
    <3>1. DOMAIN part2 = 1..(q + 4) /\ DOMAIN quoted = 1..q
      BY <1>1, <1>2, <2>11
    <3>2. ASSUME Replies!OneLine(part2) PROVE Replies!OneLine(quoted)
      BY <2>19, <3>1, <3>2 DEF Replies!OneLine
    <3>3. ASSUME Replies!OneLine(quoted), NEW i \in 1..(q + 4)
          PROVE  part2[i] = <<>> \/ Head(part2[i]) # "\n"
      <4>1. CASE i \in 1..3
        <5>1. i = 1 \/ i = 2 \/ i = 3
          BY <4>1
        <5> QED BY <2>14, <5>1, TagsAre
      <4>2. CASE i = q + 4
        BY <2>14, <4>2, TagsAre
      <4>3. CASE \E j \in 1..q : i = 3 + j
        BY <2>19, <3>1, <3>3, <4>3 DEF Replies!OneLine
      <4> QED BY <2>18, <4>1, <4>2, <4>3
    <3> QED BY <3>1, <3>2, <3>3 DEF Replies!OneLine
  <2>16. Replies!HasQuotation(part2) <=> Replies!OneLine(quoted)
    BY <2>11, <2>14, <2>15, <2>20 DEF Replies!HasQuotation
  <2>17. Replies!QuotationOf(part2) = quoted
    <3>1. PICK l, m : l = Len(part2) - 1 /\ m = 3 + 1
      OBVIOUS
    <3>2. l = q + 3 /\ m = 4
      BY <1>2, <2>11, <3>1
    <3>3. m \in Nat \ {0} /\ l \in Nat /\ m <= l + 1 /\ l <= Len(part2) /\ l - m + 1 = q
      BY <1>2, <2>11, <3>2
    <3>4. PICK mid : mid = SubSeq(part2, m, l)
      OBVIOUS
    <3>5. mid \in Seq(Pieces) /\ Len(mid) = q
      <4>1. part2 \in Seq(Pieces)
        BY <2>11
      <4>2. SubSeq(part2, m, l) \in Seq(Pieces) /\ Len(SubSeq(part2, m, l)) = l - m + 1
        BY <3>3, <4>1, PartLength
      <4> QED BY <3>3, <3>4, <4>2
    <3>6. \A i \in 1..(l - m + 1) : mid[i] = part2[m + i - 1]
      BY <2>11, <3>3, <3>4, Part
    <3>7. ASSUME NEW i \in 1..q PROVE mid[i] = quoted[i]
      <4>1. i \in 1..(l - m + 1) /\ m + i - 1 = 3 + i /\ 3 + i \in 1..(q + 4)
        BY <1>2, <3>2, <3>3
      <4>2. mid[i] = part2[3 + i]
        BY <3>6, <4>1
      <4>3. part2[3 + i] = h[3 + i]
        BY <2>12, <4>1
      <4> QED BY <1>4, <4>2, <4>3
    <3>8. \A i \in 1..Len(quoted) : mid[i] = quoted[i]
      BY <1>1, <3>7
    <3>9. mid = quoted
      BY <1>1, <3>5, <3>8, SameSeq
    <3> QED BY <2>15, <3>1, <3>4, <3>9 DEF Replies!QuotationOf
  <2> QED BY <2>7, <2>8, <2>16, <2>17
<1> QED BY <1>1, <1>2, <1>8, <1>11, <1>12

\* What is quoted of v, and the pieces of its fallback.
LEMMA OriginalIs ==
    ASSUME NEW v, Legible(v)
    PROVE  Replies!Original(v) \in Seq(Pieces)
<1>1. PICK h : h = v.html
  OBVIOUS
<1>2. h \in Seq(Pieces) /\ Replies!NoHtml = <<>>
  BY <1>1 DEF Legible, Replies!NoHtml
<1>3. CASE h = <<>>
  <2>1. ~Replies!HasFallback(v)
    BY <1>1, <1>3 DEF Replies!HasFallback, Replies!Has
  <2>2. v.body \in Plain
    BY <2>1 DEF Legible
  <2>3. Replies!Original(v) = Replies!Encoded(v.body)
    BY <1>1, <1>2, <1>3 DEF Replies!Original
  <2> QED BY <2>2, <2>3, HtmlPlain
<1>4. CASE h # <<>>
  <2>1. Replies!Original(v) = h
    BY <1>1, <1>2, <1>4 DEF Replies!Original
  <2> QED BY <1>2, <2>1
<1> QED BY <1>3, <1>4

LEMMA OriginalEnds ==
    ASSUME NEW v, Legible(v), ~Replies!HasFallback(v)
    PROVE  ~Replies!Has(Replies!End, Replies!Original(v))
<1>1. v.body \in Plain /\ ~Replies!Has(Replies!End, v.html)
  BY DEF Legible, Replies!HasFallback
<1> QED BY <1>1, HtmlPlain DEF Replies!Original

\* An event written as a reply to v.
LEMMA ReplyIsRead ==
    ASSUME NEW v, Legible(v), NEW e, e.said \in Plain, e.replyTo = v.id,
           e.shown \in Seq(Pieces), ~Replies!Has(Replies!End, e.shown),
           e.body = Replies!ReplyBody(v, e.said),
           e.html = Replies!FallbackHtml(v) \o e.shown
    PROVE  /\ e.html \in Seq(Pieces) /\ e.body \in Seq(Pieces) \ {<<>>}
           /\ Replies!LooksLikeReply(e.html) /\ Replies!HasFallback(e)
           /\ Replies!RealText(e.body) = e.said /\ Replies!RealHtml(e.html) \in Seq(Pieces)
           /\ Replies!QuotedText(e.body) = [v.body EXCEPT ![1] = <<v.sender>> \o @]
           /\ ~Replies!HasFallback(v) =>
                  /\ Replies!RealHtml(e.html) = e.shown
                  /\ Replies!HasQuotation(Replies!FallbackOf(e.html)) <=> Replies!OneLine(Replies!Original(v))
                  /\ Replies!QuotationOf(Replies!FallbackOf(e.html)) = Replies!Original(v)
                  /\ SenderTold(Replies!FallbackSender(e.body), v.sender, v.body[1])
<1>1. PICK text, quoted, html, body, own :
          /\ text = e.said /\ quoted = Replies!Original(v) /\ html = e.html /\ body = e.body
          /\ own = e.shown
  OBVIOUS
<1>2. text \in Plain /\ quoted \in Seq(Pieces)
  BY <1>1, OriginalIs
<1>3. own \in Seq(Pieces) /\ ~Replies!Has(Replies!End, own)
  BY <1>1
<1>4. html = PiecesOf(quoted, own)
  BY <1>1 DEF PiecesOf, Replies!FallbackHtml
<1>5. /\ Replies!LooksLikeReply(html) /\ Replies!Has(Replies!End, html) /\ html \in Seq(Pieces)
      /\ ~Replies!Has(Replies!End, quoted) =>
             /\ Replies!RealHtml(html) = own
             /\ Replies!HasQuotation(Replies!FallbackOf(html)) <=> Replies!OneLine(quoted)
             /\ Replies!QuotationOf(Replies!FallbackOf(html)) = quoted
  BY <1>2, <1>3, <1>4, HtmlIsRead
<1>6. Replies!RealHtml(html) \in Seq(Pieces)
  BY <1>5, RealIsHtml
<1>7. v.sender \in Senders /\ v.body \in Seq(Pieces) \ {<<>>}
  BY DEF Legible
<1>8. /\ body \in Seq(Pieces) \ {<<>>} /\ Replies!RealText(body) = text
      /\ Replies!QuotedText(body) = [v.body EXCEPT ![1] = <<v.sender>> \o @]
      /\ v.body \in Plain => SenderTold(Replies!FallbackSender(body), v.sender, v.body[1])
  <2>1. body = Replies!ReplyBody(v, text)
    BY <1>1
  <2>2. /\ Replies!ReplyBody(v, text) \in Seq(Pieces) \ {<<>>}
        /\ Replies!RealText(Replies!ReplyBody(v, text)) = text
        /\ Replies!QuotedText(Replies!ReplyBody(v, text)) = [v.body EXCEPT ![1] = <<v.sender>> \o @]
        /\ v.body \in Plain =>
               SenderTold(Replies!FallbackSender(Replies!ReplyBody(v, text)), v.sender, v.body[1])
    BY <1>2, <1>7, TextIsRead, Zenon
  <2> QED BY <2>1, <2>2
<1>9. ~Replies!HasFallback(v) => v.body \in Plain /\ ~Replies!Has(Replies!End, quoted)
  BY <1>1, OriginalEnds DEF Legible
<1>10. Replies!HasFallback(e)
  BY <1>1, <1>5 DEF Replies!HasFallback
<1> QED BY <1>1, <1>5, <1>6, <1>8, <1>9, <1>10

\* Whoever writes legibly is read legibly, with the preprocessor and without.
LEMMA WrittenIsLegible ==
    ASSUME NEW e, Written(e), NEW p, p = Replies!ProcessEvent(e).event
    PROVE  Legible(e) /\ Legible(p)
<1>1. /\ e \in [id : Nat, sender : Senders, replyTo : Nat \cup {Nothing}, body : Seq(Pieces) \ {<<>>},
               html : Seq(Pieces), said : Plain, shown : Seq(Pieces), seen : {e.seen}]
  BY DEF Written
<1>2. /\ e.id \in Nat /\ e.sender \in Senders /\ e.body \in Seq(Pieces) \ {<<>>}
      /\ e.html \in Seq(Pieces) /\ e.said \in Plain /\ e.shown \in Seq(Pieces)
  BY <1>1
<1>3. CASE e.seen = Nothing /\ e.body \in Plain /\ (e.replyTo # Nothing => e.html = <<>>)
  <2>1. Legible(e)
    BY <1>2, <1>3 DEF Legible
  <2>2. CASE e.replyTo = Nothing
    <3>1. p = e
      BY <2>2 DEF Replies!ProcessEvent
    <3> QED BY <2>1, <3>1
  <2>3. CASE e.replyTo # Nothing
    <3>1. ~Replies!LooksLikeReply(e.html)
      BY <1>3, <2>3 DEF Replies!LooksLikeReply, Replies!NoHtml
    <3>2. p = [e EXCEPT !.body = Replies!RealText(e.body), !.html = e.html]
      BY <2>3, <3>1 DEF Replies!ProcessEvent
    <3>3. /\ p.id = e.id /\ p.sender = e.sender /\ p.body = Replies!RealText(e.body)
          /\ p.html = e.html
      BY <1>1, <3>2
    <3>4. p.body \in Plain
      BY <1>3, <3>3, RealPlain
    <3>5. p.body \in Seq(Pieces) \ {<<>>}
      BY <3>4, PlainIsText
    <3> QED BY <1>2, <2>1, <3>3, <3>4, <3>5 DEF Legible
  <2> QED BY <2>1, <2>2, <2>3
<1>4. CASE /\ Legible(e.seen) /\ e.replyTo = e.seen.id
           /\ e.body = Replies!ReplyBody(e.seen, e.said)
           /\ e.html = Replies!FallbackHtml(e.seen) \o e.shown
           /\ ~Replies!Has(Replies!End, e.shown)
  <2>1. PICK v : v = e.seen
    OBVIOUS
  <2>2. /\ Replies!LooksLikeReply(e.html) /\ Replies!HasFallback(e)
        /\ Replies!RealText(e.body) = e.said /\ Replies!RealHtml(e.html) \in Seq(Pieces)
    BY <1>2, <1>4, <2>1, ReplyIsRead
  <2>3. Legible(e)
    BY <1>2, <2>2 DEF Legible
  <2>4. e.replyTo # Nothing
    BY <1>4, ClientAssumption DEF Legible
  <2>5. p = [e EXCEPT !.body = Replies!RealText(e.body), !.html = Replies!RealHtml(e.html)]
    BY <2>2, <2>4 DEF Replies!ProcessEvent
  <2>6. /\ p.id = e.id /\ p.sender = e.sender /\ p.body = e.said /\ p.html = Replies!RealHtml(e.html)
    BY <1>1, <2>2, <2>5
  <2>7. p.body \in Plain /\ p.body \in Seq(Pieces) \ {<<>>}
    BY <1>2, <2>6, PlainIsText
  <2>8. Legible(p)
    BY <1>2, <2>2, <2>6, <2>7 DEF Legible
  <2> QED BY <2>3, <2>8
<1> QED BY <1>3, <1>4 DEF Written

\* What the room gets.
LEMMA EventIs ==
    ASSUME NEW S, timeline \in Seq(S), NEW e, Written(e), timeline' = Append(timeline, e), RepliesInv
    PROVE  RepliesInv'
<1>1. PICK T : T = S \cup {e}
  OBVIOUS
<1>2. PICK s, n : s = timeline /\ n = Len(timeline)
  OBVIOUS
<1>3. s \in Seq(T) /\ n \in Nat /\ DOMAIN s = 1..n
  BY <1>1, <1>2
<1>4. PICK t : t = Append(s, e)
  OBVIOUS
<1>5. t \in Seq(T) /\ DOMAIN t = 1..(n + 1) /\ t[n + 1] = e
  BY <1>1, <1>2, <1>3, <1>4
<1>6. \A i \in 1..n : t[i] = s[i]
  BY <1>2, <1>3, <1>4
<1>7. ASSUME NEW i \in 1..(n + 1) PROVE Written(t[i])
  <2>1. CASE i = n + 1
    BY <1>5, <2>1
  <2>2. CASE i \in 1..n
    BY <1>2, <1>3, <1>6, <2>2 DEF RepliesInv
  <2> QED BY <1>3, <2>1, <2>2
<1>8. timeline' = t
  BY <1>2, <1>4
<1>9. \A i \in DOMAIN t : Written(t[i])
  BY <1>5, <1>7
<1>10. \E U : timeline' \in Seq(U)
  BY <1>5, <1>8
<1>11. \A i \in DOMAIN timeline' : Written(timeline'[i])
  BY <1>8, <1>9
<1> QED BY <1>10, <1>11 DEF RepliesInv

LEMMA RepliesKeep == RepliesInv /\ (Replies!Next \/ UNCHANGED timeline) => RepliesInv'
<1> SUFFICES ASSUME RepliesInv, Replies!Next \/ UNCHANGED timeline PROVE RepliesInv'
  OBVIOUS
<1>1. CASE UNCHANGED timeline
  BY <1>1 DEF RepliesInv
<1>2. CASE Replies!Next
  <2>1. PICK S : timeline \in Seq(S)
    BY DEF RepliesInv
  <2>2. PICK sender \in Senders, text \in Texts :
            \/ \E html \in {Replies!NoHtml, Replies!HtmlOf(text)} :
                   Replies!SendText(sender, text, html)
            \/ \E n \in DOMAIN timeline :
                   \/ \E parent \in Replies!Views(n),
                         html \in {Replies!Encoded(text), Replies!HtmlOf(text)} :
                          Replies!ReplyText(sender, parent, text, html)
                   \/ Replies!ReplyPlainly(sender, n, text)
    BY <1>2 DEF Replies!Next
  <2>3. text \in Plain /\ text \in Seq(Pieces) \ {<<>>}
    <3>1. Seq(Seq(Words) \ {<<>>}) \subseteq Seq(Seq(Words))
      OBVIOUS
    <3>2. text \in Seq(Seq(Words) \ {<<>>}) \ {<<>>}
      BY <2>2, RepliesAssumption DEF Words
    <3>3. text \in Plain
      BY <3>1, <3>2 DEF Plain
    <3> QED BY <3>3, PlainIsText
  <2>4. Len(timeline) \in Nat /\ DOMAIN timeline = 1..Len(timeline)
    BY <2>1
  <2>5. PICK id : id = Len(timeline) + 1
    OBVIOUS
  <2>6. id \in Nat /\ <<>> \in Seq(Pieces)
    BY <2>4, <2>5
  <2>7. ASSUME NEW html \in {Replies!NoHtml, Replies!HtmlOf(text)}, Replies!SendText(sender, text, html)
        PROVE  RepliesInv'
    <3>2. html \in Seq(Pieces)
      BY <2>3, <2>6, HtmlPlain DEF Replies!NoHtml
    <3>3. PICK e : e = [id |-> id, sender |-> sender, replyTo |-> Nothing, body |-> text, html |-> html,
                        said |-> text, shown |-> html, seen |-> Nothing]
      OBVIOUS
    <3>4. timeline' = Append(timeline, e)
      BY <2>5, <2>7, <3>3 DEF Replies!SendText, Replies!Event, Replies!NoHtml
    <3>5. Written(e)
      BY <2>2, <2>3, <2>6, <2>7, <3>2, <3>3 DEF Written
    <3> QED BY <2>1, <3>4, <3>5, EventIs
  <2>8. ASSUME NEW n \in DOMAIN timeline, Replies!ReplyPlainly(sender, n, text)
        PROVE  RepliesInv'
    <3>1. PICK e : e = [id |-> id, sender |-> sender, replyTo |-> n, body |-> text, html |-> <<>>,
                        said |-> text, shown |-> <<>>, seen |-> Nothing]
      OBVIOUS
    <3>2. timeline' = Append(timeline, e)
      BY <2>5, <2>8, <3>1 DEF Replies!ReplyPlainly, Replies!Event, Replies!NoHtml
    <3>3. n \in Nat
      BY <2>4
    <3>4. Written(e)
      BY <2>2, <2>3, <2>6, <3>1, <3>3 DEF Written
    <3> QED BY <2>1, <3>2, <3>4, EventIs
  <2>9. ASSUME NEW n \in DOMAIN timeline, NEW v \in Replies!Views(n),
               NEW html \in {Replies!Encoded(text), Replies!HtmlOf(text)},
               Replies!ReplyText(sender, v, text, html)
        PROVE  RepliesInv'
    <3>1. Legible(v)
      <4>1. PICK w : w = timeline[n]
        OBVIOUS
      <4>2. Written(w)
        BY <4>1 DEF RepliesInv
      <4>3. v \in {w, Replies!ProcessEvent(w).event}
        BY <4>1 DEF Replies!Views
      <4> QED BY <4>2, <4>3, WrittenIsLegible
    <3>2. PICK b, h : /\ b = Replies!ReplyBody(v, text)
                      /\ h = Replies!FallbackHtml(v) \o html
      OBVIOUS
    <3>3. PICK e : e = [id |-> id, sender |-> sender, replyTo |-> v.id, body |-> b, html |-> h,
                        said |-> text, shown |-> html, seen |-> v]
      OBVIOUS
    <3>4. timeline' = Append(timeline, e)
      BY <2>5, <2>9, <3>2, <3>3 DEF Replies!ReplyText, Replies!Event, Replies!CreateFor
    <3>5. /\ e.said = text /\ e.replyTo = v.id /\ e.body = b /\ e.html = h /\ e.seen = v
          /\ e.shown = html
      BY <3>3
    <3>10. html \in Seq(Pieces) /\ ~Replies!Has(Replies!End, html)
      BY <2>3, HtmlPlain
    <3>6. b \in Seq(Pieces) \ {<<>>} /\ h \in Seq(Pieces)
      <4>1. /\ e.said \in Plain /\ e.replyTo = v.id
            /\ e.shown \in Seq(Pieces) /\ ~Replies!Has(Replies!End, e.shown)
        BY <2>3, <3>5, <3>10
      <4>2. e.body = Replies!ReplyBody(v, e.said)
        BY <3>2, <3>5
      <4>3. e.html = Replies!FallbackHtml(v) \o e.shown
        BY <3>2, <3>5
      <4>4. e.html \in Seq(Pieces) /\ e.body \in Seq(Pieces) \ {<<>>}
        BY <3>1, <4>1, <4>2, <4>3, ReplyIsRead
      <4> QED BY <3>5, <4>4
    <3>7. v.id \in Nat
      BY <3>1 DEF Legible
    <3>8. e \in [id : Nat, sender : Senders, replyTo : Nat \cup {Nothing}, body : Seq(Pieces) \ {<<>>},
                 html : Seq(Pieces), said : Plain, shown : Seq(Pieces), seen : {e.seen}]
      BY <2>2, <2>3, <2>6, <2>9, <3>3, <3>6, <3>7, <3>10
    <3>9. Written(e)
      BY <3>1, <3>2, <3>5, <3>8, <3>10 DEF Written
    <3> QED BY <2>1, <3>4, <3>9, EventIs
  <2> QED BY <2>2, <2>7, <2>8, <2>9
<1> QED BY <1>1, <1>2

LEMMA RepliesTell == RepliesInv => Replies!RepliesAreRead
<1> SUFFICES ASSUME RepliesInv, NEW n \in DOMAIN timeline
             PROVE  LET e == timeline[n]
                        p == Replies!ProcessEvent(e)
                    IN e.seen # Nothing =>
                           /\ p.event.body = e.said
                           /\ p.reply.parentEventId = e.seen.id
                           /\ ~Replies!HasFallback(e.seen) =>
                                  /\ p.event.html = e.shown
                                  /\ p.reply.fallbackPlainBody = [e.seen.body EXCEPT ![1] = <<e.seen.sender>> \o @]
                                  /\ Head(p.reply.fallbackSender) = e.seen.sender
                                  /\ ~Replies!HasAngle(e.seen.body[1]) =>
                                         p.reply.fallbackSender = <<e.seen.sender>>
                                  /\ p.reply.fallbackHtmlBody =
                                         (IF Replies!OneLine(Replies!Original(e.seen))
                                          THEN Replies!Original(e.seen) ELSE Replies!NoHtml)
                                  /\ p.reply.wasLenient <=> ~Replies!OneLine(Replies!Original(e.seen))
  BY DEF Replies!RepliesAreRead
<1>1. PICK e, p, v : e = timeline[n] /\ p = Replies!ProcessEvent(timeline[n]) /\ v = timeline[n].seen
  OBVIOUS
<1>2. Written(e) /\ v = e.seen
  BY <1>1 DEF RepliesInv
<1>3. SUFFICES ASSUME v # Nothing
               PROVE  /\ p.event.body = e.said
                      /\ p.reply.parentEventId = v.id
                      /\ ~Replies!HasFallback(v) =>
                             /\ p.event.html = e.shown
                             /\ p.reply.fallbackPlainBody = [v.body EXCEPT ![1] = <<v.sender>> \o @]
                             /\ Head(p.reply.fallbackSender) = v.sender
                             /\ ~Replies!HasAngle(v.body[1]) => p.reply.fallbackSender = <<v.sender>>
                             /\ p.reply.fallbackHtmlBody =
                                    (IF Replies!OneLine(Replies!Original(v))
                                     THEN Replies!Original(v) ELSE Replies!NoHtml)
                             /\ p.reply.wasLenient <=> ~Replies!OneLine(Replies!Original(v))
  BY <1>1
<1>4. /\ Legible(v) /\ e.replyTo = v.id /\ e.body = Replies!ReplyBody(v, e.said)
      /\ e.html = Replies!FallbackHtml(v) \o e.shown /\ ~Replies!Has(Replies!End, e.shown)
  BY <1>2, <1>3 DEF Written
<1>5. /\ e \in [id : Nat, sender : Senders, replyTo : Nat \cup {Nothing}, body : Seq(Pieces) \ {<<>>},
                html : Seq(Pieces), said : Plain, shown : Seq(Pieces), seen : {e.seen}]
  BY <1>2 DEF Written
<1>6. e.said \in Plain /\ v.id # Nothing /\ e.shown \in Seq(Pieces)
  BY <1>4, <1>5, ClientAssumption DEF Legible
<1>7. /\ Replies!LooksLikeReply(e.html) /\ Replies!RealText(e.body) = e.said
      /\ Replies!QuotedText(e.body) = [v.body EXCEPT ![1] = <<v.sender>> \o @]
      /\ ~Replies!HasFallback(v) =>
             /\ Replies!RealHtml(e.html) = e.shown
             /\ Replies!HasQuotation(Replies!FallbackOf(e.html)) <=> Replies!OneLine(Replies!Original(v))
             /\ Replies!QuotationOf(Replies!FallbackOf(e.html)) = Replies!Original(v)
             /\ SenderTold(Replies!FallbackSender(e.body), v.sender, v.body[1])
  BY <1>4, <1>6, ReplyIsRead
<1>8. PICK s, o : /\ s = Replies!FallbackSender(e.body)
                  /\ o = Replies!QuotationOf(Replies!FallbackOf(e.html))
  OBVIOUS
<1>9. p = [event |-> [e EXCEPT !.body = Replies!RealText(e.body), !.html = Replies!RealHtml(e.html)],
           reply |-> [parentEventId |-> e.replyTo, fallbackPlainBody |-> Replies!QuotedText(e.body),
                      fallbackHtmlBody |->
                          IF Replies!HasQuotation(Replies!FallbackOf(e.html)) THEN o ELSE <<>>,
                      fallbackSender |-> s,
                      wasLenient |-> ~Replies!HasQuotation(Replies!FallbackOf(e.html)) \/ s = <<>>]]
  BY <1>1, <1>4, <1>6, <1>7, <1>8 DEF Replies!ProcessEvent, Replies!NoHtml, Replies!NoSender
<1>10. p.event.body = e.said /\ p.event.html = Replies!RealHtml(e.html)
  BY <1>5, <1>7, <1>9
<1>11. /\ p.reply.parentEventId = v.id /\ p.reply.fallbackPlainBody = Replies!QuotedText(e.body)
       /\ p.reply.fallbackSender = s
       /\ p.reply.fallbackHtmlBody =
              (IF Replies!HasQuotation(Replies!FallbackOf(e.html)) THEN o ELSE <<>>)
  BY <1>4, <1>9
<1>12. p.reply.wasLenient <=> ~Replies!HasQuotation(Replies!FallbackOf(e.html)) \/ s = <<>>
  BY <1>9
<1>13. ~Replies!HasFallback(v) =>
           s # <<>> /\ Head(s) = v.sender /\ (~Replies!HasAngle(v.body[1]) => s = <<v.sender>>)
  BY <1>7, <1>8 DEF SenderTold
<1> QED BY <1>7, <1>8, <1>10, <1>11, <1>12, <1>13 DEF Replies!NoHtml

\* The preprocessor takes off what RichReply.createFor put in front, however many
\* replies follow each other, and tells what was quoted and of whom if the reply
\* was to an event without a fallback, and a listener is told of each event once, by the
\* names of its type, and of a decrypted one or of the failure
\* (RichRepliesPreprocessor.processEvent, MatrixClient.processSync and
\* Appservice.onTransaction).
THEOREM RepliesHold == PartsSpec => []RepliesAreRead
<1> DEFINE Inv == /\ part = "replies" => RepliesInv
                  /\ part = "timeline" => TimelineInv
<1>1. PartsInit => Inv
  <2>1. Replies!Init => RepliesInv
    <3> SUFFICES ASSUME timeline = <<>> PROVE RepliesInv
      BY DEF Replies!Init
    <3>1. timeline \in Seq({}) /\ DOMAIN timeline = {}
      OBVIOUS
    <3> QED BY <3>1 DEF RepliesInv
  <2> QED BY <2>1, TimelineStarts DEF PartsInit, TimelineInit
<1>2. Inv /\ [PartsNext]_partsVars => Inv'
  <2> SUFFICES ASSUME Inv, [PartsNext]_partsVars PROVE Inv'
    OBVIOUS
  <2>1. part' = part
    BY PartSteps
  <2>2. ASSUME part = "replies" PROVE RepliesInv'
    <3>1. Replies!Next \/ UNCHANGED timeline
      BY <2>2, PartSteps DEF repliesVars
    <3> QED BY <2>2, <3>1, RepliesKeep
  <2>3. ASSUME part = "timeline" PROVE TimelineInv'
    <3>1. Timeline!Next \/ UNCHANGED timelineVars
      BY <2>3, PartSteps
    <3> QED BY <2>3, <3>1, TimelineKeeps
  <2> QED BY <2>1, <2>2, <2>3
<1>3. Inv => RepliesAreRead
  BY RepliesTell, TimelineTells DEF RepliesAreRead
<1> QED BY <1>1, <1>2, <1>3, PTL DEF PartsSpec
=============================================================================
