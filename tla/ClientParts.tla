----------------------------- MODULE ClientParts -----------------------------
(***************************************************************************)
(* The parts of a client that share no state, checked in one run. `part`   *)
(* is chosen at the start; the variables of the other parts stay as they   *)
(* are. Variables of two parts with one name are renamed here.             *)
(***************************************************************************)
EXTENDS Integers, Sequences, TLC

CONSTANTS
    Me, Other, Others, Nothing, Objects, Values, Calls,      \* shared
    Blank, Keys, StoredRooms, MaxInMemory, MaxWrites, StoreFaults, \* Storages
    MaxProfiles, ProfileFaults,                              \* Profiles
    EngineFaults,                                            \* OutgoingRequests
    Levels, Actions, PowerCalls, MaxPowers,                  \* PowerLevels
    VersionsCacheMs, Timeout, MaxTime, MaxImpersonations,    \* ClientIdentity
    LoginFaults, MaxFaults, MaxLogins,                       \* Logins
    MaxSendTime, MaxSends, MaxRepeats,                       \* Sends
    Searches, MaxMoves,                                      \* Members
    Lobby, MaxUpgrades,                                      \* RoomUpgrades
    MaxFailures,                                             \* Spaces
    Senders, Texts, Arrows, MaxEvents,                       \* Replies
    MaxServerChanges,                                        \* IdentityServer
    MaxRequestTime, MaxRequests                              \* Requests

ASSUME ClientAssumption ==
    /\ Nothing \notin Calls /\ Nothing \notin Nat
    /\ Nothing \notin {"none", "valid", "invalid", "empty", "en", "fr", "body"}
    /\ Nothing \notin {Me, Other, Lobby} \cup Objects
    /\ Levels \subseteq Int /\ Nothing \notin Levels
    /\ Searches \subseteq Seq({"join", "invite", "leave"})
    /\ Timeout \in Nat /\ VersionsCacheMs \in Nat \ {0}
    /\ Me \notin Objects /\ MaxInMemory \in Nat \ {0}
    /\ ({Me} \cup Objects) \cap {"kv", "registered", "completed", "room", "deviceId"} = {}
    /\ Blank \notin Values \cup {Nothing, TRUE}
    /\ \A v \in Values \cup {Nothing} : Nothing # [json |-> v]

ASSUME RepliesAssumption ==
    /\ Senders \cap {Nothing, "> "} = {}
    /\ Texts \subseteq Seq(Seq(STRING \ (Senders \cup {"</mx-reply>"})) \ {<<>>}) \ {<<>>}

VARIABLES part,
    kind, row, file, completedTransactions, tables, inserts, writes,
    profile, profileEvents, cache, fetch, overtaken,
    member, delivered, tracked, known, session, outgoing, keyed, toShare,
    syncLock, roomLock, task, excused, wanted,
    levels, levelChanges, levelCall, undone,
    impersonatedUserId, impersonatedDeviceId, userId, cachedVersions,
    versionsLastFetched, clock, identityCall, given, changed, misused, late,
    flows, account, issued, stored, loginCall, faults, logins, overlaps,
    now, requestId, calls, events, answered, repeats,
    membership, memberChanges, batch, queries, at, answers, result, were,
    predecessor, replacement, readable, upgrades, walk, room, previous, newer,
    current,
    spaces, child, failures, spaceCall, added, orphaned,
    timeline,
    algorithms, pepper, bound, languages, accepted, state, serverChanges,
    call, knew, had, spoke,
    time, uid, requestStartTimes, timedCall, made, heard, mistimed,
    setting, form, passes, place, told, mishap

Storages == INSTANCE Storages WITH
    Bot <- Me, AppUsers <- Objects, Txns <- Calls, Rooms <- StoredRooms, Data <- Values,
    Null <- Nothing,
    queries <- inserts
Profiles == INSTANCE Profiles WITH
    Fetches <- Calls, Absent <- Nothing, Empty <- Blank, MaxChanges <- MaxProfiles,
    current <- profile, events <- profileEvents
Engine == INSTANCE OutgoingRequests WITH
    Users <- Objects, Tasks <- Calls, Messages <- Objects, Nobody <- Nothing
Powers == INSTANCE PowerLevels WITH
    Users <- {Me} \cup Others, Absent <- Nothing, Calls <- PowerCalls, MaxChanges <- MaxPowers,
    changes <- levelChanges, call <- levelCall
Identity == INSTANCE ClientIdentity WITH
    Bot <- Me, Users <- Others, Devices <- Values, None <- Nothing,
    now <- clock, call <- identityCall
Logins == INSTANCE Logins WITH
    None <- Nothing, MaxCalls <- MaxLogins,
    call <- loginCall, calls <- logins
Sends == INSTANCE Sends WITH
    Clients <- Objects, None <- Nothing, MaxTime <- MaxSendTime, MaxCalls <- MaxSends
Members == INSTANCE Members WITH
    Users <- Objects, Null <- Nothing, MaxChanges <- MaxMoves,
    changes <- memberChanges
Upgrades == INSTANCE RoomUpgrades WITH
    Rooms <- {Lobby} \cup Objects, Start <- Lobby, None <- Nothing,
    at <- room, pc <- walk
Spaces == INSTANCE Spaces WITH
    Rooms <- Objects, None <- Nothing,
    call <- spaceCall
Replies == INSTANCE Replies WITH
    None <- Nothing,
    room <- timeline
Server == INSTANCE IdentityServer WITH
    Addresses <- Objects, Users <- Others, None <- Nothing, MaxChanges <- MaxServerChanges,
    changes <- serverChanges
Requests == INSTANCE Requests WITH
    Clients <- Objects, None <- Nothing, MaxTime <- MaxRequestTime, MaxCalls <- MaxRequests,
    now <- time, call <- timedCall
Timeline == INSTANCE Timeline WITH
    Bot <- Me, User <- Other, Nobody <- Nothing

storagesVars == <<kind, row, file, completedTransactions, tables, inserts,
                 writes>>
profilesVars == <<profile, profileEvents, cache, fetch, overtaken>>
engineVars   == <<member, delivered, tracked, known, session, outgoing, keyed,
                 toShare, syncLock, roomLock, task, excused, wanted>>
powersVars   == <<levels, levelChanges, levelCall, undone>>
identityVars == <<impersonatedUserId, impersonatedDeviceId, userId,
                 cachedVersions, versionsLastFetched, clock, identityCall,
                 given, changed, misused, late>>
loginsVars   == <<flows, account, issued, stored, loginCall, faults, logins,
                 overlaps>>
sendsVars    == <<now, requestId, calls, events, answered, repeats>>
membersVars  == <<membership, memberChanges, batch, queries, at, answers,
                 result, were>>
upgradesVars == <<predecessor, replacement, readable, upgrades, walk, room,
                 previous, newer, current>>
spacesVars   == <<spaces, child, failures, spaceCall, added, orphaned>>
repliesVars  == <<timeline>>
serverVars   == <<algorithms, pepper, bound, languages, accepted, state,
                 serverChanges, call, knew, had, spoke>>
requestsVars == <<time, uid, requestStartTimes, timedCall, made, heard,
                 mistimed>>
timelineVars == <<setting, form, passes, place, told, mishap>>
oneHalf      == <<storagesVars, profilesVars, engineVars, powersVars, identityVars, loginsVars>>
otherHalf    == <<sendsVars, membersVars, upgradesVars, spacesVars, repliesVars, serverVars, requestsVars, timelineVars>>
partsVars == <<part, oneHalf, otherHalf>>

\* The variables of a part that has many initial states and was not chosen.
Off == "off"

PowersInit ==
    \/ part = "powers" /\ Powers!Init
    \/ /\ part # "powers"
       /\ levels = Off /\ levelChanges = Off /\ levelCall = Off
       /\ undone = Off

LoginsInit ==
    \/ part = "logins" /\ Logins!Init
    \/ /\ part # "logins"
       /\ flows = Off /\ account = Off /\ issued = Off /\ stored = Off
       /\ loginCall = Off /\ faults = Off /\ logins = Off
       /\ overlaps = Off

MembersInit ==
    \/ part = "members" /\ Members!Init
    \/ /\ part # "members"
       /\ membership = Off /\ memberChanges = Off /\ batch = Off
       /\ queries = Off /\ at = Off /\ answers = Off /\ result = Off
       /\ were = Off

UpgradesInit ==
    \/ part = "upgrades" /\ Upgrades!Init
    \/ /\ part # "upgrades"
       /\ predecessor = Off /\ replacement = Off /\ readable = Off
       /\ upgrades = Off /\ walk = Off /\ room = Off /\ previous = Off
       /\ newer = Off /\ current = Off

ServerInit ==
    \/ part = "server" /\ Server!Init
    \/ /\ part # "server"
       /\ algorithms = Off /\ pepper = Off /\ bound = Off
       /\ languages = Off /\ accepted = Off /\ state = Off
       /\ serverChanges = Off /\ call = Off /\ knew = Off /\ had = Off
       /\ spoke = Off

TimelineInit ==
    \/ part = "timeline" /\ Timeline!Init
    \/ /\ part # "timeline"
       /\ setting = Off /\ form = Off /\ passes = Off /\ place = Off
       /\ told = Off /\ mishap = Off

PartsInit ==
    /\ part \in {"storages", "profiles", "engine", "powers", "identity", "logins", "sends",
                "members", "upgrades", "spaces", "replies", "server", "requests", "timeline"}
    /\ Storages!Init
    /\ Profiles!Init
    /\ Engine!Init
    /\ Identity!Init
    /\ Sends!Init
    /\ Spaces!Init
    /\ Replies!Init
    /\ Requests!Init
    /\ PowersInit
    /\ LoginsInit
    /\ MembersInit
    /\ UpgradesInit
    /\ ServerInit
    /\ TimelineInit
    /\ part # "storages" => kind = [provider |-> "memory", inMemory |-> FALSE]
    /\ part # "engine" => member = Objects

PartsNext ==
    \/ /\ part = "storages" /\ Storages!Next
       /\ UNCHANGED <<part, otherHalf, profilesVars, engineVars, powersVars,
                     identityVars, loginsVars>>
    \/ /\ part = "profiles" /\ Profiles!Next
       /\ UNCHANGED <<part, otherHalf, storagesVars, engineVars, powersVars,
                     identityVars, loginsVars>>
    \/ /\ part = "engine" /\ Engine!Next
       /\ UNCHANGED <<part, otherHalf, storagesVars, profilesVars, powersVars,
                     identityVars, loginsVars>>
    \/ /\ part = "powers" /\ Powers!Next
       /\ UNCHANGED <<part, otherHalf, storagesVars, profilesVars, engineVars,
                     identityVars, loginsVars>>
    \/ /\ part = "identity" /\ Identity!Next
       /\ UNCHANGED <<part, otherHalf, storagesVars, profilesVars, engineVars,
                     powersVars, loginsVars>>
    \/ /\ part = "logins" /\ Logins!Next
       /\ UNCHANGED <<part, otherHalf, storagesVars, profilesVars, engineVars,
                     powersVars, identityVars>>
    \/ /\ part = "sends" /\ Sends!Next
       /\ UNCHANGED <<part, oneHalf, membersVars, upgradesVars, spacesVars,
                     repliesVars, serverVars, requestsVars, timelineVars>>
    \/ /\ part = "members" /\ Members!Next
       /\ UNCHANGED <<part, oneHalf, sendsVars, upgradesVars, spacesVars,
                     repliesVars, serverVars, requestsVars, timelineVars>>
    \/ /\ part = "upgrades" /\ Upgrades!Next
       /\ UNCHANGED <<part, oneHalf, sendsVars, membersVars, spacesVars,
                     repliesVars, serverVars, requestsVars, timelineVars>>
    \/ /\ part = "spaces" /\ Spaces!Next
       /\ UNCHANGED <<part, oneHalf, sendsVars, membersVars, upgradesVars,
                     repliesVars, serverVars, requestsVars, timelineVars>>
    \/ /\ part = "replies" /\ Replies!Next
       /\ UNCHANGED <<part, oneHalf, sendsVars, membersVars, upgradesVars,
                     spacesVars, serverVars, requestsVars, timelineVars>>
    \/ /\ part = "server" /\ Server!Next
       /\ UNCHANGED <<part, oneHalf, sendsVars, membersVars, upgradesVars,
                     spacesVars, repliesVars, requestsVars, timelineVars>>
    \/ /\ part = "requests" /\ Requests!Next
       /\ UNCHANGED <<part, oneHalf, sendsVars, membersVars, upgradesVars,
                     spacesVars, repliesVars, serverVars, timelineVars>>
    \/ /\ part = "timeline" /\ Timeline!Next
       /\ UNCHANGED <<part, oneHalf, sendsVars, membersVars, upgradesVars,
                     spacesVars, repliesVars, serverVars, requestsVars>>

PartsSpec == PartsInit /\ [][PartsNext]_partsVars

\* Parts share their values: two sets of them keep the group small.
Symmetry == Permutations(Objects) \cup Permutations(Calls)

-----------------------------------------------------------------------------
\* The profiles kept and those the events told of, in Profiles.
CacheIsCurrent == part = "profiles" => Profiles!CacheIsCurrent
\* Room keys and the machine's own messages, in OutgoingRequests.
MessagesHaveKeys == part = "engine" => Engine!MessagesHaveKeys
\* A provider is a store of what was written to it, in Storages. The provider of
\* the other parts is written to by nobody.
StoreRefined == Storages!StoreRefined
\* What is computed of power levels and written to them, in PowerLevels.
PowerIsAsTold == part = "powers" => Powers!PowerIsAsTold
\* Who the client thinks it is, in ClientIdentity, and how it got its token, in
\* Logins.
ClientKnowsItself ==
    /\ part = "identity" => Identity!MemoryHolds
    /\ part = "logins" => Logins!LoginsHold
\* One event per call, in Sends.
SentOnce == part = "sends" => Sends!SentOnce
\* Who is in a room, in Members, which rooms come before and after it, in
\* RoomUpgrades, and below it, in Spaces.
RoomsAreTold ==
    /\ part = "members" => Members!MembersAreTrue
    /\ part = "upgrades" => Upgrades!HistoryIsAWalk
    /\ part = "spaces" => Spaces!ChildrenHold
\* Replies as they are written and read, in Replies, and what listeners are told
\* of an event, in Timeline.
RepliesAreRead ==
    /\ part = "replies" => Replies!RepliesAreRead
    /\ part = "timeline" => Timeline!EventsAreTold
\* What a call to the homeserver, in Requests, or to an identity server, in
\* IdentityServer, tells its caller.
CallsHold ==
    /\ part = "requests" => Requests!CallsAreTold
    /\ part = "server" => Server!IdentityHolds
=============================================================================
