--------------------------- MODULE AppserviceParts ---------------------------
(***************************************************************************)
(* The parts of an appservice that share no state, checked in one run.     *)
(* `part` is chosen at the start; the variables of the other parts stay as *)
(* they are.                                                               *)
(***************************************************************************)
EXTENDS Naturals, TLC

CONSTANTS
    Nothing,
    Rooms, PublicRooms, Slots, Calls, Handler, IntentFaults, MaxMoves,  \* Intents
    Schedule,                                                \* JoinStrategies
    Objects, Devices, SetUpFaults,                           \* IntentCrypto
    MaxAnswers,                                              \* Queries
    MatrixIds, RemoteIds, Setters, MapFaults,                \* BridgeMap
    Bot, Users, Stranger, MaxRemovals,                       \* Autojoin
    MaxEdus, MaxFailures                                     \* Machines

ASSUME AppserviceAssumption ==
    /\ Nothing \notin Slots \cup Devices \cup MatrixIds \cup RemoteIds
    /\ Nothing \notin {"hs_token", "Basic", "counts", "without"}
    /\ Handler \notin Calls
    /\ Schedule \in Nat \ {0}
    /\ Stranger \notin Users \cup {Bot}
    /\ MaxEdus \in Nat

VARIABLES part,
    registered, member, invited, version, unheard, moves, recorded, intent,
    used, knownJoinedRooms, call, due, astray,
    setting, step, attempt, inside, summoned, lost,
    devices, keyed, supports, isRegistered, storedToken, storedDevice, setup,
    deviceId, ownDevices, acting, loaded, machine, upsets,
    request, stage, responded, response, answers, unhandled,
    info, mapping, setter, set, torn,
    mixins, old, new, awaited, place, asked, rejected, removals, welcome, refused,
    machineTxn, loop, edu, left, byUserId, enabled, heard, failures

Intents == INSTANCE Intents WITH None <- Nothing
Joins   == INSTANCE JoinStrategies WITH invited <- summoned
Crypto  == INSTANCE IntentCrypto WITH NoDevice <- Nothing
Queries == INSTANCE Queries
Bridge  == INSTANCE BridgeMap WITH NoId <- Nothing
Autojoin == INSTANCE Autojoin WITH
    setting <- mixins, invited <- awaited, due <- welcome
Machines == INSTANCE Machines WITH place <- loop, txn <- machineTxn

intentVars == <<registered, member, invited, version, unheard, moves, recorded,
                intent, used, knownJoinedRooms, call, due, astray>>
joinVars   == <<setting, step, attempt, inside, summoned, lost>>
cryptoVars == <<devices, keyed, supports, isRegistered, storedToken, storedDevice,
                setup, deviceId, ownDevices, acting, loaded, machine, upsets>>
queryVars  == <<request, stage, responded, response, answers, unhandled>>
mapVars    == <<info, mapping, setter, set, torn>>
mixinVars  == <<mixins, old, new, awaited, place, asked, rejected, removals,
                welcome, refused>>
machineVars == <<machineTxn, loop, edu, left, byUserId, enabled, heard, failures>>
others     == <<mixinVars, machineVars>>
partsVars == <<part, intentVars, joinVars, cryptoVars, queryVars, mapVars, others>>

Off == "off"

JoinsInit ==
    \/ part = "joins" /\ Joins!Init
    \/ /\ part # "joins"
       /\ setting = Off /\ step = Off /\ attempt = Off /\ inside = Off
       /\ summoned = Off /\ lost = FALSE

QueriesInit ==
    \/ part = "queries" /\ Queries!Init
    \/ /\ part # "queries"
       /\ request = Off /\ stage = Off /\ responded = Off /\ response = Off
       /\ answers = Off /\ unhandled = Off

AutojoinInit ==
    \/ part = "mixins" /\ Autojoin!Init
    \/ /\ part # "mixins"
       /\ mixins = Off /\ old = Off /\ new = Off /\ awaited = Off /\ place = Off
       /\ asked = Off /\ rejected = Off /\ removals = Off /\ welcome = Off
       /\ refused = Off

MachinesInit ==
    \/ part = "machines" /\ Machines!Init
    \/ /\ part # "machines"
       /\ machineTxn = Off /\ loop = Off /\ edu = Off /\ left = Off /\ byUserId = Off
       /\ enabled = Off /\ heard = Off /\ failures = Off

PartsInit ==
    /\ part \in {"intents", "joins", "crypto", "queries", "bridge", "mixins", "machines"}
    /\ Intents!Init /\ Crypto!Init /\ Bridge!Init
    /\ part # "crypto" => ~supports
    /\ JoinsInit /\ QueriesInit /\ AutojoinInit /\ MachinesInit

PartsNext ==
    \/ /\ part = "intents" /\ Intents!Next
       /\ UNCHANGED <<part, joinVars, cryptoVars, queryVars, mapVars, others>>
    \/ /\ part = "joins" /\ Joins!Next
       /\ UNCHANGED <<part, intentVars, cryptoVars, queryVars, mapVars, others>>
    \/ /\ part = "crypto" /\ Crypto!Next
       /\ UNCHANGED <<part, intentVars, joinVars, queryVars, mapVars, others>>
    \/ /\ part = "queries" /\ Queries!Next
       /\ UNCHANGED <<part, intentVars, joinVars, cryptoVars, mapVars, others>>
    \/ /\ part = "bridge" /\ Bridge!Next
       /\ UNCHANGED <<part, intentVars, joinVars, cryptoVars, queryVars, others>>
    \/ /\ part = "mixins" /\ Autojoin!Next
       /\ UNCHANGED <<part, intentVars, joinVars, cryptoVars, queryVars, mapVars, machineVars>>
    \/ /\ part = "machines" /\ Machines!Next
       /\ UNCHANGED <<part, intentVars, joinVars, cryptoVars, queryVars, mapVars, mixinVars>>

PartsSpec == PartsInit /\ [][PartsNext]_partsVars

\* Objects, calls, devices and IDs are interchangeable. The configuration gives
\* the parts the same values: two sets of them keep the group small.
Symmetry == Permutations(Objects) \cup Permutations(Calls)

-----------------------------------------------------------------------------
\* The list of joined rooms an Intent keeps, in Intents.
KnownIsTrue == part = "intents" => Intents!KnownIsTrue
\* What is sent through an Intent, in Intents.
SendsFromInside == part = "intents" => Intents!SendsFromInside
\* What joinRoom tells its caller, in JoinStrategies, and who is brought into a
\* room by the mixins, in Autojoin.
JoinIsTold ==
    /\ part = "joins" => Joins!JoinIsTold
    /\ part = "mixins" => Autojoin!Followed
\* The device of an Intent's client and of its crypto, in IntentCrypto, and what
\* its machine hears of transactions, in Machines.
DeviceAgrees ==
    /\ part = "crypto" => Crypto!DeviceAgrees
    /\ part = "machines" => Machines!MachinesHear
\* One answer per request, in Queries.
AnsweredOnce == part = "queries" => Queries!AnsweredOnce
\* Both directions of a mapping, in BridgeMap.
MappedBack == part = "bridge" => Bridge!MappedBack
=============================================================================
