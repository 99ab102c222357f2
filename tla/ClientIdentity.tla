--------------------------- MODULE ClientIdentity ---------------------------
(***************************************************************************)
(* What a MatrixClient remembers of who it is and of its homeserver: the   *)
(* user and device it impersonates, the cached user ID, and the cached     *)
(* versions of the server. Calls may be in flight while the identity       *)
(* changes, answers come late, in any order, or not at all.                *)
(***************************************************************************)
EXTENDS Naturals

CONSTANTS
    Bot,               \* the user of the access token
    Users, Devices, None,
    Calls,
    VersionsCacheMs,   \* VERSIONS_CACHE_MS
    Timeout,           \* of a request
    MaxTime,           \* bound: the clock
    MaxImpersonations  \* bound: changes of identity

VARIABLES
    impersonatedUserId, impersonatedDeviceId, userId,
    cachedVersions,      \* when the homeserver gave them, or None
    versionsLastFetched,
    now,
    call,                \* getUserId, getWhoAmI and getServerVersions under way
    given,               \* history: the device last given with each user
    changed,             \* history: changes of identity
    misused,             \* history: impersonateUserId threw
    late                 \* history: a whoami of another identity was answered
                         \* after the last change

identityVars == <<impersonatedUserId, impersonatedDeviceId, userId, cachedVersions,
                  versionsLastFetched, now, call, given, changed, misused, late>>

\* The account of the access token.
NoCall == [pc |-> "idle", fn |-> None, user |-> None, device |-> None, at |-> 0, value |-> None]

Init ==
    /\ impersonatedUserId = None /\ impersonatedDeviceId = None /\ userId = None
    /\ cachedVersions = None /\ versionsLastFetched = 0
    /\ now = 0
    /\ call = [c \in Calls |-> NoCall]
    /\ given = [u \in Users |-> None]
    /\ changed = 0 /\ misused = FALSE /\ late = FALSE

-----------------------------------------------------------------------------
(* Impersonation *)

\* Faulty variant: the cached user ID stays.
UserIdKept(user) == userId

\* The cached user ID after an impersonation.
UserIdAfter(user) == user

\* A device without a user is refused after the user IDs were cleared: the old
\* device stays.
ImpersonateUserId(user, device) ==
    /\ changed < MaxImpersonations
    /\ changed' = changed + 1
    /\ impersonatedUserId' = user
    /\ userId' = UserIdAfter(user)
    /\ impersonatedDeviceId' = IF user = None /\ device # None THEN impersonatedDeviceId ELSE device
    /\ given' = IF user \in Users THEN [given EXCEPT ![user] = device] ELSE given
    /\ misused' = (user = None /\ device # None)
    /\ late' = FALSE
    /\ UNCHANGED <<cachedVersions, versionsLastFetched, now, call>>

-----------------------------------------------------------------------------
(* Requests *)

\* doRequest sends the identity of that moment.
DoRequest(c, fn) ==
    call' = [call EXCEPT ![c] = [NoCall EXCEPT !.pc = "asked", !.fn = fn, !.at = now,
                 !.user = impersonatedUserId, !.device = impersonatedDeviceId]]

Return(c, fn, value) ==
    call' = [call EXCEPT ![c] = [NoCall EXCEPT !.pc = "told", !.fn = fn, !.at = now, !.value = value]]

GetUserId(c) ==
    /\ call[c].pc = "idle"
    /\ IF userId # None THEN Return(c, "getUserId", userId) ELSE DoRequest(c, "getUserId")
    /\ UNCHANGED <<impersonatedUserId, impersonatedDeviceId, userId, cachedVersions,
                   versionsLastFetched, now, given, changed, misused, late>>

GetWhoAmI(c) ==
    /\ call[c].pc = "idle"
    /\ DoRequest(c, "getWhoAmI")
    /\ UNCHANGED <<impersonatedUserId, impersonatedDeviceId, userId, cachedVersions,
                   versionsLastFetched, now, given, changed, misused, late>>

GetServerVersions(c) ==
    /\ call[c].pc = "idle"
    /\ IF cachedVersions = None \/ now - versionsLastFetched >= VersionsCacheMs
       THEN DoRequest(c, "getServerVersions")
       ELSE Return(c, "getServerVersions", cachedVersions)
    /\ UNCHANGED <<impersonatedUserId, impersonatedDeviceId, userId, cachedVersions,
                   versionsLastFetched, now, given, changed, misused, late>>

\* The homeserver answers: who the request was made as, or its versions.
ServerAnswers(c) ==
    /\ call[c].pc = "asked"
    /\ call' = [call EXCEPT ![c].pc = "answered",
                    ![c].value = IF call[c].fn = "getServerVersions" THEN now
                                 ELSE IF call[c].user = None THEN Bot ELSE call[c].user]
    /\ UNCHANGED <<impersonatedUserId, impersonatedDeviceId, userId, cachedVersions,
                   versionsLastFetched, now, given, changed, misused, late>>

Acting == IF impersonatedUserId = None THEN Bot ELSE impersonatedUserId

\* The user ID of the answer is remembered, whoever the client is now.
WhoAmIArrives(c) ==
    /\ call[c].pc = "answered" /\ call[c].fn \in {"getUserId", "getWhoAmI"}
    /\ userId' = call[c].value
    /\ late' = (late \/ call[c].value # Acting)
    /\ call' = [call EXCEPT ![c].pc = "told"]
    /\ UNCHANGED <<impersonatedUserId, impersonatedDeviceId, cachedVersions,
                   versionsLastFetched, now, given, changed, misused>>

VersionsArrive(c) ==
    /\ call[c].pc = "answered" /\ call[c].fn = "getServerVersions"
    /\ cachedVersions' = call[c].value
    /\ versionsLastFetched' = now
    /\ Return(c, "getServerVersions", call[c].value)
    /\ UNCHANGED <<impersonatedUserId, impersonatedDeviceId, userId, now, given, changed,
                   misused, late>>

\* The request fails or times out: nothing is remembered.
RequestFails(c) ==
    /\ call[c].pc \in {"asked", "answered"}
    /\ call' = [call EXCEPT ![c] = NoCall]
    /\ UNCHANGED <<impersonatedUserId, impersonatedDeviceId, userId, cachedVersions,
                   versionsLastFetched, now, given, changed, misused, late>>

Take(c) ==
    /\ call[c].pc = "told"
    /\ call' = [call EXCEPT ![c] = NoCall]
    /\ UNCHANGED <<impersonatedUserId, impersonatedDeviceId, userId, cachedVersions,
                   versionsLastFetched, now, given, changed, misused, late>>

\* No request outlives its timeout; what was told is taken at once.
Tick ==
    /\ now < MaxTime
    /\ \A c \in Calls : /\ call[c].pc # "told"
                        /\ call[c].pc \in {"asked", "answered"} => now - call[c].at < Timeout
    /\ now' = now + 1
    /\ UNCHANGED <<impersonatedUserId, impersonatedDeviceId, userId, cachedVersions,
                   versionsLastFetched, call, given, changed, misused, late>>

Next ==
    \/ \E user \in Users \cup {None}, device \in Devices \cup {None} :
           ImpersonateUserId(user, device)
    \/ \E c \in Calls :
           \/ GetUserId(c) \/ GetWhoAmI(c) \/ GetServerVersions(c)
           \/ ServerAnswers(c) \/ WhoAmIArrives(c) \/ VersionsArrive(c)
           \/ RequestFails(c) \/ Take(c)
    \/ Tick

Spec == Init /\ [][Next]_identityVars

-----------------------------------------------------------------------------
(* Properties *)

\* The remembered user ID is the one the homeserver takes the client for,
\* unless a whoami of an earlier identity was answered since the last change.
RemembersItself == userId = None \/ userId = Acting \/ late

\* A request carries the device that was given with its user, and none without
\* a user, unless impersonateUserId was last told a device alone.
DeviceOfUser ==
    ~misused => impersonatedDeviceId = IF impersonatedUserId = None THEN None
                                       ELSE given[impersonatedUserId]

\* Versions told are at most the cache's time and one request old, also when an
\* older answer arrives after a newer one.
VersionsAreFresh ==
    \A c \in Calls : call[c].pc = "told" /\ call[c].fn = "getServerVersions" =>
                         now - call[c].value < VersionsCacheMs + Timeout

\* The client's memory of itself and of its server.
MemoryHolds == RemembersItself /\ DeviceOfUser /\ VersionsAreFresh
=============================================================================
