----------------------------- MODULE RoomCrypto -----------------------------
(***************************************************************************)
(* Whether a joined room is encrypted, as far as the client knows           *)
(* (src/src/e2ee/RoomTracker.ts, the crypto store) and what sendEvent makes *)
(* of it (src/src/MatrixClient.ts, src/src/e2ee/CryptoClient.ts).           *)
(*                                                                         *)
(* The store learns of a room's encryption from checks: one by prepare(),   *)
(* one per state event the sync brings, one by whoever asks for a config    *)
(* that is not there. A check reads the homeserver twice and the store      *)
(* twice; nobody awaits the checks of events and nothing keeps two of them  *)
(* apart. A send asks for the config three times before it encrypts.        *)
(***************************************************************************)
EXTENDS Integers, Sequences

CONSTANTS
    Calls,          \* bound: calls of the client alive at once
    Visibilities,   \* values of m.room.history_visibility
    MaxChanges,     \* bound: state events in the room
    None,           \* no config
    Unknown,        \* a config whose historyVisibility is undefined
    Faults          \* what may fail: a subset of FaultKinds

\* "state": a read of the room's state fails; "gap": the timeline of a sync
\* response leaves an event out; "crash": the process ends.
FaultKinds == {"state", "gap", "crash"}

ASSUME CryptoAssumption ==
    /\ MaxChanges \in Nat
    /\ Faults \subseteq FaultKinds
    /\ {None, Unknown} \cap Visibilities = {}
    /\ None # Unknown

VARIABLES
    encrypted,      \* homeserver: m.room.encryption is set
    visibility,     \* homeserver: m.room.history_visibility
    changes,        \* homeserver: state events so far
    unseen,         \* state events the sync has not brought yet
    store,          \* cryptoStore: the config's historyVisibility, or None
    phase,          \* the client: "off", "preparing" or "on"
    pc,             \* where each call waits
    goal,           \* what the call needs the config or the check for
    found,          \* queueRoomCheck: historyVisibility
    marks,          \* history: what is to be remembered of a call, of Marks
    encryptedWith,  \* history: the visibilities since encryption was set
    missed          \* history: a check failed or an event was left out

room    == <<encrypted, visibility, changes>>
local   == <<pc, goal, found, marks>>
history == <<encryptedWith, missed>>
vars == <<room, unseen, store, phase, local, history>>

EventKinds == {"join", "encryption", "visibility"}
Config == Visibilities \cup {Unknown}

\* A check is one call of queueRoomCheck. A config is needed by onRoomJoin
\* ("track"), and three times by sendEvent.
CheckGoals  == {"prepare", "event", "join"}
ConfigGoals == {"track", "send", "encrypt", "share"}
CheckPcs    == {"look", "algorithm", "visibility", "store"}
ConfigPcs   == {"config", "reread"}
SendPcs     == {"clear", "cipher", "refused"}

\* When sendEvent was called the room was encrypted, the store had a config;
\* later, the call failed to read m.room.encryption.
Marks == {"encrypted", "known", "failed"}

-----------------------------------------------------------------------------
\* The bot is in a room, or has just been told so by the sync.
Init ==
    /\ encrypted \in BOOLEAN
    /\ visibility \in Visibilities
    /\ changes = 0
    /\ unseen \in {<<>>, <<"join">>}
    /\ store = None
    /\ phase = "off"
    /\ pc = [c \in Calls |-> "idle"]
    /\ goal = [c \in Calls |-> "event"]
    /\ found = [c \in Calls |-> Unknown]
    /\ marks = [c \in Calls |-> {}]
    /\ encryptedWith = IF encrypted THEN {visibility} ELSE {}
    /\ missed = FALSE

-----------------------------------------------------------------------------
(* The room. Encryption is never turned off. *)

StateEvent(kind) ==
    /\ changes < MaxChanges
    /\ changes' = changes + 1
    /\ unseen' = Append(unseen, kind)

EnableEncryption ==
    /\ ~encrypted
    /\ encrypted' = TRUE
    /\ StateEvent("encryption")
    /\ encryptedWith' = {visibility}
    /\ UNCHANGED <<visibility, store, phase, local, missed>>

SetVisibility(v) ==
    /\ v # visibility
    /\ visibility' = v
    /\ StateEvent("visibility")
    /\ encryptedWith' = IF encrypted THEN encryptedWith \cup {v} ELSE {}
    /\ UNCHANGED <<encrypted, store, phase, local, missed>>

-----------------------------------------------------------------------------
(* queueRoomCheck *)

\* The call goes on to the next await, for the same reason or another.
GoOn(c, why, label) ==
    /\ pc' = [pc EXCEPT ![c] = label]
    /\ goal' = [goal EXCEPT ![c] = why]
    /\ UNCHANGED <<found, phase>>

GoTo(c, label) == GoOn(c, goal[c], label)

\* The call ends; prepare() makes the client ready.
End(c) ==
    /\ pc' = [pc EXCEPT ![c] = "idle"]
    /\ goal' = [goal EXCEPT ![c] = "event"]
    /\ found' = [found EXCEPT ![c] = Unknown]
    /\ marks' = [marks EXCEPT ![c] = {}]
    /\ phase' = IF goal[c] = "prepare" THEN "on" ELSE phase

\* What comes after the check
CheckDone(c, marksNow) ==
    IF goal[c] \in {"prepare", "event"} THEN End(c)
    ELSE /\ IF goal[c] = "join" THEN GoOn(c, "track", "config")
                               ELSE GoTo(c, "reread")
         /\ marks' = [marks EXCEPT ![c] = marksNow]

\* cryptoStore.getRoom: a config that is there is not looked at again.
Look(c) ==
    /\ pc[c] = "look"
    /\ IF store = None THEN GoTo(c, "algorithm") /\ UNCHANGED marks
                       ELSE CheckDone(c, marks[c])
    /\ UNCHANGED <<room, unseen, store, history>>

\* The homeserver reads m.room.encryption: there is none, or the visibility
\* is read next.
Algorithm(c) ==
    /\ pc[c] = "algorithm"
    /\ IF encrypted THEN GoTo(c, "visibility") /\ UNCHANGED marks
                    ELSE CheckDone(c, marks[c])
    /\ UNCHANGED <<room, unseen, store, history>>

\* Faulty variants: the check goes on without an encryption event; it forgets
\* the room.
AlgorithmFailsOn(c) ==
    /\ "state" \in Faults
    /\ pc[c] = "algorithm"
    /\ GoTo(c, "visibility")
    /\ missed' = TRUE
    /\ UNCHANGED <<room, unseen, store, marks, encryptedWith>>

AlgorithmFailsForgets(c) ==
    /\ "state" \in Faults
    /\ pc[c] = "algorithm"
    /\ store' = None
    /\ CheckDone(c, marks[c] \cup {"failed"})
    /\ missed' = TRUE
    /\ UNCHANGED <<room, unseen, encryptedWith>>

\* Any failure counts as no encryption.
AlgorithmFails(c) ==
    /\ "state" \in Faults
    /\ pc[c] = "algorithm"
    /\ CheckDone(c, marks[c] \cup {"failed"})
    /\ missed' = TRUE
    /\ UNCHANGED <<room, unseen, store, encryptedWith>>

\* The homeserver reads m.room.history_visibility, or fails to.
Visibility(c) ==
    /\ pc[c] = "visibility"
    /\ pc' = [pc EXCEPT ![c] = "store"]
    /\ \/ found' = [found EXCEPT ![c] = visibility]
       \/ "state" \in Faults /\ found' = [found EXCEPT ![c] = Unknown]
    /\ UNCHANGED <<room, unseen, store, phase, goal, marks, history>>

StoreRoom(c) ==
    /\ pc[c] = "store"
    /\ store' = found[c]
    /\ CheckDone(c, marks[c])
    /\ UNCHANGED <<room, unseen, history>>

-----------------------------------------------------------------------------
(* prepare and the events of the sync *)

Begin(c, why, label) ==
    /\ pc[c] = "idle"
    /\ pc' = [pc EXCEPT ![c] = label]
    /\ goal' = [goal EXCEPT ![c] = why]
    /\ UNCHANGED found

\* start(): the client is ready once the rooms it is in are checked.
Prepare(c) ==
    /\ phase = "off"
    /\ phase' = "preparing"
    /\ Begin(c, "prepare", "look")
    /\ missed' = FALSE
    /\ UNCHANGED <<room, unseen, store, marks, encryptedWith>>

\* Faulty variant: only a change of the visibility causes a check.
SeeNotEncryption(c) ==
    /\ phase = "on"
    /\ unseen # <<>>
    /\ unseen' = Tail(unseen)
    /\ IF Head(unseen) = "encryption" THEN UNCHANGED <<pc, goal, found>>
       ELSE Begin(c, IF Head(unseen) = "join" THEN "join" ELSE "event", "look")
    /\ UNCHANGED <<room, store, phase, marks, history>>

\* onRoomEvent and onRoomJoin, on an event the sync brings. The sync loop does
\* not wait for them.
See(c) ==
    /\ phase = "on"
    /\ unseen # <<>>
    /\ unseen' = Tail(unseen)
    /\ Begin(c, IF Head(unseen) = "join" THEN "join" ELSE "event", "look")
    /\ UNCHANGED <<room, store, phase, marks, history>>

\* The timeline is limited and begins after the event.
LeaveOut ==
    /\ "gap" \in Faults
    /\ phase = "on"
    /\ unseen # <<>>
    /\ unseen' = Tail(unseen)
    /\ missed' = TRUE
    /\ UNCHANGED <<room, store, phase, local, encryptedWith>>

-----------------------------------------------------------------------------
(* getRoomCryptoConfig and sendEvent *)

SendEvent(c) ==
    /\ phase = "on"
    /\ Begin(c, "send", "config")
    /\ marks' = [marks EXCEPT ![c] =
           {m \in {"encrypted", "known"} :
               IF m = "encrypted" THEN encrypted ELSE store # None}]
    /\ UNCHANGED <<room, unseen, store, phase, history>>

\* What a call does with the config it waited for: sendEvent encrypts if there
\* is one, encryptRoomEvent throws if there is none, prepareEncrypt takes what
\* it gets.
Use(c, config) ==
    \/ goal[c] = "track" /\ End(c)
    \/ /\ \/ goal[c] = "send" /\ config = None /\ GoTo(c, "clear")
          \/ goal[c] = "send" /\ config # None /\ GoOn(c, "encrypt", "config")
          \/ goal[c] = "encrypt" /\ config = None /\ GoTo(c, "refused")
          \/ goal[c] = "encrypt" /\ config # None /\ GoOn(c, "share", "config")
          \/ goal[c] = "share" /\ GoTo(c, "cipher")
       /\ UNCHANGED marks

\* Faulty variant: a room that is not in the store is not checked.
ReadConfigOnce(c) ==
    /\ pc[c] = "config"
    /\ Use(c, store)
    /\ UNCHANGED <<room, unseen, store, history>>

\* cryptoStore.getRoom: without a config a check is made,
ReadConfig(c) ==
    /\ pc[c] = "config"
    /\ IF store = None THEN GoTo(c, "look") /\ UNCHANGED marks
                       ELSE Use(c, store)
    /\ UNCHANGED <<room, unseen, store, history>>

\* and the store is read again after it.
RereadConfig(c) ==
    /\ pc[c] = "reread"
    /\ Use(c, store)
    /\ UNCHANGED <<room, unseen, store, history>>

\* The message is sent, in clear or encrypted, or the call rejects.
SendEnds(c) ==
    /\ pc[c] \in SendPcs
    /\ End(c)
    /\ UNCHANGED <<room, unseen, store, history>>

-----------------------------------------------------------------------------
\* Faulty variant: the new process believes to be ready.
CrashStaysReady ==
    /\ "crash" \in Faults
    /\ phase # "off"
    /\ phase' = phase
    /\ \E n \in 0..Len(unseen) : unseen' = SubSeq(unseen, n + 1, Len(unseen))
    /\ pc' = [c \in Calls |-> "idle"]
    /\ goal' = [c \in Calls |-> "event"]
    /\ found' = [c \in Calls |-> Unknown]
    /\ marks' = [c \in Calls |-> {}]
    /\ UNCHANGED <<room, store, history>>

\* The process ends, and with it every call. The store is on disk; the sync
\* token may be past events the client did not see.
Crash ==
    /\ "crash" \in Faults
    /\ phase # "off"
    /\ phase' = "off"
    /\ \E n \in 0..Len(unseen) : unseen' = SubSeq(unseen, n + 1, Len(unseen))
    /\ pc' = [c \in Calls |-> "idle"]
    /\ goal' = [c \in Calls |-> "event"]
    /\ found' = [c \in Calls |-> Unknown]
    /\ marks' = [c \in Calls |-> {}]
    /\ UNCHANGED <<room, store, history>>

CallStep(c) ==
    \/ Look(c) \/ Algorithm(c) \/ AlgorithmFails(c) \/ Visibility(c) \/ StoreRoom(c)
    \/ Prepare(c) \/ See(c)
    \/ SendEvent(c) \/ ReadConfig(c) \/ RereadConfig(c) \/ SendEnds(c)

Next ==
    \/ EnableEncryption
    \/ \E v \in Visibilities : SetVisibility(v)
    \/ LeaveOut
    \/ \E c \in Calls : CallStep(c)
    \/ Crash

Spec == Init /\ [][Next]_vars

-----------------------------------------------------------------------------
(* Properties *)

\* The last conjunct: the client is preparing as long as prepare() runs.
TypeOK ==
    /\ encrypted \in BOOLEAN
    /\ visibility \in Visibilities
    /\ changes \in 0..MaxChanges
    /\ unseen \in Seq(EventKinds)
    /\ store \in Config \cup {None}
    /\ phase \in {"off", "preparing", "on"}
    /\ pc \in [Calls -> {"idle"} \cup CheckPcs \cup ConfigPcs \cup SendPcs]
    /\ goal \in [Calls -> CheckGoals \cup ConfigGoals]
    /\ found \in [Calls -> Config]
    /\ marks \in [Calls -> SUBSET Marks]
    /\ encryptedWith \subseteq Visibilities
    /\ missed \in BOOLEAN
    /\ phase = "preparing" <=> \E c \in Calls : goal[c] = "prepare"

\* A call of sendEvent made when the store has a config for the room never
\* sends in clear, whatever the checks in flight and the homeserver do.
KnownStaysEncrypted ==
    \A c \in Calls : pc[c] = "clear" => "known" \notin marks[c]

\* A message goes out in clear to a room that was encrypted when sendEvent was
\* called only if this call itself failed to read the encryption event.
ClearForAReason ==
    \A c \in Calls :
        pc[c] = "clear" /\ "encrypted" \in marks[c] => "failed" \in marks[c]

\* Once sendEvent has found the room encrypted, encryptRoomEvent does not throw
\* "Room is not encrypted".
NeverRefused == \A c \in Calls : pc[c] # "refused"

\* When nothing is in flight the store knows of the encryption of the room, if
\* no check failed and no event was left out since prepare(). A crash may lose
\* events: prepare() makes up for them.
Quiet == phase = "on" /\ unseen = <<>> /\ \A c \in Calls : pc[c] = "idle"

EncryptionIsNoticed == Quiet /\ encrypted /\ ~missed => store # None

\* Encryption is stored with a visibility the room had after it was enabled,
\* never with one from before: the visibility is read after the encryption.
\* In particular a room that is not encrypted is never stored.
StoredWhenEncrypted ==
    store # None => encrypted /\ store \in encryptedWith \cup {Unknown}

\* sendMessage: "The message will be encrypted if the client supports
\* encryption and the room is encrypted" (src/src/MatrixClient.ts:1354). It is
\* not when the check reads the encryption event and fails.
EncryptsWhenEncrypted ==
    \A c \in Calls : pc[c] = "clear" => "encrypted" \notin marks[c]
=============================================================================
