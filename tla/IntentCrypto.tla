---------------------------- MODULE IntentCrypto ----------------------------
(***************************************************************************)
(* Intent.enableEncryption (src/src/appservice/Intent.ts:103) with           *)
(* CryptoClient.prepare (src/src/e2ee/CryptoClient.ts:77): how an Intent     *)
(* comes to a device. It takes the device of the crypto store, or one of    *)
(* the user's devices without keys, by impersonation if the homeserver      *)
(* supports it, and else logs in; prepare() takes the device of the store   *)
(* or asks whoami. Two Intents of a user, one of them evicted from the LRU, *)
(* may do this at once, over one storage and one crypto store.              *)
(***************************************************************************)
EXTENDS FiniteSets

CONSTANTS
    Objects,       \* Intent objects of the user
    Devices,       \* device IDs the homeserver can give out
    NoDevice,
    SetUpFaults    \* subset of {"request", "token", "crash", "delete"}

VARIABLES
    \* homeserver: the user's devices, those with keys, and whether it
    \* supports impersonating a device
    devices, keyed, supports,
    \* storage: isUserRegistered, accessToken (as the device it logs in);
    \* crypto store: deviceId
    isRegistered, storedToken, storedDevice,
    \* per Intent: where cryptoSetupPromise is; deviceId and ownDevices; the
    \* device the client acts as; deviceId in the client's crypto store, which
    \* is read from disk when the client is made; the device of the OlmMachine
    setup, deviceId, ownDevices, acting, loaded, machine,
    \* history: what happened that may separate the two
    upsets

homeserver == <<devices, keyed, supports>>
disk       == <<isRegistered, storedToken, storedDevice>>
local      == <<deviceId, ownDevices, acting, loaded, machine>>
cryptoVars == <<homeserver, disk, setup, local, upsets>>

Running == {"register", "devices", "keys", "impersonate", "token", "login",
            "prepare", "whoami", "run"}

Blank == [i \in Objects |-> NoDevice]

Init ==
    /\ devices = {} /\ keyed = {} /\ supports \in BOOLEAN
    /\ isRegistered = FALSE /\ storedToken = NoDevice /\ storedDevice = NoDevice
    /\ setup = [i \in Objects |-> "none"]
    /\ ownDevices = [i \in Objects |-> {}]
    /\ deviceId = Blank /\ acting = Blank /\ loaded = Blank /\ machine = Blank
    /\ upsets = {}

At(i, label)   == setup[i] = label
GoTo(i, label) == setup' = [setup EXCEPT ![i] = label]
Set(f, i, d)   == [f EXCEPT ![i] = d]

\* makeClient(true): a client with a crypto store of its own.
MakeClient(i, d) ==
    /\ acting' = Set(acting, i, d)
    /\ loaded' = Set(loaded, i, storedDevice)

-----------------------------------------------------------------------------
(* enableEncryption *)

\* The first call makes the promise, all others get the same one. A rejected
\* promise stays, so a failed set-up is never tried again.
EnableEncryption(i) ==
    /\ At(i, "none")
    /\ GoTo(i, "register")
    /\ upsets' = IF \E j \in Objects : setup[j] \in Running
                 THEN upsets \cup {"beside"} ELSE upsets
    /\ UNCHANGED <<homeserver, disk, local>>

\* ensureRegistered: a registration creates a device.
EnsureRegistered(i) ==
    /\ At(i, "register")
    /\ \/ isRegistered /\ UNCHANGED devices
       \/ ~isRegistered /\ \E d \in Devices : devices' = devices \cup {d}
    /\ isRegistered' = TRUE
    /\ GoTo(i, "devices")
    /\ UNCHANGED <<keyed, supports, storedToken, storedDevice, local, upsets>>

\* getOwnDevices, and getDeviceId of a crypto store just opened.
GetOwnDevices(i) ==
    /\ At(i, "devices")
    /\ ownDevices' = [ownDevices EXCEPT ![i] = devices]
    /\ deviceId' = Set(deviceId, i, storedDevice)
    /\ GoTo(i, IF storedDevice \in devices THEN "impersonate" ELSE "keys")
    /\ UNCHANGED <<homeserver, disk, acting, loaded, machine, upsets>>

\* getUserDevices: a device without keys is taken. A user without any keys may
\* be missing from the answer, and then the stored device is kept.
GetUserDevices(i) ==
    /\ At(i, "keys")
    /\ \/ \E d \in ownDevices[i] \ keyed : deviceId' = Set(deviceId, i, d)
       \/ ownDevices[i] \subseteq keyed /\ deviceId' = Set(deviceId, i, NoDevice)
       \/ keyed = {} /\ UNCHANGED deviceId
    /\ GoTo(i, IF deviceId'[i] = NoDevice THEN "token" ELSE "impersonate")
    /\ UNCHANGED <<homeserver, disk, ownDevices, acting, loaded, machine, upsets>>

\* A client that impersonates the device, if whoami confirms it.
Impersonate(i) ==
    /\ At(i, "impersonate")
    /\ MakeClient(i, deviceId[i])
    /\ GoTo(i, CASE ~supports -> "token"
                 [] supports /\ deviceId[i] \in devices -> "prepare"
                 [] OTHER -> "failed")
    /\ UNCHANGED <<homeserver, disk, deviceId, ownDevices, machine, upsets>>

\* readValue("accessToken")
ReadToken(i) ==
    /\ At(i, "token")
    /\ IF storedToken = NoDevice
       THEN GoTo(i, "login") /\ UNCHANGED <<acting, loaded>>
       ELSE GoTo(i, "prepare") /\ MakeClient(i, storedToken)
    /\ UNCHANGED <<homeserver, disk, deviceId, ownDevices, machine, upsets>>

\* A login creates a device. Nobody waits for storeValue, which may fail.
Login(i) ==
    /\ At(i, "login")
    /\ \E d \in Devices \ devices :
           /\ devices' = devices \cup {d}
           /\ MakeClient(i, d)
           /\ \/ storedToken' = d /\ UNCHANGED upsets
              \/ /\ "token" \in SetUpFaults
                 /\ upsets' = upsets \cup {"token"}
                 /\ UNCHANGED storedToken
    /\ GoTo(i, "prepare")
    /\ UNCHANGED <<keyed, supports, isRegistered, storedDevice, deviceId, ownDevices, machine>>

-----------------------------------------------------------------------------
(* refreshJoinedRooms and crypto.prepare *)

\* Faulty variant: the device of the store is not looked at.
PrepareAnew(i) ==
    /\ At(i, "prepare")
    /\ acting[i] \in devices
    /\ machine' = Set(machine, i, deviceId[i])
    /\ GoTo(i, IF deviceId[i] = NoDevice THEN "whoami" ELSE "run")
    /\ UNCHANGED <<homeserver, disk, deviceId, ownDevices, acting, loaded, upsets>>

\* The device in the store is the machine's, whatever device the client is.
Prepare(i) ==
    /\ At(i, "prepare")
    /\ acting[i] \in devices
    /\ machine' = Set(machine, i, loaded[i])
    /\ GoTo(i, IF loaded[i] = NoDevice THEN "whoami" ELSE "run")
    /\ UNCHANGED <<homeserver, disk, deviceId, ownDevices, acting, loaded, upsets>>

\* whoami and setDeviceId
WhoAmI(i) ==
    /\ At(i, "whoami")
    /\ acting[i] \in devices
    /\ machine' = Set(machine, i, acting[i])
    /\ storedDevice' = acting[i]
    /\ GoTo(i, "run")
    /\ UNCHANGED <<homeserver, isRegistered, storedToken, deviceId, ownDevices, acting, loaded, upsets>>

\* OlmMachine.initialize and engine.run, which uploads the keys; the listener
\* of room.event is added.
Run(i) ==
    /\ At(i, "run")
    /\ acting[i] \in devices
    /\ keyed' = keyed \cup {acting[i]}
    /\ GoTo(i, "ready")
    /\ UNCHANGED <<devices, supports, disk, local, upsets>>

\* Any request may fail, and does for a device that is gone.
Fail(i) ==
    /\ setup[i] \in Running
    /\ \/ "request" \in SetUpFaults
       \/ setup[i] \in {"prepare", "whoami", "run"} /\ acting[i] \notin devices
    /\ GoTo(i, "failed")
    /\ UNCHANGED <<homeserver, disk, local, upsets>>

-----------------------------------------------------------------------------
(* Others *)

DeleteDevice(d) ==
    /\ "delete" \in SetUpFaults
    /\ d \in devices
    /\ devices' = devices \ {d}
    /\ keyed' = keyed \ {d}
    /\ upsets' = upsets \cup {"delete"}
    /\ UNCHANGED <<supports, disk, setup, local>>

\* The process ends and starts again.
Crash ==
    /\ "crash" \in SetUpFaults
    /\ \E i \in Objects : setup[i] # "none"
    /\ setup' = [i \in Objects |-> "none"]
    /\ ownDevices' = [i \in Objects |-> {}]
    /\ deviceId' = Blank /\ acting' = Blank /\ loaded' = Blank /\ machine' = Blank
    /\ UNCHANGED <<homeserver, disk, upsets>>

IntentStep(i) ==
    \/ EnableEncryption(i) \/ EnsureRegistered(i) \/ GetOwnDevices(i) \/ GetUserDevices(i)
    \/ Impersonate(i) \/ ReadToken(i) \/ Login(i)
    \/ Prepare(i) \/ WhoAmI(i) \/ Run(i) \/ Fail(i)

Next ==
    \/ \E i \in Objects : IntentStep(i)
    \/ \E d \in Devices : DeleteDevice(d)
    \/ Crash

Spec == Init /\ [][Next]_cryptoVars

-----------------------------------------------------------------------------
(* Properties *)

\* An Intent that is ready has the keys of the device its requests are made as,
\* after any failures, restarts and half-finished set-ups, unless a device was
\* deleted, an access token was not written, or two Intents of the user were
\* set up at once.
DeviceAgrees ==
    \A i \in Objects :
        At(i, "ready") /\ upsets = {} => machine[i] = acting[i]
=============================================================================
