-------------------------- MODULE OutgoingRequests --------------------------
(***************************************************************************)
(* RustEngine (src/src/e2ee/RustEngine.ts) and the calls of CryptoClient    *)
(* that use it: what they ask of the OlmMachine and send to the homeserver, *)
(* under the sync lock, the lock of the room, or none. The OlmMachine is a *)
(* library: the model has what it must keep for these calls to make sense, *)
(* and it starts a new room key when one of its holders is not in the list *)
(* of members it is given.                                                 *)
(***************************************************************************)
EXTENDS Naturals, FiniteSets

CONSTANTS
    Users,
    Tasks,         \* calls of CryptoClient, one use each
    Messages,      \* to-device messages the machine has to send on its own
    Nobody,
    EngineFaults   \* subset of {"request", "keys", "unsupported"}

VARIABLES
    member,        \* homeserver: who is in the room
    delivered,     \* homeserver: how often it got a to-device message
    \* the machine: users whose devices it follows, whose devices it knows,
    \* with whom it has sessions; messages to send; who has the room key, for
    \* whom it is to be sent
    tracked, known, session, outgoing, keyed, toShare,
    syncLock, roomLock,
    task,
    \* history: messages that may be sent twice; messages the machine wanted sent
    excused, wanted

machine    == <<tracked, known, session, keyed, toShare>>
locks      == <<syncLock, roomLock>>
engineVars == <<member, delivered, outgoing, machine, locks, task, excused, wanted>>

Kinds == {"encrypt", "sync", "track"}

New == [pc |-> "new", kind |-> "sync", members |-> {}, queue |-> {}, next |-> Nobody,
        keyless |-> {}, overtaken |-> FALSE]

Init ==
    /\ member \in {m \in SUBSET Users : m # {}}
    /\ delivered = [m \in Messages |-> 0]
    /\ tracked = {} /\ known = {} /\ session = {} /\ outgoing = {}
    /\ keyed = {} /\ toShare = {}
    /\ syncLock = Nobody /\ roomLock = Nobody
    /\ task = [t \in Tasks |-> New]
    /\ excused = {} /\ wanted = {}

At(t, label)   == task[t].pc = label
GoTo(t, label) == task' = [task EXCEPT ![t].pc = label]

\* The call is over; a lock it holds is released, if it throws too.
End(t) ==
    /\ task' = [task EXCEPT ![t] = [New EXCEPT !.pc = "done"]]
    /\ syncLock' = IF syncLock = t THEN Nobody ELSE syncLock
    /\ roomLock' = IF roomLock = t THEN Nobody ELSE roomLock

-----------------------------------------------------------------------------
(* Calls *)

\* encryptRoomEvent reads the members of the room, outside any lock.
GetMembers(t) ==
    /\ At(t, "new")
    /\ task' = [task EXCEPT ![t] = [New EXCEPT !.pc = "sync", !.kind = "encrypt", !.members = member]]
    /\ UNCHANGED <<member, delivered, outgoing, machine, locks, excused, wanted>>

\* updateSyncData; addTrackedUsers for some users.
Call(t) ==
    /\ At(t, "new")
    /\ \/ task' = [task EXCEPT ![t] = [New EXCEPT !.pc = "sync"]]
       \/ \E u \in SUBSET Users :
              task' = [task EXCEPT ![t] = [New EXCEPT !.pc = "sync", !.kind = "track", !.members = u]]
    /\ UNCHANGED <<member, delivered, outgoing, machine, locks, excused, wanted>>

\* lock.acquire("sync"): updateTrackedUsers, or receiveSyncChanges, which may
\* make the machine want to send something.
AcquireSync(t) ==
    /\ At(t, "sync")
    /\ syncLock = Nobody
    /\ syncLock' = t
    /\ IF task[t].kind = "sync"
       THEN /\ \E new \in SUBSET {m \in Messages : delivered[m] = 0} :
                   /\ outgoing' = outgoing \cup new
                   /\ wanted' = wanted \cup new
            /\ GoTo(t, "run")
            /\ UNCHANGED tracked
       ELSE /\ tracked' = tracked \cup task[t].members
            /\ GoTo(t, IF task[t].kind = "encrypt" THEN "query" ELSE "claim")
            /\ UNCHANGED <<outgoing, wanted>>
    /\ UNCHANGED <<member, delivered, known, session, keyed, toShare, roomLock, excused>>

\* Faulty variant: every task goes on to claim keys without asking for devices.
KeysQueryNever(t) ==
    /\ At(t, "query")
    /\ GoTo(t, "claim")
    /\ UNCHANGED <<member, delivered, outgoing, machine, locks, excused, wanted>>

\* runOnly(KeysQuery): the devices of the users followed.
KeysQuery(t) ==
    /\ At(t, "query")
    /\ known' = known \cup tracked
    /\ GoTo(t, "claim")
    /\ UNCHANGED <<member, delivered, outgoing, tracked, session, keyed, toShare, locks, excused, wanted>>

\* getMissingSessions and the claim; a device may have no keys left. The sync
\* lock is released.
KeysClaim(t) ==
    /\ At(t, "claim")
    /\ \E none \in SUBSET ((task[t].members \cap known) \ session) :
           /\ none # {} => "keys" \in EngineFaults
           /\ session' = session \cup ((task[t].members \cap known) \ none)
           /\ IF task[t].kind = "encrypt"
              THEN /\ task' = [task EXCEPT ![t].pc = "room", ![t].keyless = none]
                   /\ syncLock' = Nobody
                   /\ UNCHANGED roomLock
              ELSE End(t)
    /\ UNCHANGED <<member, delivered, outgoing, tracked, known, keyed, toShare, excused, wanted>>

\* A request rejects: so does the call, and the lock is released.
RequestFails(t) ==
    /\ "request" \in EngineFaults
    /\ task[t].pc \in {"query", "claim", "share", "deliver"}
    /\ End(t)
    /\ UNCHANGED <<member, delivered, outgoing, machine, excused, wanted>>

-----------------------------------------------------------------------------
(* The key of the room *)

\* shareRoomKey under the lock of the room. The other tasks' lists do not
\* count: who is not in this one loses the key. Tasks that have shared and not
\* yet encrypted are overtaken.
AcquireRoom(t) ==
    LET list    == task[t].members
        rotates == (keyed \cup toShare) \ list # {}
        kept    == IF rotates THEN {} ELSE keyed
    IN /\ At(t, "room")
       /\ roomLock = Nobody
       /\ roomLock' = t
       /\ keyed' = kept
       /\ toShare' = (list \cap session) \ kept
       /\ task' = [u \in Tasks |->
              IF u = t THEN [task[u] EXCEPT !.pc = "share"]
              ELSE [task[u] EXCEPT !.overtaken = @ \/ (rotates /\ task[u].pc = "encrypt")]]
       /\ UNCHANGED <<member, delivered, outgoing, tracked, known, session, syncLock, excused, wanted>>

\* sendToDevices and markRequestAsSent, one after the other.
ShareKey(t) ==
    /\ At(t, "share")
    /\ \E u \in toShare :
           /\ toShare' = toShare \ {u}
           /\ keyed' = keyed \cup {u}
    /\ UNCHANGED <<member, delivered, outgoing, tracked, known, session, locks, task, excused, wanted>>

Shared(t) ==
    /\ At(t, "share")
    /\ toShare = {}
    /\ roomLock' = Nobody
    /\ GoTo(t, "encrypt")
    /\ UNCHANGED <<member, delivered, outgoing, machine, syncLock, excused, wanted>>

\* machine.encryptRoomEvent with the room key of the moment.
Encrypt(t) ==
    /\ At(t, "encrypt")
    /\ GoTo(t, "run")
    /\ UNCHANGED <<member, delivered, outgoing, machine, locks, excused, wanted>>

-----------------------------------------------------------------------------
(* run *)

\* outgoingRequests(), kept in a variable. encryptRoomEvent runs outside the
\* sync lock, so another run may have the same messages.
Outgoing(t) ==
    /\ At(t, "run")
    /\ task' = [task EXCEPT ![t].pc = "deliver", ![t].queue = outgoing]
    /\ excused' = IF syncLock = t THEN excused ELSE excused \cup outgoing
    /\ UNCHANGED <<member, delivered, outgoing, machine, locks, wanted>>

\* A request for the next one reaches the homeserver,
Deliver(t) ==
    /\ At(t, "deliver")
    /\ \E m \in task[t].queue :
           /\ task' = [task EXCEPT ![t].pc = "mark", ![t].next = m, ![t].queue = @ \ {m}]
           /\ delivered' = [delivered EXCEPT ![m] = @ + 1]
    /\ UNCHANGED <<member, outgoing, machine, locks, excused, wanted>>

\* the answer is lost, which ends the call,
AnswerLost(t) ==
    /\ "request" \in EngineFaults
    /\ At(t, "mark")
    /\ excused' = excused \cup {task[t].next}
    /\ End(t)
    /\ UNCHANGED <<member, delivered, outgoing, machine, wanted>>

\* Faulty variant: the messages are taken off the machine when it is asked.
OutgoingTaken(t) ==
    /\ At(t, "mark")
    /\ outgoing' = outgoing \ ({task[t].next} \cup task[t].queue)
    /\ task' = [task EXCEPT ![t].pc = "deliver", ![t].next = Nobody]
    /\ UNCHANGED <<member, delivered, machine, locks, excused, wanted>>

\* or markRequestAsSent is told of it.
MarkAsSent(t) ==
    /\ At(t, "mark")
    /\ outgoing' = outgoing \ {task[t].next}
    /\ task' = [task EXCEPT ![t].pc = "deliver", ![t].next = Nobody]
    /\ UNCHANGED <<member, delivered, machine, locks, excused, wanted>>

\* All are sent; or one is of a type that is not supported, and run() throws.
RunEnds(t) ==
    /\ At(t, "deliver")
    /\ task[t].queue = {} \/ "unsupported" \in EngineFaults
    /\ End(t)
    /\ UNCHANGED <<member, delivered, outgoing, machine, excused, wanted>>

-----------------------------------------------------------------------------
\* Users come and go.
JoinOrLeave(u) ==
    /\ member' = IF u \in member THEN member \ {u} ELSE member \cup {u}
    /\ UNCHANGED <<delivered, outgoing, machine, locks, task, excused, wanted>>

TaskStep(t) ==
    \/ GetMembers(t) \/ Call(t)
    \/ AcquireSync(t) \/ KeysQuery(t) \/ KeysClaim(t) \/ RequestFails(t)
    \/ AcquireRoom(t) \/ ShareKey(t) \/ Shared(t) \/ Encrypt(t)
    \/ Outgoing(t) \/ Deliver(t) \/ AnswerLost(t) \/ MarkAsSent(t) \/ RunEnds(t)

Next ==
    \/ \E t \in Tasks : TaskStep(t)
    \/ \E u \in Users : JoinOrLeave(u)

Spec == Init /\ [][Next]_engineVars

-----------------------------------------------------------------------------
(* Properties *)

\* When a message is encrypted everyone in the list of members that
\* prepareEncrypt read has the room key, except who had no one-time key left,
\* unless another call with another list gave out a new key between the share
\* and the encryption, which the lock of the room does not span.
KeyBeforeMessage ==
    \A t \in Tasks :
        At(t, "encrypt") /\ ~task[t].overtaken =>
            task[t].members \subseteq keyed \cup task[t].keyless

\* A to-device message that reached the homeserver twice was in a run outside
\* the sync lock or lost its answer, and one that did not reach it is still
\* with the machine: a run that fails loses nothing.
SentForSure ==
    \A m \in Messages :
        /\ delivered[m] > 1 => m \in excused
        /\ m \in wanted \ outgoing => delivered[m] > 0

\* Both, of the messages of the room and of the machine's own.
MessagesHaveKeys == KeyBeforeMessage /\ SentForSure
=============================================================================
