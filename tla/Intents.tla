------------------------------ MODULE Intents ------------------------------
(***************************************************************************)
(* The Intents of one user of an appservice (src/src/appservice/Intent.ts): *)
(* registration, and the list of joined rooms that ensureJoined() trusts.  *)
(*                                                                         *)
(* An Intent is an object in a slot. Appservice.getIntentForUserId keeps   *)
(* the latest one in an LRU; when that entry is evicted, callers that hold *)
(* the old object go on with it, beside the new one. Every change of the   *)
(* user's membership comes back in a transaction (processMembershipEvent), *)
(* which makes the Intent of the LRU read its rooms again. A call is one   *)
(* use of an Intent by the bridge; it stops at each await.                 *)
(***************************************************************************)
EXTENDS Naturals, FiniteSets

CONSTANTS
    Rooms,
    PublicRooms,  \* the rooms anyone can join
    Slots,        \* Intent objects of the user
    Calls,        \* calls of the bridge, one use each
    Handler,      \* the call of processMembershipEvent
    None,
    IntentFaults, \* subset of {"register", "read", "join", "evict", "crash"}
    MaxMoves      \* bound: membership changes made by others

VARIABLES
    \* The homeserver: the user exists; where it is, where it is invited; the
    \* changes of its membership so far, those not yet brought by a
    \* transaction, those made by others.
    registered, member, invited, version, unheard, moves,
    \* storage: isUserRegistered
    recorded,
    \* The process: the LRU's entry, the slots in use, their lists.
    intent, used, knownJoinedRooms,
    \* per call: what it does, where it waits and what it was answered
    call,
    \* history: per slot, the version its list should be at, and whether it is
    \* behind (never read, a failed read, an older answer after a newer one)
    due, astray

server   == <<registered, member, invited, version, unheard, moves>>
process  == <<intent, used, knownJoinedRooms>>
history  == <<due, astray>>
intentVars == <<server, recorded, process, call, history>>

Ops == {"join", "leave", "rooms", "send"}
All == Calls \cup {Handler}

Idle == [pc |-> "idle", op |-> "member", room |-> None, slot |-> None,
         answer |-> {}, at |-> 0, calm |-> FALSE]

Init ==
    /\ registered = FALSE /\ recorded = FALSE
    /\ member = {} /\ invited = {} /\ version = 0 /\ unheard = 0 /\ moves = 0
    /\ intent = None /\ used = {}
    /\ knownJoinedRooms = [s \in Slots |-> {}]
    /\ call = [c \in All |-> Idle]
    /\ due = [s \in Slots |-> 0]
    /\ astray = [s \in Slots |-> TRUE]

-----------------------------------------------------------------------------
(* Steps of a call *)

GoTo(c, label) == call' = [call EXCEPT ![c].pc = label]

\* A call of the bridge is over; the handler may be called again.
Ended(c) == [Idle EXCEPT !.pc = IF c = Handler THEN "idle" ELSE "done"]

End(c) == call' = [call EXCEPT ![c] = Ended(c)]

\* A change of the membership by a call, or by others. `lost` are the rooms
\* the user is no longer in: calls cannot rely on their list any more.
Moves(now, lost, calls) ==
    /\ member' = now
    /\ version' = version + 1
    /\ unheard' = unheard + 1
    /\ call' = [c \in All |-> IF lost = {} THEN calls[c] ELSE [calls[c] EXCEPT !.calm = FALSE]]

\* What the Intent in slot s believes, or is about to, is true: no list holds
\* a room the user is not in.
Calm(s) ==
    /\ knownJoinedRooms[s] \subseteq member
    /\ \A c \in All : call[c].slot = s =>
           /\ call[c].pc = "apply" => call[c].answer \subseteq member
           /\ call[c].pc = "push" => call[c].room \in member

Begin(c, op, room, s, label) ==
    call' = [call EXCEPT ![c] = [Idle EXCEPT !.pc = label, !.op = op, !.room = room,
                                             !.slot = s, !.calm = Calm(s)]]

\* getIntentForUserId: the LRU's Intent, or a new one. A bridge may also have
\* kept one from before.
Fresh(s) == intent = None /\ s \in Slots \ used

GetIntent(s) ==
    /\ s = intent \/ Fresh(s)
    /\ intent' = s
    /\ used' = used \cup {s}
    /\ UNCHANGED knownJoinedRooms

KeepIntent(s) == s \in used /\ UNCHANGED process

\* joinRoom, leaveRoom, getJoinedRooms and sendEvent (sendText,
\* ensureRegisteredAndJoined) all begin with ensureRegistered.
Call(c, op, room, s) ==
    /\ c \in Calls
    /\ call[c].pc = "idle"
    /\ GetIntent(s) \/ KeepIntent(s)
    /\ Begin(c, op, room, s, "registered")
    /\ UNCHANGED <<server, recorded, history>>

\* What follows ensureRegistered.
Registered(c) ==
    LET op == call[c].op
    IN CASE op = "send"  -> GoTo(c, "check")
         [] op = "rooms" -> IF knownJoinedRooms[call[c].slot] = {} THEN GoTo(c, "refresh")
                                                                    ELSE End(c)
         [] OTHER        -> GoTo(c, op)

CheckRegistered(c) ==
    /\ call[c].pc = "registered"
    /\ IF recorded THEN Registered(c) ELSE GoTo(c, "register")
    /\ UNCHANGED <<server, recorded, process, history>>

\* POST /register. M_USER_IN_USE leads to the same writes.
Register(c) ==
    /\ call[c].pc = "register"
    /\ registered' = TRUE
    /\ GoTo(c, "record")
    /\ UNCHANGED <<member, invited, version, unheard, moves, recorded, process, history>>

\* The request fails before the homeserver handles it or after, and the call
\* rejects.
RegisterFails(c) ==
    /\ "register" \in IntentFaults
    /\ call[c].pc = "register"
    /\ registered' \in {registered, TRUE}
    /\ End(c)
    /\ UNCHANGED <<member, invited, version, unheard, moves, recorded, process, history>>

\* addRegisteredUser
Record(c) ==
    /\ call[c].pc = "record"
    /\ recorded' = TRUE
    /\ Registered(c)
    /\ UNCHANGED <<server, process, history>>

-----------------------------------------------------------------------------
(* Rooms *)

\* ensureJoined looks at the list, and after a refresh looks again.
CheckKnown(c) ==
    /\ call[c].pc = "check"
    /\ GoTo(c, IF call[c].room \in knownJoinedRooms[call[c].slot] THEN "send" ELSE "refresh")
    /\ UNCHANGED <<server, recorded, process, history>>

\* The homeserver answers /joined_rooms,
Refresh(c) ==
    /\ call[c].pc = "refresh"
    /\ registered
    /\ call' = [call EXCEPT ![c].pc = "apply", ![c].answer = member, ![c].at = version]
    /\ UNCHANGED <<server, recorded, process, history>>

\* or the request fails, as it does for a user nobody registered.
RefreshFails(c) ==
    /\ "read" \in IntentFaults \/ ~registered
    /\ call[c].pc = "refresh"
    /\ End(c)
    /\ due' = [due EXCEPT ![call[c].slot] = version]
    /\ astray' = [astray EXCEPT ![call[c].slot] = TRUE]
    /\ UNCHANGED <<server, recorded, process>>

\* The list is behind after an answer older than one that was applied.
Answered(s, at) ==
    /\ due' = [due EXCEPT ![s] = IF at > @ THEN at ELSE @]
    /\ astray' = [astray EXCEPT ![s] = at < due[s]]

\* Faulty variant: the list only grows.
ApplyMerges(c) ==
    LET s == call[c].slot
    IN /\ call[c].pc = "apply"
       /\ knownJoinedRooms' = [knownJoinedRooms EXCEPT ![s] = @ \cup call[c].answer]
       /\ Answered(s, call[c].at)
       /\ IF call[c].op # "send" THEN End(c)
          ELSE GoTo(c, IF call[c].room \in call[c].answer THEN "send" ELSE "join")
       /\ UNCHANGED <<server, recorded, intent, used>>

\* refreshJoinedRooms: the answer replaces the list.
Apply(c) ==
    LET s == call[c].slot
    IN /\ call[c].pc = "apply"
       /\ knownJoinedRooms' = [knownJoinedRooms EXCEPT ![s] = call[c].answer]
       /\ Answered(s, call[c].at)
       /\ IF call[c].op # "send" THEN End(c)
          ELSE GoTo(c, IF call[c].room \in call[c].answer THEN "send" ELSE "join")
       /\ UNCHANGED <<server, recorded, intent, used>>

\* client.joinRoom, which also succeeds in a room the user is in. joinRoom()
\* then refreshes, ensureJoined pushes the room to the list.
Join(c) ==
    LET room  == call[c].room
        calls == [call EXCEPT ![c].pc = IF call[c].op = "send" THEN "push" ELSE "refresh",
                              ![c].at = IF room \in member THEN version ELSE version + 1]
    IN /\ call[c].pc = "join"
       /\ room \in member \cup invited \cup PublicRooms
       /\ IF room \in member
          THEN call' = calls /\ UNCHANGED <<member, version, unheard>>
          ELSE Moves(member \cup {room}, {}, calls)
       /\ invited' = invited \ {room}
       /\ UNCHANGED <<registered, moves, recorded, process, history>>

\* Faulty variant: the room is pushed to the list before the join succeeds.
JoinFailsUnnoticed(c) ==
    /\ call[c].pc = "join"
    /\ "join" \in IntentFaults \/ call[c].room \notin member \cup invited \cup PublicRooms
    /\ IF call[c].op = "send" THEN GoTo(c, "push") ELSE End(c)
    /\ UNCHANGED <<server, recorded, process, history>>

JoinFails(c) ==
    /\ call[c].pc = "join"
    /\ "join" \in IntentFaults \/ call[c].room \notin member \cup invited \cup PublicRooms
    /\ End(c)
    /\ UNCHANGED <<server, recorded, process, history>>

\* The answer to a join is lost.
JoinLost(c) ==
    LET room == call[c].room
    IN /\ "join" \in IntentFaults
       /\ call[c].pc = "join"
       /\ room \in (invited \cup PublicRooms) \ member
       /\ Moves(member \cup {room}, {}, [call EXCEPT ![c] = Ended(c)])
       /\ invited' = invited \ {room}
       /\ UNCHANGED <<registered, moves, recorded, process, history>>

Push(c) ==
    LET s == call[c].slot
    IN /\ call[c].pc = "push"
       /\ knownJoinedRooms' = [knownJoinedRooms EXCEPT ![s] = @ \cup {call[c].room}]
       /\ astray' = [astray EXCEPT ![s] = @ \/ call[c].at < due[s]]
       /\ GoTo(c, "send")
       /\ UNCHANGED <<server, recorded, intent, used, due>>

\* client.leaveRoom and a refresh; the request fails outside the room.
Leave(c) ==
    LET room == call[c].room
    IN /\ call[c].pc = "leave"
       /\ IF room \in member
          THEN Moves(member \ {room}, {room}, [call EXCEPT ![c].pc = "refresh"])
          ELSE End(c) /\ UNCHANGED <<member, version, unheard>>
       /\ UNCHANGED <<registered, invited, moves, recorded, process, history>>

\* client.sendMessage
Send(c) ==
    /\ call[c].pc = "send"
    /\ End(c)
    /\ UNCHANGED <<server, recorded, process, history>>

-----------------------------------------------------------------------------
(* Others: the homeserver, transactions, the LRU, the process *)

\* Another user invites or kicks the user, who may also leave on its own.
Invite(room) ==
    /\ moves < MaxMoves
    /\ room \notin member \cup invited
    /\ moves' = moves + 1
    /\ invited' = invited \cup {room}
    /\ Moves(member, {}, call)
    /\ UNCHANGED <<registered, recorded, process, history>>

Kick(room) ==
    /\ moves < MaxMoves
    /\ room \in member
    /\ moves' = moves + 1
    /\ Moves(member \ {room}, {room}, call)
    /\ UNCHANGED <<registered, invited, recorded, process, history>>

\* processMembershipEvent, one event after the other: the LRU's Intent
\* refreshes, registered or not.
MembershipEvent(s) ==
    /\ unheard > 0
    /\ call[Handler].pc = "idle"
    /\ GetIntent(s)
    /\ unheard' = unheard - 1
    /\ Begin(Handler, "member", None, s, "refresh")
    /\ UNCHANGED <<registered, member, invited, version, moves, recorded, history>>

Evict ==
    /\ "evict" \in IntentFaults
    /\ intent # None
    /\ Slots # used
    /\ intent' = None
    /\ UNCHANGED <<server, recorded, used, knownJoinedRooms, call, history>>

\* The process ends; what it had recorded is on disk.
Crash ==
    /\ "crash" \in IntentFaults
    /\ used # {}
    /\ intent' = None /\ used' = {}
    /\ knownJoinedRooms' = [s \in Slots |-> {}]
    /\ call' = [c \in All |-> IF call[c].pc = "idle" THEN call[c]
                              ELSE Ended(c)]
    /\ due' = [s \in Slots |-> 0]
    /\ astray' = [s \in Slots |-> TRUE]
    /\ UNCHANGED <<server, recorded>>

CallStep(c) ==
    \/ CheckRegistered(c) \/ Register(c) \/ RegisterFails(c) \/ Record(c)
    \/ CheckKnown(c) \/ Refresh(c) \/ RefreshFails(c) \/ Apply(c)
    \/ Join(c) \/ JoinFails(c) \/ JoinLost(c) \/ Push(c) \/ Leave(c) \/ Send(c)

Next ==
    \/ \E c \in Calls, op \in Ops, r \in Rooms, s \in Slots : Call(c, op, r, s)
    \/ \E c \in All : CallStep(c)
    \/ \E r \in Rooms : Invite(r) \/ Kick(r)
    \/ \E s \in Slots : MembershipEvent(s)
    \/ Evict
    \/ Crash

Spec == Init /\ [][Next]_intentVars

-----------------------------------------------------------------------------
(* Properties *)

Quiet == unheard = 0 /\ \A c \in All : call[c].pc \in {"idle", "done"}

\* With nothing in flight and every change of the membership brought by a
\* transaction, the Intent that getIntentForUserId returns knows exactly the
\* rooms the user is in, whatever was evicted, kicked or joined through another
\* Intent, unless its last read failed or was overtaken by an older answer.
KnownIsTrue ==
    Quiet /\ intent # None /\ ~astray[intent] => knownJoinedRooms[intent] = member

\* sendEvent sends as a registered user, and from inside the room if nothing
\* the Intent believed was false at the call and the user left no room since:
\* then ensureJoined has joined it.
SendsFromInside ==
    \A c \in Calls : call[c].pc = "send" =>
        /\ recorded /\ registered
        /\ call[c].calm => call[c].room \in member
=============================================================================
