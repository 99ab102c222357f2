----------------------------- MODULE DirectRooms -----------------------------
(***************************************************************************)
(* The map of direct chats (src/src/DMs.ts): a cache of the account data    *)
(* m.direct, reloaded when the sync reports a change of it, and written     *)
(* back whole by whoever changes the cache.                                *)
(*                                                                         *)
(* Every GET and PUT is a request in flight: the homeserver reads or writes *)
(* the account data at one moment and the client learns of it at a later    *)
(* one. In between, the other calls and the other clients of the user go on. *)
(***************************************************************************)
EXTENDS Integers, Sequences, SequencesExt

CONSTANTS
    Users,
    Rooms,      \* bound: rooms that can come into being
    Calls,      \* bound: calls of the client's methods alive at once
    Gets,       \* bound: reads of the account data in flight at once
    None,       \* no GET, no map
    Undefined,  \* DMs.ready before the first update()
    InOrder,    \* whether GETs are answered and return in the order sent
    Faults      \* what may fail: a subset of FaultKinds

FaultKinds == {"get", "put", "members", "create"}

ASSUME DirectAssumption ==
    /\ InOrder \in BOOLEAN
    /\ Faults \subseteq FaultKinds
    /\ None \notin Gets \cup Users \cup [Users -> Seq(Rooms)]
    /\ Undefined \notin Gets \cup {None}

VARIABLES
    account,    \* homeserver: m.direct of the user
    members,    \* homeserver: who is in or invited to each room
    dirty,      \* homeserver: m.direct changed since the client's last sync
    syncing,    \* whether start() has gone on to sync
    cached,     \* DMs.cached; a user without an entry has no rooms
    ready,      \* DMs.ready: the GET it waits for, None when settled, or Undefined
    sent,       \* GETs in flight, in the order sent
    answer,     \* what the homeserver read for a GET, None before
    byEvent,    \* the GETs in flight that an account_data event caused
    pc,         \* where each call waits
    user,       \* the user a call is about
    awaits,     \* what a call waits for in `await this.ready`
    current,    \* fixDms: currentRooms
    put,        \* the map of a call's PUT in flight
    loaded,     \* history: a GET has come back
    spoiled     \* history: a request failed since the cache was last loaded

server == <<account, members>>
reads  == <<syncing, ready, sent, answer, byEvent, loaded>>
calls  == <<pc, user, awaits, current, put>>
vars == <<server, dirty, cached, reads, calls, spoiled>>

Map   == [Users -> Seq(Rooms)]
Empty == [u \in Users |-> <<>>]
CallPcs == {"idle", "update", "start", "starting", "get", "checking", "fixing", "fixed",
            "creating", "saving", "saved"}

\* Rooms that exist
Used  == {r \in Rooms : members[r] # {}}
            \cup (UNION {ToSet(account[u]) \cup ToSet(cached[u]) : u \in Users})
            \cup (UNION {ToSet(put[c][u]) : c \in {d \in Calls : put[d] # None},
                                            u \in Users})
            \cup (UNION {ToSet(answer[g][u]) :
                            g \in {h \in Gets : answer[h] # None}, u \in Users})
            \cup (UNION {ToSet(current[c]) : c \in Calls})
Fresh == Rooms \ Used

\* A map with a room in front of the user's others
With(map, u, r) == [map EXCEPT ![u] = <<r>> \o @]

\* The rooms of a sequence that are not dropped, in their order
Without(rooms, dropped) ==
    LET kept[n \in 0..Len(rooms)] ==
            IF n = 0 THEN <<>>
            ELSE IF rooms[n] \in dropped THEN kept[n - 1]
            ELSE Append(kept[n - 1], rooms[n])
    IN  kept[Len(rooms)]

-----------------------------------------------------------------------------
\* A new client: nothing is read before update(), which start() calls.
Init ==
    /\ \E u \in Users, r \in Rooms :
          /\ account \in {Empty, With(Empty, u, r)}
          /\ members = [q \in Rooms |-> IF q = r THEN {u} ELSE {}]
    /\ dirty \in BOOLEAN
    /\ syncing = FALSE
    /\ cached = Empty
    /\ ready = Undefined
    /\ sent = <<>>
    /\ answer = [g \in Gets |-> None]
    /\ byEvent = {}
    /\ pc = [c \in Calls |-> "idle"]
    /\ user = [c \in Calls |-> None]
    /\ awaits = [c \in Calls |-> None]
    /\ current = [c \in Calls |-> <<>>]
    /\ put = [c \in Calls |-> None]
    /\ loaded = FALSE
    /\ spoiled = FALSE

-----------------------------------------------------------------------------
(* updateFromAccountData *)

\* getAccountData("m.direct") is sent.
SendGet(g) ==
    /\ g \notin ToSet(sent)
    /\ sent' = Append(sent, g)
    /\ UNCHANGED answer

\* The homeserver reads the account data.
AnswerGet(g) ==
    /\ g \in ToSet(sent)
    /\ answer[g] = None
    /\ InOrder => \A i \in 1..Len(sent) :
           answer[sent[i]] = None => \E j \in 1..i : sent[j] = g
    /\ answer' = [answer EXCEPT ![g] = account]
    /\ UNCHANGED <<server, dirty, cached, syncing, ready, sent, byEvent, calls,
                   loaded, spoiled>>

\* A GET is over: whoever awaits its promise can go on.
Settle(g) ==
    /\ loaded' = TRUE
    /\ \E i \in 1..Len(sent) : sent[i] = g /\ sent' = RemoveAt(sent, i)
    /\ answer' = [answer EXCEPT ![g] = None]
    /\ byEvent' = byEvent \ {g}
    /\ ready' = IF ready = g THEN None ELSE ready
    /\ awaits' = [c \in Calls |-> IF awaits[c] = g THEN None ELSE awaits[c]]

\* The answer arrives and replaces the cache.
Load(g) ==
    /\ answer[g] # None
    /\ InOrder => g = Head(sent)
    /\ cached' = answer[g]
    /\ spoiled' = FALSE
    /\ Settle(g)
    /\ UNCHANGED <<server, dirty, syncing, pc, user, current, put>>

\* Faulty variant: the result of a failed request is used as a map.
LoadFailsUnset(g) ==
    /\ "get" \in Faults
    /\ g \in ToSet(sent)
    /\ InOrder => g = Head(sent)
    /\ cached' = None
    /\ spoiled' = TRUE
    /\ Settle(g)
    /\ UNCHANGED <<server, dirty, syncing, pc, user, current, put>>

\* The request fails: the cache is emptied all the same.
LoadFails(g) ==
    /\ "get" \in Faults
    /\ g \in ToSet(sent)
    /\ InOrder => g = Head(sent)
    /\ cached' = Empty
    /\ spoiled' = TRUE
    /\ Settle(g)
    /\ UNCHANGED <<server, dirty, syncing, pc, user, current, put>>

\* The sync reports m.direct. The promise of this read is nobody's `ready`.
AccountDataEvent(g) ==
    /\ syncing /\ dirty
    /\ dirty' = FALSE
    /\ SendGet(g)
    /\ byEvent' = byEvent \cup {g}
    /\ UNCHANGED <<server, cached, syncing, ready, calls, loaded, spoiled>>

-----------------------------------------------------------------------------
(* update(), called by anyone or by start(), which waits for it *)

\* The call is over, resolved or rejected.
End(c) ==
    /\ pc' = [pc EXCEPT ![c] = "idle"]
    /\ user' = [user EXCEPT ![c] = None]
    /\ awaits' = [awaits EXCEPT ![c] = None]
    /\ current' = [current EXCEPT ![c] = <<>>]

\* There is no GET to wait for: `await this.ready` goes on at once.
Ready(c) == awaits[c] \notin Gets

\* `await this.ready`. The client is started once.
CallUpdate(c) ==
    /\ pc[c] = "idle"
    /\ \/ pc' = [pc EXCEPT ![c] = "update"]
       \/ /\ ~syncing /\ \A d \in Calls : pc[d] \notin {"start", "starting"}
          /\ pc' = [pc EXCEPT ![c] = "start"]
    /\ awaits' = [awaits EXCEPT ![c] = ready]
    /\ UNCHANGED <<server, dirty, cached, reads, user, current, put, spoiled>>

\* this.ready = this.updateFromAccountData()
Update(c, g) ==
    /\ pc[c] \in {"update", "start"} /\ Ready(c)
    /\ SendGet(g)
    /\ ready' = g
    /\ \/ pc[c] = "update" /\ End(c)
       \/ /\ pc[c] = "start"
          /\ pc' = [pc EXCEPT ![c] = "starting"]
          /\ awaits' = [awaits EXCEPT ![c] = g]
          /\ UNCHANGED <<user, current>>
    /\ UNCHANGED <<server, dirty, cached, syncing, byEvent, put, loaded, spoiled>>

\* start() goes on to sync.
BeginSync(c) ==
    /\ pc[c] = "starting" /\ Ready(c)
    /\ syncing' = TRUE
    /\ End(c)
    /\ UNCHANGED <<server, dirty, cached, ready, sent, answer, byEvent, put, loaded,
                   spoiled>>

-----------------------------------------------------------------------------
(* persistCache, in every call that changes the cache *)

\* The cache becomes map and a PUT of it is sent.
Persist(c, map) ==
    /\ cached' = map
    /\ put' = [put EXCEPT ![c] = map]

\* The homeserver stores the map and will report the change.
StorePut(c) ==
    /\ put[c] # None
    /\ account' = put[c]
    /\ dirty' = TRUE
    /\ put' = [put EXCEPT ![c] = None]
    /\ pc' = [pc EXCEPT ![c] = IF pc[c] = "fixing" THEN "fixed" ELSE "saved"]
    /\ UNCHANGED <<members, cached, reads, user, awaits, current, spoiled>>

PutFails(c) ==
    /\ "put" \in Faults
    /\ put[c] # None
    /\ put' = [put EXCEPT ![c] = None]
    /\ spoiled' = TRUE
    /\ End(c)
    /\ UNCHANGED <<server, dirty, cached, reads>>

Saved(c) ==
    /\ pc[c] = "saved"
    /\ End(c)
    /\ UNCHANGED <<server, dirty, cached, reads, put, spoiled>>

\* Faulty variant: the invite is cached but not persisted.
InviteUnsaved(c, u, r) ==
    /\ syncing /\ pc[c] = "idle"
    /\ r \in Fresh
    /\ members' = [members EXCEPT ![r] = {u}]
    /\ cached' = With(cached, u, r)
    /\ UNCHANGED <<account, dirty, reads, calls, spoiled>>

\* handleInvite: u invites the client to a new direct chat.
Invite(c, u, r) ==
    /\ syncing /\ pc[c] = "idle"
    /\ r \in Fresh
    /\ members' = [members EXCEPT ![r] = {u}]
    /\ Persist(c, With(cached, u, r))
    /\ pc' = [pc EXCEPT ![c] = "saving"]
    /\ user' = [user EXCEPT ![c] = u]
    /\ UNCHANGED <<account, dirty, reads, awaits, current, spoiled>>

-----------------------------------------------------------------------------
(* getOrCreateDm(u) *)

\* Faulty variant: a GET that ready stands for is not awaited.
CallGetAtOnce(c, u) ==
    /\ pc[c] = "idle"
    /\ pc' = [pc EXCEPT ![c] = "get"]
    /\ user' = [user EXCEPT ![c] = u]
    /\ awaits' = [awaits EXCEPT ![c] = IF ready = Undefined THEN Undefined ELSE None]
    /\ UNCHANGED <<server, dirty, cached, reads, current, put, spoiled>>

\* `await this.ready`
CallGet(c, u) ==
    /\ pc[c] = "idle"
    /\ pc' = [pc EXCEPT ![c] = "get"]
    /\ user' = [user EXCEPT ![c] = u]
    /\ awaits' = [awaits EXCEPT ![c] = ready]
    /\ UNCHANGED <<server, dirty, cached, reads, current, put, spoiled>>

\* The first room of the cache, if there is one now, else a new room.
Choose(c) ==
    \/ /\ cached[user[c]] # <<>>
       /\ End(c)
    \/ /\ cached[user[c]] = <<>>
       /\ pc' = [pc EXCEPT ![c] = "creating"]
       /\ awaits' = [awaits EXCEPT ![c] = None]
       /\ current' = [current EXCEPT ![c] = <<>>]
       /\ UNCHANGED user

\* fixDms looks at the rooms the cache has for the user now.
Fix(c) ==
    /\ pc[c] = "get" /\ Ready(c)
    /\ IF cached[user[c]] = <<>>
       THEN Choose(c)
       ELSE /\ pc' = [pc EXCEPT ![c] = "checking"]
            /\ current' = [current EXCEPT ![c] = cached[user[c]]]
            /\ UNCHANGED <<user, awaits>>
    /\ UNCHANGED <<server, dirty, cached, reads, put, spoiled>>

\* getAllRoomMembers of each room is back. A room the user is not in is
\* dropped, and so is one whose members could not be read; then what the cache
\* has for the user by now is replaced and persisted.
Checked(c, unread) ==
    /\ pc[c] = "checking"
    /\ unread = {} \/ "members" \in Faults
    /\ LET toKeep == Without(current[c],
               unread \cup {r \in Rooms : user[c] \notin members[r]})
       IN  IF Len(toKeep) = Len(current[c])
           THEN /\ Choose(c)
                /\ UNCHANGED <<cached, put>>
           ELSE /\ Persist(c, [cached EXCEPT ![user[c]] = toKeep])
                /\ pc' = [pc EXCEPT ![c] = "fixing"]
                /\ UNCHANGED <<user, awaits, current>>
    /\ spoiled' = (spoiled \/ unread # {})
    /\ UNCHANGED <<server, dirty, reads>>

Fixed(c) ==
    /\ pc[c] = "fixed"
    /\ Choose(c)
    /\ UNCHANGED <<server, dirty, cached, reads, put, spoiled>>

\* The room is created with the user invited, cached and persisted.
Create(c, r) ==
    /\ pc[c] = "creating"
    /\ r \in Fresh
    /\ members' = [members EXCEPT ![r] = {user[c]}]
    /\ Persist(c, With(cached, user[c], r))
    /\ pc' = [pc EXCEPT ![c] = "saving"]
    /\ UNCHANGED <<account, dirty, reads, user, awaits, current, spoiled>>

CreateFails(c) ==
    /\ "create" \in Faults
    /\ pc[c] = "creating"
    /\ End(c)
    /\ UNCHANGED <<server, dirty, cached, reads, put, spoiled>>

-----------------------------------------------------------------------------
(* The user's other clients, and the users *)

ExternalWrite(u, r) ==
    /\ r \in Fresh
    /\ members' = [members EXCEPT ![r] = {u}]
    /\ account' = With(account, u, r)
    /\ dirty' = TRUE
    /\ UNCHANGED <<cached, reads, calls, spoiled>>

Leave(u, r) ==
    /\ u \in members[r]
    /\ members' = [members EXCEPT ![r] = @ \ {u}]
    /\ UNCHANGED <<account, dirty, cached, reads, calls, spoiled>>

Next ==
    \/ \E g \in Gets :
          AnswerGet(g) \/ Load(g) \/ LoadFails(g) \/ AccountDataEvent(g)
    \/ \E c \in Calls :
          \/ CallUpdate(c)
          \/ \E g \in Gets : Update(c, g)
          \/ BeginSync(c)
          \/ StorePut(c) \/ PutFails(c) \/ Saved(c)
          \/ \E u \in Users : CallGet(c, u)
          \/ Fix(c)
          \/ \E unread \in SUBSET Rooms : Checked(c, unread)
          \/ Fixed(c)
          \/ \E r \in Rooms : Create(c, r)
          \/ CreateFails(c)
          \/ \E u \in Users, r \in Rooms : Invite(c, u, r)
    \/ \E u \in Users, r \in Rooms : ExternalWrite(u, r) \/ Leave(u, r)

Spec == Init /\ [][Next]_vars

-----------------------------------------------------------------------------
(* Properties *)

TypeOK ==
    /\ account \in Map
    /\ members \in [Rooms -> SUBSET Users]
    /\ dirty \in BOOLEAN
    /\ syncing \in BOOLEAN
    /\ cached \in Map
    /\ ready \in Gets \cup {None, Undefined}
    /\ sent \in Seq(Gets)
    /\ answer \in [Gets -> Map \cup {None}]
    /\ byEvent \subseteq Gets
    /\ pc \in [Calls -> CallPcs]
    /\ user \in [Calls -> Users \cup {None}]
    /\ awaits \in [Calls -> Gets \cup {None, Undefined}]
    /\ current \in [Calls -> Seq(Rooms)]
    /\ put \in [Calls -> Map \cup {None}]
    /\ loaded \in BOOLEAN
    /\ spoiled \in BOOLEAN

Quiet == ~dirty /\ sent = <<>> /\ \A c \in Calls : put[c] = None

\* What other clients write to the account data is reflected in the cache, and
\* what the cache holds is persisted: once m.direct was read, when nothing is in
\* flight the two agree, however reads, writes and calls overlapped before.
Reflected == Quiet /\ loaded /\ ~spoiled => cached = account

\* Nothing but c itself and calls of update() and start() is under way, and no
\* request failed since the cache was last loaded.
Settled(c) ==
    /\ ~dirty /\ byEvent = {} /\ ~spoiled
    /\ \A d \in Calls \ {c} : pc[d] \in {"idle", "update", "start", "starting"}

\* The step that finds that c has to create a room
ToCreate(c) == pc[c] # "creating" /\ pc'[c] = "creating"

HasDm(u) == \E r \in ToSet(account[u]) : u \in members[r]

\* A room is about to be created only for a user the account data has no chat
\* with, unless another call or a change of the account data is under way: a
\* call made after update() waits for what an earlier client left.
CreatesWhenNeeded ==
    [][\A c \in Calls : ToCreate(c) /\ Settled(c) /\ awaits[c] # Undefined
                            => ~HasDm(user[c])]_vars

\* What the documentation says of any call: it gets the chat with the user that
\* the account data has.
GetsTheDm ==
    [][\A c \in Calls : ToCreate(c) /\ Settled(c) => ~HasDm(user[c])]_vars
=============================================================================
