------------------------------ MODULE SyncRooms ------------------------------
(***************************************************************************)
(* What MatrixClient.processSync tells the bot about the rooms it is in     *)
(* (src/src/MatrixClient.ts): room.leave, room.invite and room.join, decided *)
(* with lastJoinedRoomIds, the list of joined rooms that start() fetches    *)
(* and processSync keeps up to date.                                       *)
(*                                                                         *)
(* The homeserver keeps a log of each room as the user sees it. A /sync     *)
(* response covers the part of each log after the request's token; which    *)
(* section a room appears in depends on the membership when the homeserver  *)
(* answers, not on the events in between. Client and homeserver therefore   *)
(* agree only by way of the token, the list and the order of dispatch.      *)
(***************************************************************************)
EXTENDS Integers, Sequences, FiniteSets

CONSTANTS
    Rooms,
    MaxLog,         \* bound: events per room
    NoToken,        \* no sync token: an initial sync
    PersistAfter,   \* persistTokenAfterSync
    Gaps,           \* what responses may leave out: a subset of GapKinds
    Faults          \* what may reject in processSync: a subset of FaultKinds

\* "initial": the first sync has no token, so rooms left by then are missing;
\* "limited": a timeline keeps only its newest events;
\* "hidden": a room left and invited again is listed as invited only;
\* "detached": a left room comes without the event of leaving it.
GapKinds == {"initial", "limited", "hidden", "detached"}

\* "listener": the listener of a membership event throws;
\* "batch": something else in processSync throws.
FaultKinds == {"listener", "batch"}

ASSUME RoomsAssumption ==
    /\ MaxLog \in Nat
    /\ PersistAfter \in BOOLEAN
    /\ Gaps \subseteq GapKinds
    /\ Faults \subseteq FaultKinds
    /\ NoToken \notin [Rooms -> Nat]

VARIABLES
    log,            \* homeserver: the events of each room, oldest first
    storedToken,    \* IStorageProvider: the sync token
    pc,             \* where the client is
    token,          \* the local variable token of startSync
    lastJoined,     \* MatrixClient.lastJoinedRoomIds
    toLeave,        \* the response: left rooms not dispatched yet
    toInvite,       \* the response: invited rooms not dispatched yet
    joins,          \* the response: own join events not dispatched, per room
    telling,        \* the membership event whose listener is awaited
    view,           \* history: the rooms the bot was told it is in: the list
                    \* start() fetched, changed by room.join and room.leave
    lastNews,       \* history: the last membership event told of each room
    flaws,          \* history: what went wrong since start(): "batch",
                    \* "listener", "gap"
    spotless        \* history: nothing ever went wrong

server   == <<log>>
response == <<toLeave, toInvite, joins>>
history  == <<view, lastNews, flaws, spotless>>
vars == <<log, storedToken, pc, token, lastJoined, response, telling, history>>

Kinds   == {"invite", "join", "leave", "ban", "message"}
News    == {"room.join", "room.leave", "room.invite"}
NoNews  == [room |-> "no room", news |-> "nothing"]
Token   == [Rooms -> Nat] \cup {NoToken}

\* The user's membership after the first n events of a room: that of the last
\* event that is not a message, and "none" in a room never heard of.
MembershipAt(l, n) ==
    LET changes == {i \in 1..n : l[i] # "message"}
    IN  IF changes = {} THEN "none"
        ELSE l[CHOOSE i \in changes : \A j \in changes : j <= i]

Membership(r) == MembershipAt(log[r], Len(log[r]))
JoinedNow     == {r \in Rooms : Membership(r) = "join"}

\* Where the request's token stands in a room's log.
Since(r) == IF token = NoToken THEN 0 ELSE token[r]
LogEnds    == [r \in Rooms |-> Len(log[r])]
Window(r)  == (Since(r) + 1)..Len(log[r])
HasNews(r) == Window(r) # {}

-----------------------------------------------------------------------------
Init ==
    /\ log = [r \in Rooms |-> <<>>]
    /\ \/ storedToken = [r \in Rooms |-> 0]
       \/ "initial" \in Gaps /\ storedToken = NoToken
    /\ pc = "off"
    /\ token = NoToken
    /\ lastJoined = {}
    /\ toLeave = {}
    /\ toInvite = {}
    /\ joins = [r \in Rooms |-> 0]
    /\ telling = NoNews
    /\ view = {}
    /\ lastNews = [r \in Rooms |-> "nothing"]
    /\ flaws = {}
    /\ spotless = TRUE

-----------------------------------------------------------------------------
(* The homeserver *)

\* The memberships a kind of event can follow. A join after a join is a new
\* display name; a leave is the user's own, a kick, a rejected or withdrawn
\* invite, or the end of a ban.
Allowed(kind, membership) ==
    CASE kind = "join"    -> membership \in {"none", "invite", "leave", "join"}
      [] kind = "invite"  -> membership \in {"none", "leave"}
      [] kind = "leave"   -> membership \in {"join", "invite", "ban"}
      [] kind = "ban"     -> membership # "ban"
      [] kind = "message" -> membership = "join"

NewEvent(r, kind) ==
    /\ Len(log[r]) < MaxLog
    /\ Allowed(kind, Membership(r))
    /\ log' = [log EXCEPT ![r] = Append(@, kind)]
    /\ UNCHANGED <<storedToken, pc, token, lastJoined, response, telling, history>>

\* The response of the homeserver to a request with the client's token.
LeftSince(r) == \E i \in Window(r) : log[r][i] \in {"leave", "ban"}

LeaveSection ==
    {r \in Rooms : /\ HasNews(r) /\ token # NoToken
                   /\ LeftSince(r)
                   /\ Membership(r) # "join"}
InviteSection == {r \in Rooms : HasNews(r) /\ Membership(r) = "invite"}

\* Own join events in the timeline of a joined room that starts at event n
JoinsFrom(r, n) ==
    Cardinality({i \in n..Len(log[r]) : log[r][i] = "join"})

\* The left rooms processSync finds an event for
LeftRoomsSent ==
    {R \in SUBSET LeaveSection : \A r \in LeaveSection \ R :
        \/ "detached" \in Gaps
        \/ "hidden" \in Gaps /\ r \in InviteSection}

FullTimelines ==
    [r \in Rooms |-> IF Membership(r) = "join" THEN JoinsFrom(r, Since(r) + 1)
                     ELSE 0]

\* A limited timeline has at least the newest event.
TimelinesSent ==
    {f \in [Rooms -> 0..MaxLog] : \A r \in Rooms :
        \/ f[r] = FullTimelines[r]
        \/ /\ "limited" \in Gaps
           /\ Membership(r) = "join"
           /\ \E n \in Window(r) : f[r] = JoinsFrom(r, n)}

\* Whether a response leaves out nothing processSync would use
Complete(left, timelines) ==
    token # NoToken /\ left = LeaveSection /\ timelines = FullTimelines

-----------------------------------------------------------------------------
(* start() *)

\* start() is called on a client that is not syncing.
Start ==
    /\ pc = "off"
    /\ pc' = "listing"
    /\ UNCHANGED <<log, storedToken, token, lastJoined, response, telling, history>>

\* getJoinedRooms() and, later, the stored token are back. Nothing the client
\* does depends on when in between they were read.
ListJoined ==
    /\ pc = "listing"
    /\ lastJoined' = JoinedNow
    /\ view' = JoinedNow
    /\ token' = storedToken
    /\ pc' = "syncing"
    /\ flaws' = {}
    /\ UNCHANGED <<log, storedToken, response, telling, lastNews, spotless>>

-----------------------------------------------------------------------------
(* processSync *)

Flaw(kind) ==
    /\ flaws' = flaws \cup {kind}
    /\ spotless' = FALSE

\* Faulty variant: the token is always persisted before the processing.
RespondPersists(left, timelines) ==
    /\ pc = "syncing"
    /\ left \in LeftRoomsSent
    /\ timelines \in TimelinesSent
    /\ token' = LogEnds
    /\ storedToken' = LogEnds
    /\ toLeave' = left
    /\ toInvite' = InviteSection
    /\ joins' = timelines
    /\ pc' = "processing"
    /\ IF Complete(left, timelines) THEN UNCHANGED <<flaws, spotless>>
                                    ELSE Flaw("gap")
    /\ UNCHANGED <<log, lastJoined, telling, view, lastNews>>

\* A response arrives; its token is persisted now or after the processing.
Respond(left, timelines) ==
    /\ pc = "syncing"
    /\ left \in LeftRoomsSent
    /\ timelines \in TimelinesSent
    /\ token' = LogEnds
    /\ storedToken' = IF PersistAfter THEN storedToken ELSE LogEnds
    /\ toLeave' = left
    /\ toInvite' = InviteSection
    /\ joins' = timelines
    /\ pc' = "processing"
    /\ IF Complete(left, timelines) THEN UNCHANGED <<flaws, spotless>>
                                    ELSE Flaw("gap")
    /\ UNCHANGED <<log, lastJoined, telling, view, lastNews>>

\* A set of joined rooms after a membership event
With(joined, r, news) ==
    IF news = "room.join" THEN joined \cup {r}
    ELSE IF news = "room.leave" THEN joined \ {r}
    ELSE joined

\* The listeners of a membership event are called, and awaited.
Tell(r, news) ==
    /\ telling' = [room |-> r, news |-> news]
    /\ lastNews' = [lastNews EXCEPT ![r] = news]
    /\ view' = With(view, r, news)
    /\ UNCHANGED <<flaws, spotless>>

\* Left rooms are processed first.
TellLeave(r) ==
    /\ pc = "processing" /\ telling = NoNews
    /\ r \in toLeave
    /\ toLeave' = toLeave \ {r}
    /\ Tell(r, "room.leave")
    /\ UNCHANGED <<log, storedToken, pc, token, lastJoined, toInvite, joins>>

\* Then the rooms the user was invited to.
TellInvite(r) ==
    /\ pc = "processing" /\ telling = NoNews
    /\ toLeave = {}
    /\ r \in toInvite
    /\ toInvite' = toInvite \ {r}
    /\ Tell(r, "room.invite")
    /\ UNCHANGED <<log, storedToken, pc, token, lastJoined, toLeave, joins>>

\* Faulty variants: the timeline is read past its end; any join event is
\* announced.
TimelineJoinPastEnd(r) ==
    /\ pc = "processing" /\ telling = NoNews
    /\ toLeave = {} /\ toInvite = {}
    /\ joins' = [joins EXCEPT ![r] = @ - 1]
    /\ IF r \in lastJoined
       THEN UNCHANGED <<telling, history>>
       ELSE Tell(r, "room.join")
    /\ UNCHANGED <<log, storedToken, pc, token, lastJoined, toLeave, toInvite>>

TimelineJoinAlways(r) ==
    /\ pc = "processing" /\ telling = NoNews
    /\ toLeave = {} /\ toInvite = {}
    /\ joins[r] > 0
    /\ joins' = [joins EXCEPT ![r] = @ - 1]
    /\ Tell(r, "room.join")
    /\ UNCHANGED <<log, storedToken, pc, token, lastJoined, toLeave, toInvite>>

\* Then the events of the joined rooms. A join event of the user's own is
\* announced if the room is not in the list yet.
TimelineJoin(r) ==
    /\ pc = "processing" /\ telling = NoNews
    /\ toLeave = {} /\ toInvite = {}
    /\ joins[r] > 0
    /\ joins' = [joins EXCEPT ![r] = @ - 1]
    /\ IF r \in lastJoined
       THEN UNCHANGED <<telling, history>>
       ELSE Tell(r, "room.join")
    /\ UNCHANGED <<log, storedToken, pc, token, lastJoined, toLeave, toInvite>>

\* Faulty variant: a room that was left stays in the list.
ToldKeepsRoom ==
    /\ telling # NoNews
    /\ telling' = NoNews
    /\ lastJoined' = IF telling.news = "room.join"
                     THEN lastJoined \cup {telling.room} ELSE lastJoined
    /\ UNCHANGED <<log, storedToken, pc, token, response, history>>

\* The listeners are done: now the list follows.
Told ==
    /\ telling # NoNews
    /\ telling' = NoNews
    /\ lastJoined' = With(lastJoined, telling.room, telling.news)
    /\ UNCHANGED <<log, storedToken, pc, token, response, history>>

\* What is left of the response is dropped.
DropResponse ==
    /\ toLeave' = {}
    /\ toInvite' = {}
    /\ joins' = [r \in Rooms |-> 0]
    /\ telling' = NoNews

\* processSync is done and the loop goes on.
Processed ==
    /\ pc = "processing" /\ telling = NoNews
    /\ toLeave = {} /\ toInvite = {}
    /\ \A r \in Rooms : joins[r] = 0
    /\ storedToken' = token
    /\ pc' = "syncing"
    /\ UNCHANGED <<log, token, lastJoined, response, telling, history>>

\* processSync throws: the loop goes on with the token of this response.
BatchFails ==
    /\ pc = "processing"
    /\ \/ "listener" \in Faults /\ telling # NoNews
       \/ "batch" \in Faults /\ telling = NoNews
    /\ DropResponse
    /\ pc' = "syncing"
    /\ Flaw(IF telling = NoNews THEN "batch" ELSE "listener")
    /\ UNCHANGED <<log, storedToken, token, lastJoined, view, lastNews>>

-----------------------------------------------------------------------------
\* The process ends, or stop() ends the loop; start() can be called again.
Quit ==
    /\ pc # "off"
    /\ pc' = "off"
    /\ token' = NoToken
    /\ lastJoined' = {}
    /\ DropResponse
    /\ view' = {}
    /\ UNCHANGED <<log, storedToken, lastNews, flaws, spotless>>

Next ==
    \/ \E r \in Rooms, kind \in Kinds : NewEvent(r, kind)
    \/ Start
    \/ ListJoined
    \/ \E left \in LeftRoomsSent, timelines \in TimelinesSent :
           Respond(left, timelines)
    \/ \E r \in Rooms : TellLeave(r) \/ TellInvite(r) \/ TimelineJoin(r)
    \/ Told
    \/ Processed
    \/ BatchFails
    \/ Quit

Spec == Init /\ [][Next]_vars

-----------------------------------------------------------------------------
(* Properties *)

TypeOK ==
    /\ log \in [Rooms -> Seq(Kinds)]
    /\ storedToken \in Token
    /\ pc \in {"off", "listing", "syncing", "processing"}
    /\ token \in Token
    /\ lastJoined \subseteq Rooms
    /\ toLeave \subseteq Rooms
    /\ toInvite \subseteq Rooms
    /\ joins \in [Rooms -> Nat]
    /\ telling \in [room : Rooms, news : News] \cup {NoNews}
    /\ view \subseteq Rooms
    /\ lastNews \in [Rooms -> News \cup {"nothing"}]
    /\ flaws \subseteq {"batch", "listener", "gap"}
    /\ spotless \in BOOLEAN

\* The client has processed all the homeserver has.
CaughtUp == pc = "syncing" /\ token = LogEnds

\* A bot that starts from the list of joined rooms and follows room.join and
\* room.leave knows which rooms it is in: whenever the client has caught up and
\* nothing went wrong since start(), whatever went wrong, and wherever the
\* client was stopped or killed, before that start().
ViewIsTrue == CaughtUp /\ flaws = {} => view = JoinedNow

\* Some instance of the bot was told of the current invite to a room, and of
\* having left the room it is no longer in. With persistTokenAfterSync a crash
\* between the response and the listeners changes nothing about that; a batch
\* that fails does, because a later success persists a token past it.
NewsHeard ==
    PersistAfter /\ CaughtUp /\ spotless => \A r \in Rooms :
        CASE Membership(r) = "invite"          -> lastNews[r] = "room.invite"
          [] Membership(r) \in {"leave", "ban"} -> lastNews[r] = "room.leave"
          [] OTHER                             -> TRUE

TellsJoin(r) ==
    telling # telling' /\ telling' = [room |-> r, news |-> "room.join"]

\* room.join is emitted only for a room the bot does not believe to be in,
\* whatever the responses leave out and wherever a batch was cut short, unless
\* a listener of a membership event threw since start().
JoinIsNews ==
    [][\A r \in Rooms :
           TellsJoin(r) /\ "listener" \notin flaws => r \notin view]_vars
=============================================================================
