----------------------------- MODULE PowerLevels ----------------------------
(***************************************************************************)
(* Power levels: what MatrixClient and PowerLevelsEvent read from          *)
(* m.room.power_levels, calculatePowerLevelChangeBoundsOn, which reads it  *)
(* twice, and setUserPowerLevel, which reads it and writes it back, while  *)
(* others change it. The homeserver applies Matrix's rules to the writes.  *)
(***************************************************************************)
EXTENDS Integers

CONSTANTS
    Users, Me,
    Levels,    \* integers
    Actions,   \* of PowerLevelAction
    Absent,    \* a level that is not given
    Calls,     \* calls of the client
    MaxChanges \* bound: changes by others

VARIABLES
    levels,    \* homeserver: the content of m.room.power_levels
    changes,   \* bound
    call,
    undone     \* history: a write changed more than it was asked to, although
               \* nothing else had changed since it was read

powerVars == <<levels, changes, call, undone>>

Maybe  == Levels \cup {Absent}
Fields == {"users_default", "state_default", "events_default"}
Types  == {"m.room.power_levels", "m.room.message"}

-----------------------------------------------------------------------------
(* Reading the event *)

Or(level, default) == IF level = Absent THEN default ELSE level

\* The level of a user, and the one an event takes.
UserLevel(pl, u) == Or(pl.users[u], Or(pl.users_default, 0))

EventLevel(pl, type, isState) ==
    Or(pl.events[type], IF isState THEN Or(pl.state_default, 50) ELSE Or(pl.events_default, 0))

UserHasPowerLevelFor(pl, u, type, isState) == UserLevel(pl, u) >= EventLevel(pl, type, isState)

UserHasPowerLevelForAction(pl, u, action) == UserLevel(pl, u) >= Or(pl.actions[action], 50)

\* The getters of PowerLevelsEvent, with defaults of their own.
ActionGetter(pl, action) == Or(pl.actions[action], 50)
DefaultGetter(pl, field) == Or(pl[field], IF field = "users_default" THEN 0 ELSE 50)

-----------------------------------------------------------------------------
(* The homeserver *)

\* Others' levels can be changed below one's own, to one's own or less.
Allowed(old, new) ==
    /\ UserHasPowerLevelFor(old, Me, "m.room.power_levels", TRUE)
    /\ \A u \in Users :
           new.users[u] # old.users[u] =>
               /\ u # Me => Or(old.users[u], -1) < UserLevel(old, Me)
               /\ Or(new.users[u], -1) <= UserLevel(old, Me)

NoCall == [pc |-> "idle", user |-> Me, level |-> Absent, read |-> Absent, stable |-> TRUE,
           can |-> FALSE, max |-> 0]

Init ==
    /\ levels \in [users : [Users -> Maybe], users_default : Maybe, state_default : {Absent, 0},
                   events_default : {Absent, 0}, events : [Types -> {Absent, 100}],
                   actions : [Actions -> {Absent, 0}]]
    /\ changes = 0
    /\ call = [c \in Calls |-> NoCall]
    /\ undone = FALSE

\* After a change, what calls have read or answered may be out of date.
Changed(calls) ==
    [c \in Calls |-> IF calls[c].pc = "idle" THEN calls[c] ELSE [calls[c] EXCEPT !.stable = FALSE]]

OthersChange(u, l) ==
    /\ changes < MaxChanges
    /\ changes' = changes + 1
    /\ levels' = [levels EXCEPT !.users[u] = l]
    /\ levels' # levels
    /\ call' = Changed(call)
    /\ UNCHANGED undone

-----------------------------------------------------------------------------
(* setUserPowerLevel *)

SetUserPowerLevel(c, u, l) ==
    /\ call[c].pc = "idle"
    /\ call' = [call EXCEPT ![c] = [NoCall EXCEPT !.pc = "write", !.user = u, !.level = l,
                                                  !.read = levels]]
    /\ UNCHANGED <<levels, changes, undone>>

\* Faulty variant: the users of the event are replaced.
NewLevelsAlone(read, u, l) ==
    [read EXCEPT !.users = [v \in Users |-> IF v = u THEN l ELSE Absent]]

NewLevels(read, u, l) == [read EXCEPT !.users[u] = l]

\* sendStateEvent with the event that was read, changed.
Write(c) ==
    LET new == NewLevels(call[c].read, call[c].user, call[c].level)
    IN /\ call[c].pc = "write"
       /\ IF Allowed(levels, new)
          THEN /\ levels' = new
               /\ undone' = (undone \/ (call[c].stable
                                        /\ \E u \in Users \ {call[c].user} :
                                               new.users[u] # levels.users[u]))
               /\ call' = [IF new = levels THEN call ELSE Changed(call) EXCEPT ![c] = NoCall]
          ELSE call' = [call EXCEPT ![c] = NoCall] /\ UNCHANGED <<levels, undone>>
       /\ UNCHANGED changes

-----------------------------------------------------------------------------
(* calculatePowerLevelChangeBoundsOn *)

\* userHasPowerLevelFor reads the event for itself.
CalculateBounds(c, u) ==
    /\ call[c].pc = "idle"
    /\ call' = [call EXCEPT ![c] =
           [NoCall EXCEPT !.user = u,
                !.pc = IF UserHasPowerLevelFor(levels, Me, "m.room.power_levels", TRUE)
                       THEN "read" ELSE "told"]]
    /\ UNCHANGED <<levels, changes, undone>>

\* Both levels, without the default.
Bounds(c) ==
    LET target == Or(levels.users[call[c].user], 0)
        mine   == Or(levels.users[Me], 0)
    IN /\ call[c].pc = "read"
       /\ call' = [call EXCEPT ![c].pc = "told", ![c].max = mine,
                               ![c].can = (call[c].user = Me \/ target < mine)]
       /\ UNCHANGED <<levels, changes, undone>>

Forget(c) ==
    /\ call[c].pc = "told"
    /\ call' = [call EXCEPT ![c] = NoCall]
    /\ UNCHANGED <<levels, changes, undone>>

Next ==
    \/ \E u \in Users, l \in Levels : OthersChange(u, l)
    \/ \E c \in Calls :
           \/ \E u \in Users, l \in Levels : SetUserPowerLevel(c, u, l)
           \/ Write(c)
           \/ \E u \in Users : CalculateBounds(c, u)
           \/ Bounds(c) \/ Forget(c)

Spec == Init /\ [][Next]_powerVars

-----------------------------------------------------------------------------
(* Properties *)

\* If nothing changed since the first read, and the default level of users is
\* 0, the bounds are those of the homeserver: it accepts a change to any level
\* up to the maximum, and none of a listed user who cannot be changed.
BoundsHold ==
    \A c \in Calls :
        LET u == call[c].user
            Accepts(l) == Allowed(levels, NewLevels(levels, u, l))
        IN (call[c].pc = "told" /\ call[c].stable /\ Or(levels.users_default, 0) = 0) =>
               \A l \in Levels :
                   /\ call[c].can => (Accepts(l) <=> l <= call[c].max)
                   /\ ~call[c].can /\ levels.users[u] \notin {l, Absent} => ~Accepts(l)

\* setUserPowerLevel changes nobody else's level, unless another change came
\* between its read and its write, which is then undone.
NothingUndone == ~undone

\* What PowerLevelsEvent gives as required is what the client requires, except
\* for the default level of events that are not state.
GettersAgree ==
    \A u \in Users :
        /\ \A a \in Actions : UserHasPowerLevelForAction(levels, u, a)
                              <=> UserLevel(levels, u) >= ActionGetter(levels, a)
        /\ levels.users[u] = Absent => UserLevel(levels, u) = DefaultGetter(levels, "users_default")
        /\ \A t \in Types, isState \in BOOLEAN :
               LET field == IF isState THEN "state_default" ELSE "events_default"
               IN levels.events[t] = Absent /\ (isState \/ levels[field] # Absent) =>
                      EventLevel(levels, t, isState) = DefaultGetter(levels, field)

\* The client's view of the power levels is the homeserver's, and its changes
\* are the ones asked for.
PowerIsAsTold == BoundsHold /\ NothingUndone /\ GettersAgree
=============================================================================
