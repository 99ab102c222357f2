---------------------------- MODULE RoomUpgrades ----------------------------
(***************************************************************************)
(* Upgraded rooms: getRoomUpgradeHistory, which follows the predecessors   *)
(* of a room and then its replacements, one request after the other while  *)
(* rooms are upgraded. Predecessors and tombstones are what room creators  *)
(* wrote: they need not agree and may form a cycle.                        *)
(***************************************************************************)
EXTENDS Naturals, Sequences, FiniteSets, Functions

CONSTANTS
    Rooms, Start,  \* Start is the room asked about
    None,
    MaxUpgrades    \* bound: upgrades during the call

VARIABLES
    predecessor, replacement, \* homeserver: of each room, or None
    readable,  \* homeserver: the rooms whose full state the client may read
    upgrades,  \* bound
    pc, at,    \* of the call, and the room it has come to
    previous, newer, \* sequences of references
    current
upgradeVars == <<predecessor, replacement, readable, upgrades, pc, at, previous, newer, current>>

Ids(refs) == {refs[i].roomId : i \in DOMAIN refs}

Init ==
    /\ predecessor \in [Rooms -> Rooms \cup {None}]
    /\ replacement \in [Rooms -> Rooms \cup {None}]
    /\ readable \in {Rooms, {Start}}
    /\ upgrades = 0
    /\ pc = "creates" /\ at = Start
    /\ previous = <<>> /\ newer = <<>> /\ current = None

\* Somebody upgrades a room to a new one, which nothing refers to yet.
Upgrade(old, new) ==
    /\ upgrades < MaxUpgrades
    /\ upgrades' = upgrades + 1
    /\ old # new /\ new # Start /\ replacement[old] = None
    /\ new \notin Range(predecessor) \cup Range(replacement)
    /\ predecessor[new] = None /\ replacement[new] = None
    /\ predecessor' = [predecessor EXCEPT ![new] = old]
    /\ replacement' = [replacement EXCEPT ![old] = new]
    /\ UNCHANGED <<readable, pc, at, previous, newer, current>>

-----------------------------------------------------------------------------
(* chaseCreates *)

\* Faulty variant: only a room that refers to itself ends the walk.
SeenItself(r, refs) == r = at

\* A room that refers to itself, or that was found before, ends the walk.
Seen(r, refs) == r = at \/ r \in Ids(refs)

\* An event that cannot be read ends the walk; so does one without a reference.
CreatesEnd ==
    /\ pc = "creates"
    /\ pc' = "tombstones" /\ at' = Start
    /\ \/ UNCHANGED current   \* the create event cannot be read
       \/ /\ predecessor[at] = None \/ Seen(predecessor[at], previous)
          /\ current' = IF at = Start THEN Start ELSE current
    /\ UNCHANGED <<predecessor, replacement, readable, upgrades, previous, newer>>

\* The create event is read, then the state of the predecessor.
CreateRead ==
    /\ pc = "creates"
    /\ predecessor[at] # None /\ ~Seen(predecessor[at], previous)
    /\ current' = IF at = Start THEN Start ELSE current
    /\ pc' = "tombstone of predecessor"
    /\ UNCHANGED <<predecessor, replacement, readable, upgrades, at, previous, newer>>

\* The tombstone counts if it refers back.
PredecessorRead ==
    LET found == predecessor[at]
    IN /\ pc = "tombstone of predecessor"
       /\ previous' = Append(previous, [roomId |-> found,
              ref |-> found \in readable /\ replacement[found] = at])
       /\ at' = found /\ pc' = "creates"
       /\ UNCHANGED <<predecessor, replacement, readable, upgrades, newer, current>>

-----------------------------------------------------------------------------
(* chaseTombstones *)

TombstonesEnd ==
    /\ pc = "tombstones"
    /\ pc' = "done"
    /\ UNCHANGED <<predecessor, replacement, readable, upgrades, at, previous, newer, current>>

TombstoneRead ==
    /\ pc = "tombstones"
    /\ replacement[at] # None /\ ~Seen(replacement[at], newer)
    /\ pc' = "create of replacement"
    /\ UNCHANGED <<predecessor, replacement, readable, upgrades, at, previous, newer, current>>

ReplacementRead ==
    LET found == replacement[at]
    IN /\ pc = "create of replacement"
       /\ newer' = Append(newer, [roomId |-> found,
              ref |-> found \in readable /\ predecessor[found] = at])
       /\ at' = found /\ pc' = "tombstones"
       /\ UNCHANGED <<predecessor, replacement, readable, upgrades, previous, current>>

Next ==
    \/ \E old, new \in Rooms : Upgrade(old, new)
    \/ CreatesEnd \/ CreateRead \/ PredecessorRead
    \/ TombstonesEnd \/ TombstoneRead \/ ReplacementRead

Spec == Init /\ [][Next]_upgradeVars

-----------------------------------------------------------------------------
(* Properties *)

IsWalk(refs, next) ==
    \A i \in DOMAIN refs : refs[i].roomId = next[IF i = 1 THEN Start ELSE refs[i - 1].roomId]

\* The rooms reached from one by following references: those in every set that
\* has the next room and, of each of its rooms, the next one.
Reached(next, from) ==
    {r \in Rooms : \A S \in SUBSET Rooms :
        ({next[from]} \cup {next[s] : s \in S}) \ {None} \subseteq S => r \in S}

Agree == \A r, s \in Rooms : predecessor[s] = r <=> replacement[r] = s

\* The walks are over references, nearest room first, and meet no room twice:
\* they end. The room asked about is found only if its references form a cycle,
\* and a room is both older and newer only if references disagree or do so.
\* References that agree, and only these, come with their event.
HistoryIsAWalk ==
    /\ IsWalk(previous, predecessor) /\ IsWalk(newer, replacement)
    /\ Cardinality(Ids(previous)) = Len(previous) /\ Cardinality(Ids(newer)) = Len(newer)
    /\ Start \in Ids(previous) => Start \in Reached(predecessor, Start)
    /\ Start \in Ids(newer) => Start \in Reached(replacement, Start)
    /\ Agree /\ Start \notin Reached(predecessor, Start) => Ids(previous) \cap Ids(newer) = {}
    /\ \A i \in DOMAIN previous : previous[i].ref =>
           replacement[previous[i].roomId] = IF i = 1 THEN Start ELSE previous[i - 1].roomId
    /\ Agree /\ readable = Rooms => \A i \in DOMAIN newer : newer[i].ref

\* What the documentation says of the history: the room asked about is not in it.
GivenRoomInNeither == Start \notin Ids(previous) \cup Ids(newer)
=============================================================================
