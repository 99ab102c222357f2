------------------------------ MODULE MCClient ------------------------------
(***************************************************************************)
(* A client for TLC: what it tells of the rooms it syncs, or one of its     *)
(* parts. What is not chosen stays as it started.                          *)
(***************************************************************************)
EXTENDS SyncRooms, ClientParts

VARIABLE syncs  \* TRUE: rooms are synced, FALSE: a part takes steps

\* No part is chosen when rooms are synced; the others have one start.
ClientInit ==
    /\ syncs \in BOOLEAN
    /\ Init /\ PartsInit
    /\ syncs => part = "profiles"
    /\ ~syncs => storedToken # NoToken

ClientNext ==
    \/ syncs /\ Next /\ UNCHANGED <<syncs, partsVars>>
    \/ ~syncs /\ PartsNext /\ UNCHANGED <<syncs, vars>>

ClientSpec == ClientInit /\ [][ClientNext]_<<syncs, vars, partsVars>>

\* Values that a configuration cannot write: lists to search for, and texts, of
\* which one has an arrow and one quotes by itself.
MCSearches == {<<>>, <<"join">>, <<"invite", "join">>}
MCTexts    == {<< <<"hi">> >>, << <<"x", "->">> >>, << <<"> ", "quote">>, <<"yes">> >>}

-----------------------------------------------------------------------------
(* What the documentation says and the code does not do, each for a run of its own *)

\* Memberships not to search for, in Members.
NotSearchedFor == part = "members" => Members!NotSearchedFor
\* The room whose history is told, in RoomUpgrades.
GivenRoomInNeither == part = "upgrades" => Upgrades!GivenRoomInNeither
=============================================================================
