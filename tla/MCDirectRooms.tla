---------------------------- MODULE MCDirectRooms ----------------------------
(***************************************************************************)
(* DirectRooms for TLC. Users, rooms, calls and GETs are interchangeable,    *)
(* and the properties checked with the symmetry are safety properties.     *)
(***************************************************************************)
EXTENDS DirectRooms, TLC

Interchangeable ==
    Permutations(Users) \cup Permutations(Rooms)
        \cup Permutations(Calls) \cup Permutations(Gets)
=============================================================================
