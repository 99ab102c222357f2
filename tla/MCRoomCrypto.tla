---------------------------- MODULE MCRoomCrypto ----------------------------
(***************************************************************************)
(* RoomCrypto for TLC. Calls and visibilities are interchangeable, and all  *)
(* properties are invariants.                                              *)
(***************************************************************************)
EXTENDS RoomCrypto, TLC

Interchangeable == Permutations(Calls) \cup Permutations(Visibilities)
=============================================================================
