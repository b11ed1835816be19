----------------------------- MODULE MCRoomJoin -----------------------------
(* RoomJoin for TLC: two rooms. *)
EXTENDS RoomJoin

CONSTANTS den, attic
=============================================================================
