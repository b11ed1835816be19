--------------------------- MODULE MCRoomHistory ---------------------------
(* Small rooms for RoomHistory. *)
EXTENDS RoomHistory

CONSTANTS ann, ben, cat

=============================================================================
