-------------------------- MODULE MCSessionHistory --------------------------
(* SessionHistory for TLC: two accounts, one with a conversation and a room. *)
EXTENDS SessionHistory

CONSTANTS alice, bob

MCChats == {<<alice, "chat">>}
MCRooms == {<<alice, "room">>}
=============================================================================
