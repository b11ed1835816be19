--------------------------- MODULE MCMessageSend ---------------------------
(* Small instances of MessageSend for TLC. *)
EXTENDS MessageSend, TLC

CONSTANTS hello, bye
=============================================================================
