------------------------- MODULE MCAccountIdentity -------------------------
(* Small instances of AccountIdentity for TLC. *)
EXTENDS AccountIdentity, TLC

CONSTANTS d1, d2, d3
=============================================================================
