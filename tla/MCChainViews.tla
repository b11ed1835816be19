---------------------------- MODULE MCChainViews ----------------------------
(* Small rooms for ChainViews. *)
EXTENDS ChainViews

CONSTANTS ann, ben, cat

=============================================================================
