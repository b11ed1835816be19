---------------------------- MODULE MCConnections ----------------------------
(* Connections with two accounts and a small number of people. *)
EXTENDS Connections, TLC

CONSTANTS a1, a2, b1, b2

=============================================================================
