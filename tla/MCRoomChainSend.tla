-------------------------- MODULE MCRoomChainSend --------------------------
(* Small instances of RoomChainSend for TLC. *)
EXTENDS RoomChainSend, TLC

CONSTANTS r1, r2, s1, s2, k1, c1, c2

\* Two sends in flight do the same things; so do two chains not yet minted.
Symmetry == Permutations(Senders) \cup Permutations(Chains)
=============================================================================
