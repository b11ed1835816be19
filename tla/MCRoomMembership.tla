-------------------------- MODULE MCRoomMembership --------------------------
(* Small instances of RoomMembership for TLC. *)
EXTENDS RoomMembership, TLC

CONSTANTS o, a, b

\* Everybody but the owner does the same things.
Symmetry == Permutations(Devices \ {Owner})

\* Bound: once anything has gone wrong, three calls and chains in all.  Without an
\* upset, MaxCalls calls, and up to MaxChains chains on each device.
FewTogether == upsets > 0 => calls + minted[o] + minted[a] + minted[b] <= 3

=============================================================================
