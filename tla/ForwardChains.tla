--------------------------- MODULE ForwardChains ---------------------------
(***************************************************************************)
(* What a per-sender chain promises the room, with none of the machinery   *)
(* that keeps the promise: one key, one message.  A message is sealed at a *)
(* position of a chain only if that position lies past every position of   *)
(* the same chain that ever sealed anything, whatever was saved, lost or   *)
(* restored in between.                                                    *)
(***************************************************************************)
EXTENDS Integers

CONSTANT Chains

VARIABLE log    \* every message ever sealed: its chain, its position, its number

Messages == [chain : Chains, pos : Nat, msg : Nat]

Init == log = {}

\* Message x is sealed, past everything its chain has sealed so far.
Seal(x) ==
  /\ x \in Messages
  /\ \A y \in log : y.chain = x.chain => y.pos < x.pos
  /\ log' = log \cup {x}

Next == \E x \in log' : Seal(x)

Spec == Init /\ [][Next]_log
=============================================================================
