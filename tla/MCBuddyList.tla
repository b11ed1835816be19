----------------------------- MODULE MCBuddyList -----------------------------
(* BuddyList for TLC: two devices of one account, two people, the default group and *)
(* one of the user's own.  No property is of one device only.                       *)
EXTENDS BuddyList, TLC

CONSTANTS desk, phone, ann, ben, Buddies, Work

EitherDevice == Permutations(Devices)
=============================================================================
