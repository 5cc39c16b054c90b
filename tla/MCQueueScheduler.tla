-------------------------- MODULE MCQueueScheduler --------------------------
(* QueueScheduler for TLC.  Every identity expires at the same time in the *)
(* runs that use symmetry.                                                 *)
EXTENDS QueueScheduler, TLC

CONSTANT Expiry  \* the exp every identity has

SameExpiry == [i \in Identities |-> Expiry]

Symmetry == Permutations(Identities)
=============================================================================
