------------------------------- MODULE MCRealm -------------------------------
(* RealmFrame for TLC. *)
EXTENDS RealmFrame, TLC

Symmetry == Permutations(Sessions)
=============================================================================
