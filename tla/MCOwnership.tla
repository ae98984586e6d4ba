---------------------------- MODULE MCOwnership ----------------------------
(* Two nodes contend for one shard. *)
EXTENDS Ownership, TLC

CONSTANTS n1, n2

TwoNodes == {n1, n2}
Symmetry == Permutations(TwoNodes)
=============================================================================
