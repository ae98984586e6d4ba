---------------------------- MODULE MCSharedIndex ----------------------------
(* SharedIndex for TLC. *)
EXTENDS SharedIndex, TLC
Symmetry == Permutations(Node) \cup Permutations(Part)
=============================================================================
