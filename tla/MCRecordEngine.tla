--------------------------- MODULE MCRecordEngine ---------------------------
(* RecordEngine for TLC: batches of two streams. *)
EXTENDS RecordEngine, TLC
CONSTANTS r1, r2, r3, s1, s2, p1, p2, p3
TwoBatches == {r1, r2}
ThreeBatches == {r1, r2, r3}
OneStream == [r \in Rec |-> s1]
ThreeParts == {p1, p2, p3}
Symmetry == Permutations(Part)
=============================================================================
