CONSTANTS
  Node = {n1, n2}
  None = None
  Part = {p1, p2}
  MaxTerm = 3
  MaxLost = 1
  MaxRestart = 0
  Late = FALSE
  Clustered = TRUE
  Attempts = 2
SPECIFICATION Spec
SYMMETRY Symmetry
INVARIANTS NoOverlap
