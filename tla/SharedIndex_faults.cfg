CONSTANTS
  Node = {n1, n2}
  None = None
  Part = {p1, p2}
  MaxTerm = 2
  MaxLost = 1
  MaxRestart = 1
  Late = TRUE
  Clustered = TRUE
  Attempts = 2
SPECIFICATION Spec
SYMMETRY Symmetry
INVARIANTS TypeOK NoOverlap NamedPresent
PROPERTIES NoDisplacedCommit GenerationRises NothingDropped SlotsKept
