CONSTANTS
  None = None
  a = a
  b = b
  c = c
  d = d
  Node = {a,b,c,d}
  Ring <- TwoOwners
  Time <- TwoTimes
  MaxFault = 2
  MaxDrop = 1
  Shards = {"pair","triple","late"}
SPECIFICATION MCSpec
INVARIANT WholeAnswers
SYMMETRY Replicas
CHECK_DEADLOCK FALSE
