CONSTANTS
  None = None
  a = a
  b = b
  c = c
  d = d
  Node = {a,d}
  Ring <- TwoOwners
  Time <- ThreeTimes
  MaxFault = 1
  MaxDrop = 0
  Shards = {"pair"}
SPECIFICATION MCSpec
PROPERTY GapClosesCovered
CHECK_DEADLOCK FALSE
