SPECIFICATION Spec
CHECK_DEADLOCK FALSE
CONSTANTS
  None = None
  Same = Same
  Torn = Torn
  Bad = Bad
  k1 = k1
  k2 = k2
  w1 = w1
  w2 = w2
SYMMETRY Alike
INVARIANTS FilesDurable
PROPERTIES LogDurable PoolServes SamplesKept MergesConverge
