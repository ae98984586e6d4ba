SPECIFICATION Spec
CHECK_DEADLOCK FALSE
CONSTANTS
  None = None
  r1 = r1
  r2 = r2
  s1 = s1
  n1 = n1
  n2 = n2
  p1 = p1
  p2 = p2
  p3 = p3
  p4 = p4
  p5 = p5
  p6 = p6
PROPERTIES EventuallyCommitted EventuallyEstablished Answered
