CONSTANTS
  r1 = r1
  r2 = r2
  r3 = r3
  s1 = s1
  s2 = s2
  p1 = p1
  p2 = p2
  p3 = p3
  Rec = {r1, r2}
  Stream = {s1}
  StreamOf <- OneStream
  Part = {p1, p2}
  Expirable = {}
  Unsyncable = {}
  Rejecting = {}
  MaxEpoch = 3
  MaxSeq = 3
SPECIFICATION Spec
SYMMETRY Symmetry
INVARIANTS ExactlyOnce
