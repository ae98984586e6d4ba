SPECIFICATION Spec
CHECK_DEADLOCK FALSE
CONSTANTS
  None = None
  Bad = Bad
  Err = Err
INVARIANTS LineageSound RemoteExact FanOutExact BatchesFaithful SpansFaithful EncodingsExact
PROPERTIES MirrorSound
