SPECIFICATION Spec
CHECK_DEADLOCK FALSE
CONSTANTS
  None = None
  Junk = Junk
  Absent = Absent
INVARIANTS PartsExact DictExact MergeExact MergeWithinMemory FetchExact SymbolsResolve
