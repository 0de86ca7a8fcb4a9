CONSTANTS
  MaxProcs = 4
  MaxHandles = 2
  MaxRcs = 8
  Other = Other
  None = None
SPECIFICATION Spec
INVARIANT PidsAreSpent
INVARIANT NoOrphans
CHECK_DEADLOCK FALSE
