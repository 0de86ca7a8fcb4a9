CONSTANTS
  MaxProcs = 3
  MaxHandles = 2
  MaxRcs = 4
  Other = Other
  None = None
SPECIFICATION Spec
INVARIANT NoWaiterLost
CHECK_DEADLOCK FALSE
