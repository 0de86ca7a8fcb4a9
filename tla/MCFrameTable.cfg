CONSTANTS
  MaxFrames = 5
  PerPage = 2
  MaxHolders = 2
  None = None
SPECIFICATION Spec
INVARIANT TableInv
INVARIANT ListsAreChains
INVARIANT ExclusiveOwnership
CHECK_DEADLOCK FALSE
PROPERTY ImplementsPool
