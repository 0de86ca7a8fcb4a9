CONSTANTS
  NumCnodes = 4
  SlotsPerCnode = 4
  CnodesPerNode = 3
  BootSizes <- MCBootSizes
  WatermarkSlots = 1
SPECIFICATION Spec
INVARIANTS
  FailsWhenFull
PROPERTY PoolSpec
CHECK_DEADLOCK FALSE
