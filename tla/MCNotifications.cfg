CONSTANTS
  Object = {fs}
  Driver = {eth}
  Line = {l1, l2}
  Top = 2
  Capacity = 2
  None = None
SPECIFICATION Spec
INVARIANT BitsTellTheirSource
INVARIANT MaskedLinesAreOwed
PROPERTY InterruptsAreAcknowledged
PROPERTY BuffersAreRead
CHECK_DEADLOCK FALSE
