CONSTANTS
  p1 = p1
  p2 = p2
  w1 = w1
  w2 = w2
  r1 = r1
  r2 = r2
  Procs = {p1, p2}
  Windows = {w1, w2}
  Regs = {r1, r2}
  WinPages = 2
  MaxHandles = 2
  ViewArgs <- SomeViews
  NtfnCapacity = 2
  None = None
SPECIFICATION Spec
INVARIANT RecordsAgree
INVARIANT FaultsAreOwed
INVARIANT PagesAreRight
PROPERTY FaultsAreAnswered
CONSTRAINT StopAtIncident
CHECK_DEADLOCK FALSE
