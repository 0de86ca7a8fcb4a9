CONSTANTS
  c3 = c3
  c2 = c2
  c1 = c1
  Clients = {c1, c2, c3}
  MaxConns = 3
  MaxClients = 2
  MaxObjs = 1
  NtfnCapacity = 2
  None = None
SPECIFICATION Spec
INVARIANT NoLostWakeup
INVARIANT NobodyPanics
INVARIANT RegistrationsMatch
PROPERTY GhostsAreForgotten
PROPERTY CallsAreAnswered
CHECK_DEADLOCK FALSE
