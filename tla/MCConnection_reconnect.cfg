CONSTANTS
  c2 = c2
  c1 = c1
  Clients = {c1, c2}
  MaxConns = 3
  MaxClients = 2
  MaxObjs = 1
  NtfnCapacity = 2
  None = None
SPECIFICATION Spec
INVARIANT ReturningGhostsAreAnnounced
CHECK_DEADLOCK FALSE
