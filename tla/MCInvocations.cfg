CONSTANTS
  App = {a1}
  MaxNested = 2
  None = None
SPECIFICATION CallSpec
INVARIANT ArrivesAsMeant
INVARIANT ReadyForTheNext
INVARIANT RepliesFit
 
PROPERTY CallsReturn
CHECK_DEADLOCK FALSE
