CONSTANTS
  Components <- MCComponents
  Systems <- MCSystems
  MaxUnruly = 6
  Nothing = Nothing
SPECIFICATION SetupSpec
INVARIANTS
  NobodyPanics
  ChannelsPairUp
  DevicesStartLast
PROPERTIES
  DeathsAreOwn
  EverybodyRuns
CHECK_DEADLOCK FALSE
