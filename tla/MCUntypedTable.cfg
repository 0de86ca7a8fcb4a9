CONSTANTS
  Pages = 3
  Top = 2
  PerPage = 3
  MaxTables = 2
  None = None
SPECIFICATION Spec
INVARIANTS
  ListsAreApart
  NothingForgotten
  NoOverlap
CHECK_DEADLOCK FALSE
