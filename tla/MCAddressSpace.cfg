CONSTANTS
  p1 = p1
  p2 = p2
  w1 = w1
  w2 = w2
  o1 = o1
  o2 = o2
  v1 = v1
  v2 = v2
  f1 = f1
  f2 = f2
  Procs = {p1, p2}
  PageSize = 1
  MaxAddr = 4
  Places <- SidePlaces
  ObjSizes = {1}
  ViewArgs <- SomeViews
  Windows = {w1, w2}
  Objects = {o1, o2}
  Views = {v1, v2}
  Frames = {f1, f2}
  Shared = Shared
  Revoked = Revoked
  None = None
SPECIFICATION Spec
SYMMETRY Identities
INVARIANT BindingsAgree
INVARIANT FramesHaveOneHolder
INVARIANT MappingsAreBacked
INVARIANT ServerSurvives
CHECK_DEADLOCK FALSE
