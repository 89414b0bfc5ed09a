SPECIFICATION Spec
CONSTANTS
  root = root
  a = a
  b = b
  c = c
  d = d
  e = e
  g = g
  None = None
  Root = root
  Task <- Grouped
  Action <- GroupedAction
  Parent <- GroupedParent
  Members <- GroupedMembers
  Unknown = {}
  Failing = {root, a, d}
  Sleeping = {}
  Late = FALSE
CHECK_DEADLOCK FALSE
INVARIANTS
  TypeOK
  SchedulersSound
  SiblingsInTurn
  ChildrenFirst
  ChainedLast
  NothingForgotten
  GroupStopsAtFailure
PROPERTY
  ImplementsTraversal
