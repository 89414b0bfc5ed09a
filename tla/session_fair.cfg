SPECIFICATION FairSpec
CONSTANTS
  root = root
  a = a
  b = b
  c = c
  d = d
  e = e
  g = g
  None = None
  Root = root
  Task <- Tree
  Action <- Tree
  Parent <- TreeParent
  Members <- NoMembers
  Unknown = {c}
  Failing = {root, a, b, c}
  Sleeping = {a}
  Late = FALSE
CHECK_DEADLOCK FALSE
PROPERTIES
  EveryCallSettles
  SessionSettles
