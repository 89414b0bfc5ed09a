SPECIFICATION Spec
CONSTANTS
  root = root
  a = a
  b = b
  c = c
  d = d
  e = e
  g = g
  None = None
  Root = root
  Task <- Tree
  Action <- Tree
  Parent <- TreeParent
  Members <- NoMembers
  Unknown = {}
  Failing = {a}
  Sleeping = {}
  Late = FALSE
CHECK_DEADLOCK FALSE
INVARIANT
  LiveIsPath
