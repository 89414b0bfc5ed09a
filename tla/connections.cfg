CONSTANTS
  a = a
  b = b
  Conn <- MCConn
  MaxDepth = 3
  MaxChildren = 3
SPECIFICATION Spec
SYMMETRY MCSymmetry
PROPERTIES
  RunsWhereOpened
  ManagedClosed
CHECK_DEADLOCK FALSE
