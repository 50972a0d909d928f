CONSTANTS
  a1 = a1
  a2 = a2
  u1 = u1
  p1 = p1
  NoName = NoName
  WorkConnections = 6
  Admin = {a1, a2}
  User = {u1}
  UserPort = {p1}
  MaxAccept = 3
  MaxCommand = 2
  MaxOpen = 1
  MaxFail = 0
  MaxBatch = 1
  MaxDepth = 4
SPECIFICATION Spec
SYMMETRY Symmetry
CONSTRAINT WhileSound
INVARIANTS
  WorkConserved
  FreeListSound
  PortTableExact
CHECK_DEADLOCK FALSE
