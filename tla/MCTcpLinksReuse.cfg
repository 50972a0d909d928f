CONSTANTS
  a1 = a1
  a2 = a2
  u1 = u1
  p1 = p1
  NoName = NoName
  WorkConnections = 5
  Admin = {a1}
  User = {u1}
  UserPort = {p1}
  MaxAccept = 4
  MaxCommand = 1
  MaxOpen = 1
  MaxFail = 1
  MaxBatch = 2
  MaxDepth = 4
SPECIFICATION Spec
INVARIANTS
  TypeOK
  BusyNeverRefuses
  FreeListSound
  WorkTableExact
CHECK_DEADLOCK FALSE
