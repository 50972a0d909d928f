SPECIFICATION Spec
CONSTANTS
  a1 = a1
  c1 = c1
  c2 = c2
  p1 = p1
  Objects = 2
  UserPort <- Ports
  Admin <- Admins
  Client <- Clients
  MaxId = 1
  MaxSend = 0
  MaxRegist = 3
  MaxOpens = 2
  MaxCloses = 1
SYMMETRY Symmetry
CONSTRAINTS WhileSound FewUnderWay
INVARIANTS TypeOK TablesPaired FreeListSound RightClient NothingLeaks
CHECK_DEADLOCK FALSE
