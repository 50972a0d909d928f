CONSTANTS
  w1 = w1
  w2 = w2
  w3 = w3
  Worker = {w1, w2, w3}
  MaxMessages = 3
  MayStop = TRUE
SPECIFICATION FairSpec
INVARIANTS
  TypeOK
  TakenInOrder
  NoStranded
PROPERTY
  ImplementsTaskQueue
  Served
  StopsUnlessDozing
CHECK_DEADLOCK FALSE
