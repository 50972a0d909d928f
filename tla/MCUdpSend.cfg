CONSTANTS
  MaxSend = 1
  MaxMessages = 6
SPECIFICATION FairSpec
INVARIANTS
  TypeOK
  NoLostWakeup
PROPERTY
  ImplementsFifo
CHECK_DEADLOCK FALSE
