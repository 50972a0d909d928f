SPECIFICATION FairSpec
CONSTANTS
  a1 = a1
  u1 = u1
  Admin <- Admins
  User <- Users
  MaxSend = 1
  MaxRqSend = 0
  MaxMessages = 3
  MaxShort = 1
  MaxBreaks = 1
  MaxFlush = 0
INVARIANTS TypeOK CountersConserved NoLostWakeup
PROPERTIES Drained ImplementsOutbox
CHECK_DEADLOCK FALSE
