SPECIFICATION Spec
CONSTANTS
  a1 = a1
  u1 = u1
  Admin <- Admins
  User <- Users
  MaxSend = 2
  MaxRqSend = 1
  MaxMessages = 3
  MaxShort = 0
  MaxBreaks = 0
  MaxFlush = 0
INVARIANTS OverQuotaWaits
CHECK_DEADLOCK FALSE
