SPECIFICATION FairSpec
CONSTANTS
  HeadLen = 1
  MsgLen = 4
  ToUser = TRUE
  MaxMessages = 2
  MaxShort = 2
  MaxFlush = 1
INVARIANTS TypeOK OneAtATime WholeMessages
PROPERTIES Resumes
CHECK_DEADLOCK FALSE
