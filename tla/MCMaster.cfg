SPECIFICATION FairSpec
CONSTANTS
  Workers = 3
  MaxSignals = 1
INVARIANTS TypeOK ZombieAnnounced PortsBound
PROPERTIES Reaped
CHECK_DEADLOCK FALSE
