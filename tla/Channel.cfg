SPECIFICATION FairSpec
CONSTANTS
  MaxSession = 2
  MaxData = 1
  MaxStream = 1
  MaxAdmin = 1
  Udpgw = {}
INVARIANTS
  Isolation
  SameSession
  QuietPool
  EvictedNeverServes
PROPERTIES
  DialAnswered
  SessionEnds
CHECK_DEADLOCK FALSE
