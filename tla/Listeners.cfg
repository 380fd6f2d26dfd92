SPECIFICATION FairSpec
CONSTANTS
  Addrs = 2
  MaxRun = 4
INVARIANTS
  UnlistedByRestart
PROPERTIES
  WaitsForAll
  Served
  StopEnds
CHECK_DEADLOCK FALSE
