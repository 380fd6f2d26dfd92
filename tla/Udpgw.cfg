SPECIFICATION Spec
CONSTANTS
  ConId = {k1, k2}
  MaxConn = 1
  MaxBorn = 4
INVARIANTS
  ListLimit
  ListedOpen
  EndedEmpty
  OrphanByLateExit
CHECK_DEADLOCK FALSE
