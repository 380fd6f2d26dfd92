SPECIFICATION FairSpec
CONSTANTS
  Request = {r1, r2}
  MaxIdle = 1
  TryMax = 3
  MaxBorn = 2
  MaxClose = 1
INVARIANTS
  Exclusive
  NoneLost
PROPERTIES
  ImplementsLease
  Answered
  CloseEnds
CHECK_DEADLOCK FALSE
