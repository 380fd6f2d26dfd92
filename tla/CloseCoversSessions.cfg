SPECIFICATION Spec
CONSTANTS
  Request = {r1, r2}
  MaxIdle = 1
  TryMax = 2
  MaxBorn = 3
  MaxClose = 1
PROPERTY
  CloseCoversSessions
CHECK_DEADLOCK FALSE
