SPECIFICATION Spec
CONSTANTS
  Request = {r1, r2, r3}
  MaxIdle = 1
  TryMax = 2
  MaxBorn = 3
  MaxClose = 1
INVARIANT
  IdleBound
CHECK_DEADLOCK FALSE
SYMMETRY Symmetry
