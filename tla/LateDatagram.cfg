SPECIFICATION Spec
CONSTANTS
  MaxSession = 2
  MaxData = 1
  MaxStream = 1
  MaxAdmin = 1
  Udpgw = {1}
INVARIANTS
  Isolation
CHECK_DEADLOCK FALSE
