SPECIFICATION TimedSpec
CONSTANTS
  MaxSession = 2
  MaxData = 2
  MaxStream = 1
  MaxAdmin = 0
  Udpgw = {1}
INVARIANTS
  StrayOnlyUdpgw
PROPERTIES
  ImplementsTunnel
  ServerReleased
CHECK_DEADLOCK FALSE
