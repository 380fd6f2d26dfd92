SPECIFICATION FairSpec
CONSTANTS
  Thread = {t1, t2}
  Servers <- ThreeServers
  Torn = Torn
  Used = {1, 3}
  TestMax = 2
  MaxTry = 2
  Repeated <- First
INVARIANTS
  DivisorPositive
  SameServers
  FailedTriedAll
PROPERTIES
  NeighboursSorted
  SortingEnds
CHECK_DEADLOCK FALSE
