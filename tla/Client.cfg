SPECIFICATION FairSpec
CONSTANTS
  Forward = {f}
  Handler = {h}
  Mode = {auto, global}
  Short = {auto}
  MaxStart = 2
INVARIANTS
  OnlyLateForwards
  WaitedSaved
  PanicCauses
  ModesAgree
PROPERTIES
  WaitReturns
CHECK_DEADLOCK FALSE
