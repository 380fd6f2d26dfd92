SPECIFICATION FairSpec
CONSTANTS
  Request = {r1, r2}
  Secure = {r1}
  Host <- MCHost
  Line <- MCLine
  EndsWith <- MCEndsWith
  Skipped <- MCSkipped
  MaxStart = 2
INVARIANTS
  WayKept
  EarnedOnly
  SavedKept
  DialSettled
PROPERTIES
  HandshakeEnds
  RequestEnds
CHECK_DEADLOCK FALSE
