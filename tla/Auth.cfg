SPECIFICATION FairSpec
CONSTANTS
  Handler = {h1, h2}
  User = {alice, bob}
  Password = {p}
  None = None
INVARIANTS
  AsAcknowledged
PROPERTIES
  Responds
