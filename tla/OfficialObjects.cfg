\* All parts; calls are bounded, so the system may stop.
SPECIFICATION ObjectsSpec
CONSTANTS
  Ranges <- MCRanges
  Data <- MCData
  None = None
  Bad = Bad
  MaxKills = 2
  MaxFailures = 1
  MaxDamage = 2
  Nothing = Nothing
  Hosts = {h1, h2, h3}
  Trusted = {h1, h2}
  MaxRedirects = 2
  Sizes = {1, 2}
  Limit = 2
  MaxGets = 2
  Experts = {"e1", "e2"}
  Nobody = Nobody
  MaxSliceCalls = 6
  MaxSliceKills = 2
  MaxSliceFailures = 2
  MaxSliceDamage = 1
INVARIANTS
  RangesAreRight
PROPERTIES
  ImplementsStore
  FetchIsTransaction
  ObjectsArrive
CHECK_DEADLOCK FALSE
