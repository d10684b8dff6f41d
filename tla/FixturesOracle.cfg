\* The layer fixture alone: what ARCHITECTURE.md says of its oracle.
SPECIFICATION Spec
CONSTANTS
  None = "none"
  Trunk <- MCTrunk
  Experts <- MCExperts
  Builds = {"b1", "b2", "b3"}
  Routes <- MCRoutes
  WalkRoutes <- MCWalkRoutes
  MaxRuns = 4
  MaxStops = 3
  MaxLosses = 1
  Parts = {"layer"}
INVARIANT OracleIsBound
CHECK_DEADLOCK FALSE
