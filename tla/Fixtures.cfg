\* All parts; runs are bounded, so the system may stop.
SPECIFICATION Spec
CONSTANTS
  None = "none"
  Trunk <- MCTrunk
  Experts <- MCExperts
  Builds = {"b1", "b2", "b3"}
  Routes <- MCRoutes
  WalkRoutes <- MCWalkRoutes
  MaxRuns = 4
  MaxStops = 3
  MaxLosses = 1
  Parts = {"moe", "moe1", "layer", "two", "two1", "discovery"}
INVARIANTS
  ArtifactIsDescribed
  FixtureHasPublishedBytes
PROPERTIES
  RunsAreWhole
  TraceIsLayerMajor
  ImplementsMoe
  EventuallyRecorded
CHECK_DEADLOCK FALSE
