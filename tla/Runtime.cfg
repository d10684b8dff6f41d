\* All parts; loads, reads, prefetches, calls and sessions are bounded, so the
\* system may stop.
SPECIFICATION RuntimeSpec
CONSTANTS
  Parts = {"pair", "order", "read", "prefetch", "layer", "profile", "drafting"}
  Clients = {c1, c2}
  Tickets = {1, 2}
  NoTicket = NoTicket
  MaximumPending = 2
  Metadata <- OrderRequests
  FileLength = 7
  MaximumRead = 3
  Alignment = 2
  QueueDepth = 2
  RequestLists <- MCRequestLists
  MaxReads = 2
  MaxFaults = 2
  Groups <- MCGroups
  PrefetchLayers = {1, 2}
  Slots = 2
  Nothing = Nothing
  MaxPrefetches = 3
  MaxUses = 3
  MaxCudaFaults = 1
  Layers <- MCLayers
  TensorBytes <- MCTensorBytes
  WeightCapacity = 5
  GraphCapacity = 2
  MaxLayerCalls = 5
  MaxLayerFaults = 1
  ProfileExperts <- MCProfileExperts
  MaximumFrequency = 3
  MaximumTransition = 3
  MaximumCount = 8
  HotBankSize = 2
  MaximumProfileBytes = 12
  FrequencyBytes = 1
  TransitionBytes = 5
  Selections <- MCSelections
  OldProfiles <- MCOldProfiles
  MaxObservations = 3
  MaxSessions = 2
  MaximumLength = 4
  SurvivalNum = 1
  SurvivalDen = 2
  CostNum = 9
  CostDen = 10
  Policies = {TRUE, FALSE}
  Requests = {0, 3, 4}
  Costs <- MCCosts
  MaxTrials = 4
INVARIANTS
  LoaderIsSafe
  ReadsAreRight
  KernelsReadTheirGroup
  GraphsAreCurrent
  ProfileIsHistory
  LadderIsClimbed
PROPERTIES
  ImplementsDelivery
  EveryCallReturns
  RejectionIsHeeded
CHECK_DEADLOCK FALSE
