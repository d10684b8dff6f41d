\* All parts; calls, reads and generations are bounded, so the system may stop.
SPECIFICATION Spec
CONSTANTS
  None = None
  id1 = id1
  id2 = id2
  Writers = {"w1"}
  Identities = {id1, id2}
  TensorLength <- TwoTensors
  ChunkSizes = {1, 2, 3}
  MaxWriterCalls = 3
  Seeds = {7, 8}
  SyntheticKinds <- TwoKinds
  SyntheticDense = {1}
  SyntheticExperts = 2
  MaxGenerations = 2
  Experts <- FourExperts
  Ladder = {2, 3, 4}
  AdaptiveTopK = 4
  TopKs = {3, 4}
  Batches <- TokenBatches
  Biases <- CorrectionBiases
  Targets = {2, 4}
  Gaps = {0, 2}
  Unit = 4
  Benches <- AllBenches
  MaxFaults = 2
  RouteOf <- Routes
  HiddenBytes = 7
  State = 1001
  KdaBf16 = 300007
  KdaF32 = 50021
  Common = 90001
  Expert = 20011
  RouteBytes = 4003
  FrontBytes = 313
  LogitsBytes = 29
  Contribution = 3
  ExpertIo = 5
INVARIANTS
  FloorOnlyRaises
  SessionIsHistory
  DeviceIsLeftFree
  RowsAreAccepted
PROPERTIES
  SourcesAreConsistent
CHECK_DEADLOCK FALSE
