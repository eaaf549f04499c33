SPECIFICATION Spec
CONSTANTS
  PagePayloadSize = 52
  MaxEdgesSingle = 2
  MaxEdgesCont = 2
  MaxNodes = 2
  MaxEdges = 4
  NodeLabels = {"A"}
  EdgeLabels = {"R"}
  v1 = v1
  v2 = v2
  Values = {v1, v2}
  Ends <- EndsBoth
  MaxUpdates = 1
  MaxStale = 0
  MaxBurns = 0
  MaxOpens = 1
  MaxCrashes = 0
  MaxDepth = 2
  MaxBatches = 1
  MaxBatchOps = 2
  MaxEvictions = 1
  MaxFlushes = 1
  MaxEvents = 1
  UniqueLabels = {"A"}
INVARIANTS SlabsAreSound EdgeListsAreExact IndexesServeConstraints
CHECK_DEADLOCK FALSE
SYMMETRY ValueSymmetry
