CONSTANTS
  Kinds = {"ws2"}
  Buffering = {TRUE}
  MaxCalls = 1
  MaxBatch = 1
  MaxCuts = 0
SPECIFICATION Spec
INVARIANT SuccessMeansReceived
CHECK_DEADLOCK FALSE
