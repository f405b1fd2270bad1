CONSTANTS
  Kinds = {"tcp"}
  Buffering = {TRUE}
  MaxConns = 2
  MaxRequests = 1
  MaxBatch = 1
SPECIFICATION Spec
INVARIANT RepliesReachRequester
CHECK_DEADLOCK FALSE
