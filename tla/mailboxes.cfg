CONSTANTS
  Kinds = {"tcp", "ws", "ws2", "mqtt2"}
  Buffering = {TRUE, FALSE}
  MaxCalls = 2
  MaxBatch = 2
  MaxCuts = 2
SPECIFICATION FairSpec
INVARIANTS
  TypeOK
  AnswersBounded
  OkMeansReceived
  InOrderOnce
PROPERTIES
  EveryCallAnswered
  DeadPeerNoticed
CHECK_DEADLOCK FALSE
