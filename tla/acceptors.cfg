CONSTANTS
  Kinds = {"mqtt", "tcp", "ws", "ws2", "mqtt2"}
  Buffering = {TRUE, FALSE}
  MaxConns = 2
  MaxRequests = 2
  MaxBatch = 2
SPECIFICATION FairSpec
INVARIANTS
  TypeOK
  NoLostRequest
  AnswersInOrder
PROPERTIES
  ReplyFlushed
  OrphanRemoved
CHECK_DEADLOCK FALSE
