CONSTANTS
  Buffering = {TRUE, FALSE}
  Throwing = TRUE
  MaxCalls = 2
  MaxReplies = 1
  MaxBatch = 2
  MaxDisconnects = 2
SPECIFICATION FairSpec
INVARIANTS
  TypeOK
  NoLostCall
  AnswersBounded
  InOrderOnce
  IInv
PROPERTIES
  ClosedIsQuiet
  KeepsPromise
  DeadPeerNoticed
  QueueFlushed
CHECK_DEADLOCK FALSE
