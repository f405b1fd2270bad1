CONSTANTS
  Servers = {s1, s2}
  Calls = {c1}
  NoCall = NoCall
  PendingSize = 1
  Options <- TcpFailover
  MaxStarts = 1
  MaxAdds = 2
  MaxLosses = 2
  s1 = s1
  s2 = s2
  c1 = c1
SPECIFICATION Spec
INVARIANTS
  FailoverTriesOthers
CHECK_DEADLOCK FALSE
