CONSTANTS
  Servers = {s1, s2}
  Calls = {c1, c2}
  NoCall = NoCall
  PendingSize = 1
  Options <- Mixed
  MaxStarts = 1
  MaxAdds = 2
  MaxLosses = 2
  s1 = s1
  s2 = s2
  c1 = c1
  c2 = c2
SYMMETRY Symmetry
SPECIFICATION Spec
INVARIANTS
  TypeOK
  OneAnswer
  SentOnce
  NoLeakedConnection
PROPERTIES
  NoSilentLoss
  ClosesOwnBox
CHECK_DEADLOCK FALSE
