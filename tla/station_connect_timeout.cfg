CONSTANTS
  Servers = {s1}
  Calls = {c1}
  NoCall = NoCall
  PendingSize = 1
  Options <- MqttFailfast
  MaxStarts = 1
  MaxAdds = 1
  MaxLosses = 0
  s1 = s1
  c1 = c1
SPECIFICATION FairSpec
PROPERTIES
  ConnectFailureReported
CHECK_DEADLOCK FALSE
