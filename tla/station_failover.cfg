CONSTANTS
  Servers = {s1, s2}
  Calls = {c1}
  NoCall = NoCall
  PendingSize = 1
  Options <- MqttFailover
  MaxStarts = 2
  MaxAdds = 2
  MaxLosses = 1
  s1 = s1
  s2 = s2
  c1 = c1
SPECIFICATION ReachableSpec
PROPERTIES
  EventsEnd
  CallsSettle
  StoppedStaysClosed
CHECK_DEADLOCK FALSE
