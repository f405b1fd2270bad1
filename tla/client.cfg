SPECIFICATION Spec
CONSTANTS
  Servers = {s1, s2}
  Calls = {c1}
  Paths <- MCPaths
  Code <- MCCode
  NewCode <- MCNewCode
  NoMethod = NoMethod
  Mailboxes = {"mqtt", "mqtt2", "ws2"}
  Tracing = {TRUE, FALSE}
  MaxStarts = 2
  MaxNotices = 1
  MaxReloads = 1
SYMMETRY AnyServer
INVARIANTS
  TypeOK
  RunsCalledMethod
  OkMeansServed
  AnsweredOnce
PROPERTIES
  StoppedIsQuiet
CHECK_DEADLOCK FALSE
