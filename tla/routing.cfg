CONSTANTS
  a = a
  b = b
  logic1 = logic1
  logic2 = logic2
  area = area
  NoNode = NoNode
  Types = {a, b}
  Servers = {logic1, logic2, area}
  TypeOf <- MCTypeOf
  Weights = {1, 2}
  Schedules = {"rr", "wrr", "la", "ch", "rd"}
  Replicas = 2
  HashOf <- MCHashOf
  Hashes = {3, 9}
  MaxRoutes = 4
  MaxNested = 1
  MaxChanges = 2
SPECIFICATION Spec
INVARIANTS
  TypeOK
  Rotates
  Proportional
  RingLookup
  RemovedNotRouted
PROPERTIES
  NeverWidens
CHECK_DEADLOCK FALSE
