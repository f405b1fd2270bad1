CONSTANTS
  a = a
  b = b
  logic1 = logic1
  logic2 = logic2
  area = area
  NoNode = NoNode
  Types = {a, b}
  Servers = {logic1, logic2, area}
  TypeOf <- MCTypeOf
  Weights = {1}
  Schedules = {"ch"}
  Replicas = 2
  HashOf <- MCHashOf
  Hashes = {3, 9}
  MaxRoutes = 2
  MaxNested = 0
  MaxChanges = 1
SPECIFICATION Spec
INVARIANT RightType
CHECK_DEADLOCK FALSE
