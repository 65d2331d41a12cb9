SPECIFICATION Spec
CONSTANTS
  app1 = app1  app2 = app2  flag = flag  v1 = v1  v2 = v2
  Empty = Empty  NoName = NoName
  Names = {n1, n2}
  Contents <- Files
  Requests = {r1}
  MaxStores = 2
  Faults = {}
CHECK_DEADLOCK FALSE
INVARIANTS ZoneSettingsApply
