SPECIFICATION Spec
CONSTANTS
  app1 = app1  app2 = app2  flag = flag  v1 = v1  v2 = v2
  Empty = Empty  NoName = NoName
  Names = {n1, n2, n3}
  Contents <- Files
  Requests = {r1}
  MaxStores = 4
  Faults = {"error", "crash"}
SYMMETRY Symmetry
CHECK_DEADLOCK FALSE
INVARIANTS TypeOK ParentsExist NoCycles QuietReads
PROPERTIES ForcedRemovalExact
