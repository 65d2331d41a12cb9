SPECIFICATION Spec
CONSTANTS
  r1 = r1  r2 = r2  zk = zk  kafka = kafka  job = job
  zone = zone  api = api  connect = connect
  Unset = Unset  NoFile = NoFile  Part = Part
  Runs = {r1}
  Apps = {zk}
  Application <- Mixed
  Vars = {zone, api, connect}
  RunRequests <- OnlyZone
  MaxWait = 0
  StackStorages = {"cassandra"}
  Faults = FALSE
CHECK_DEADLOCK FALSE
INVARIANTS NoUnresolvedTasks
