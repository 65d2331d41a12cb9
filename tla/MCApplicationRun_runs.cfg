SPECIFICATION FairSpec
CONSTANTS
  r1 = r1  r2 = r2  zk = zk  kafka = kafka  job = job
  zone = zone  api = api  connect = connect
  Unset = Unset  NoFile = NoFile  Part = Part
  Runs = {r1, r2}
  Apps = {zk, kafka, job}
  Application <- Mixed
  Vars = {zone, api, connect}
  RunRequests <- OneOrTwo
  MaxWait = 1
  StackStorages = {"cassandra", "memory"}
  Faults = TRUE
CHECK_DEADLOCK FALSE
INVARIANTS TypeOK DocumentedOrder TasksStarted NothingUnresolvedRuns
PROPERTIES DependenciesPublish RunReturns
