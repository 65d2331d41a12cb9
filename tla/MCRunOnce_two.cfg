SPECIFICATION Spec
CONSTANTS
  s1 = s1  s2 = s2  h1 = h1  h2 = h2  h3 = h3  app1 = app1  app2 = app2
  rackA = rackA  rackB = rackB  NoValue = NoValue  Nobody = Nobody
  Stagings = {s1, s2}
  Apps = {app1, app2}
  AppOf <- SameApp
  Instances = {0, 1}
  ConstraintSets <- NoneOrUnique
  Hosts = {h1, h2}
  Attributes <- Named
  MesosStates <- OneCluster
  Reports <- Endings
  Faults = TRUE
CHECK_DEADLOCK FALSE
SYMMETRY Symmetry
INVARIANTS TypeOK SuccessMeansOver NeverTooManyTasks SendNeverBlocks FailureMeansFailed
