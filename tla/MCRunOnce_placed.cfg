SPECIFICATION FairSpec
CONSTANTS
  s1 = s1  s2 = s2  h1 = h1  h2 = h2  h3 = h3  app1 = app1  app2 = app2
  rackA = rackA  rackB = rackB  NoValue = NoValue  Nobody = Nobody
  Stagings = {s1}
  Apps = {app1, app2}
  AppOf <- SameApp
  Instances = {0, 1, 2}
  ConstraintSets <- EveryKind
  Hosts = {h1, h2, h3}
  Attributes <- InRacks
  MesosStates <- Clusters
  Reports <- NoStarting
  Faults = FALSE
CHECK_DEADLOCK FALSE
INVARIANTS ConstraintsRespected
PROPERTIES StagedAnswered
