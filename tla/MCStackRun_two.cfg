SPECIFICATION Spec
CONSTANTS
  Runs = {r1, r2}
  Apps = {a1, a2}
  Stacks <- Dags
  SkipChoices <- FewSkips
  NoApp = NoApp
  StateStorages = {"cassandra", "memory"}
  Faults = TRUE
SYMMETRY Symmetry
INVARIANTS SuccessMeansDeployed StoredAppsTruthful
PROPERTIES ImplementsDeployment
CHECK_DEADLOCK FALSE
