SPECIFICATION FairSpec
CONSTANTS
  Runs = {r1}
  Apps = {a1, a2, a3}
  Stacks <- Dags
  SkipChoices <- Skips
  NoApp = NoApp
  StateStorages = {"cassandra", "memory"}
  Faults = TRUE
INVARIANTS TypeOK DependenciesFirst SendersNeverStuck StoredStackComplete
PROPERTIES RunReturns GoroutinesEnd
CHECK_DEADLOCK FALSE
