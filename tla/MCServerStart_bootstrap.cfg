SPECIFICATION FairSpec
CONSTANTS
  Boot = Boot
  Names = {admin, jon}
  Admin = admin
  NoRow = NoRow
  NoFile = NoFile
  Torn = Torn
  Requests = {}
  Faults = FALSE
  BootApps = {dse}
  FirstSaved <- First
  Storages = {"zk"}
  Retries = 2
  MaxCrashes = 0
  MaxFailures = 0
PROPERTIES BootstrapServes
CHECK_DEADLOCK FALSE
