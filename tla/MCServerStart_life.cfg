SPECIFICATION FairSpec
CONSTANTS
  Boot = Boot
  Names = {admin, jon}
  Admin = admin
  NoRow = NoRow
  NoFile = NoFile
  Torn = Torn
  Requests = {q1, q2}
  Faults = TRUE
  BootApps = {dse, kafka}
  FirstSaved <- FirstOrLater
  Storages = {"file", "zk"}
  Retries = 2
  MaxCrashes = 1
  MaxFailures = 1
INVARIANTS TypeOK OneFramework StoredKeysHeld KeysLast OnlyAdminsWrite
PROPERTIES RolesFixed ComesUp
CHECK_DEADLOCK FALSE
