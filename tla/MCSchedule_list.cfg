SPECIFICATION Spec
CONSTANTS
  Runs = {r1, r2, r3}
  Removals = {d1, d2}
  Schedules <- AnySchedules
  NoTask = NoTask
  Garbled = Garbled
  MaxFirings = 2
SYMMETRY Symmetry
INVARIANTS TypeOK RemovedNeverFires ListExact
CHECK_DEADLOCK FALSE
