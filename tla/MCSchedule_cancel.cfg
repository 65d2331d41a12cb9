SPECIFICATION Spec
CONSTANTS
  Runs = {r1}
  Removals = {d1}
  Schedules <- SampleSchedules
  NoTask = NoTask
  Garbled = Garbled
  MaxFirings = 2
INVARIANTS CancelledForGood
CHECK_DEADLOCK FALSE
