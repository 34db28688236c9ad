\* A lost worker and nothing else.
CONSTANTS
  Task = {t1}
  NoTask = NoTask
  Worker = {w1, w2}
  NoRow = NoRow
  MaxRows = 2
  PendingLimit = 1
  RunningLimit = 2
  Retention = 2
  JobTimeLimit = 1
  MaxRedeliveries = 1
  Events = {"crash"}
SPECIFICATION Spec
INVARIANTS
  SurvivesWorkerCrash
CHECK_DEADLOCK FALSE
