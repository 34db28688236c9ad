\* One message; every fault of workers and database, and a user who cancels.
CONSTANTS
  Task = {t1}
  NoTask = NoTask
  Worker = {w1, w2}
  NoRow = NoRow
  MaxRows = 2
  PendingLimit = 1
  RunningLimit = 1
  Retention = 1
  JobTimeLimit = 1
  MaxRedeliveries = 1
  Events = {"crash", "timeout", "dberror", "cancel"}
SPECIFICATION FairSpec
PROPERTIES
  RunsSettle
CHECK_DEADLOCK FALSE
