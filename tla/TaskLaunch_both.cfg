\* A handed task and one that looks its run up; one fault of any kind.
CONSTANTS
  cacheTask = cacheTask
  importTask = importTask
  Task <- MCTask
  NoTask = NoTask
  Handed <- MCHanded
  NoRow = NoRow
  MaxRows = 2
  PendingLimit = 0
  RunningLimit = 0
  Retention = 0
  Faults = {"launcher", "crash", "killed", "dberror"}
  MaxFaults = 1
SPECIFICATION FairSpec
INVARIANTS
  TypeOK
  CompletedByOwnTask
  UnfinishedExplained
PROPERTIES
  LaunchedRunsSettle
CHECK_DEADLOCK FALSE
