\* One message, delivered up to twice, with everything that can interfere.
CONSTANTS
  Task = {t1}
  NoTask = NoTask
  Worker = {w1, w2}
  NoRow = NoRow
  MaxRows = 2
  PendingLimit = 1
  RunningLimit = 2
  Retention = 2
  JobTimeLimit = 1
  MaxRedeliveries = 1
  Events = {"crash", "redelivery", "timeout", "dberror", "cancel", "delete", "clear", "cleanup"}
SPECIFICATION Spec
SYMMETRY Symmetry
INVARIANTS
  TypeOK
  IInv
  ExecutedOncePerRow
  CompletedMeansDone
  StaleSparesLiveRuns
PROPERTIES
  ReopenedOnlyBeforeStart
  ImplementsClaims
CHECK_DEADLOCK FALSE
