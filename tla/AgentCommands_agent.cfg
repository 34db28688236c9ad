\* Two commands to an agent that may forget one heartbeat thread.
SPECIFICATION FairSpec
CONSTANTS
  pull = pull
  restart = restart
  Command <- MCCommand
  NoCommand = NoCommand
  MaxOrphans = 1
INVARIANTS
  TypeOK
  SuccessWasExecuted
  ExecutedOnceAndRecorded
  PendingExplained
PROPERTIES
  ImplementsCalls
  RequestsReturn
  PageFollowsAgent
