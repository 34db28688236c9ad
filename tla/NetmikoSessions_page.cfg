\* Two executions on two devices, one of them without an address.
CONSTANTS
  s1 = s1
  s2 = s2
  d1 = d1
  d2 = d2
  Session <- MCSession
  NoSession = NoSession
  Device <- MCDevice
  HasIP <- MCHasIP
  Workers = 2
SPECIFICATION FairSpec
INVARIANTS
  TypeOK
  OneSessionAtATime
  ShownResultsFinal
  CancellingThisSession
PROPERTIES
  ImplementsBatches
  ExecutionEnds
CHECK_DEADLOCK FALSE
