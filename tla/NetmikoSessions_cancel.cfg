\* The same pages, one device at a time, and a cancellation that arrives.
CONSTANTS
  s1 = s1
  s2 = s2
  d1 = d1
  d2 = d2
  Session <- MCSession
  NoSession = NoSession
  Device <- MCDevice
  HasIP <- MCHasIP
  Workers = 1
SPECIFICATION Spec
PROPERTIES
  CancelStopsWaiting
CHECK_DEADLOCK FALSE
