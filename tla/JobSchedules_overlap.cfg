\* Two checks at once and nothing else.
CONSTANTS
  Schedule = {s1}
  Checker = {c1, c2}
  Editor = {}
  Period = 2
  NoTime = NoTime
  NoSchedule = NoSchedule
  Unslotted = {}
  Faults = {}
  MaxTime = 2
  MaxFaults = 0
SPECIFICATION Spec
INVARIANTS
  DispatchedOncePerSlot
CHECK_DEADLOCK FALSE
