\* Two schedules, checks that never overlap, a broker that may fail, no edits.
CONSTANTS
  Schedule = {s1, s2}
  Checker = {c1}
  Editor = {}
  Period = 2
  NoTime = NoTime
  NoSchedule = NoSchedule
  Unslotted = {}
  Faults = {"broker"}
  MaxTime = 4
  MaxFaults = 1
SPECIFICATION Spec
SYMMETRY Symmetry
INVARIANTS
  TypeOK
  DispatchedOncePerSlot
PROPERTIES
  ServedBeforeAdvance
CHECK_DEADLOCK FALSE
