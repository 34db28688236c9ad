\* One schedule; a check, a user who edits, a restarting backend, a fault.
CONSTANTS
  Schedule = {s1}
  Checker = {c1}
  Editor = {e1}
  Period = 1
  NoTime = NoTime
  NoSchedule = NoSchedule
  Unslotted = {s1}
  Faults = {"crash", "broker", "database"}
  MaxTime = 2
  MaxFaults = 1
SPECIFICATION FairSpec
PROPERTIES
  RecurringKeepSlot
  DueIsServed
CHECK_DEADLOCK FALSE
