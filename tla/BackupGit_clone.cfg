\* A sequential and a parallel backup of two devices, one outside push.
SPECIFICATION Spec
CONSTANTS
  sequential = sequential
  chord = chord
  core = core
  edge = edge
  Job <- MCJob
  Parallel <- MCParallel
  Device <- MCDevice
  Elsewhere = Elsewhere
  Operator = Operator
  Nobody = Nobody
  MaxVersion = 2
  MaxElsewhere = 1
SYMMETRY Symmetry
INVARIANTS
  TypeOK
  PushedIsKept
  SuccessExplained
PROPERTIES
  ImplementsHistory
  DivergedUntilReplaced
CHECK_DEADLOCK FALSE
