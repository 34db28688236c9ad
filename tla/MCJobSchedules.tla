--------------------------- MODULE MCJobSchedules ---------------------------
(* Instances of JobSchedules for TLC.                                       *)
EXTENDS JobSchedules, TLC

Symmetry ==
  Permutations(Schedule) \cup Permutations(Checker) \cup Permutations(Editor)
=============================================================================
