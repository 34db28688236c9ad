--------------------------- MODULE MCJobDispatch ---------------------------
(* Instances of JobDispatch for TLC: the hours are scaled to the order the  *)
(* configuration gives them (time limit 1 h, pending 1 h, running 2 h).     *)
EXTENDS JobDispatch, TLC

Symmetry == Permutations(Task) \cup Permutations(Worker)
=============================================================================
