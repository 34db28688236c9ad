---------------------------- MODULE MCBackupGit ----------------------------
(* Two backups, one of them a chord, of two devices into one clone.  What a *)
(* backup does to a device does not depend on which one it is.              *)
EXTENDS BackupGit

CONSTANTS sequential, chord, core, edge

MCJob == {sequential, chord}
MCParallel == {chord}
MCDevice == {core, edge}
Symmetry == Permutations(MCDevice)
=============================================================================
