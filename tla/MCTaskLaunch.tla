---------------------------- MODULE MCTaskLaunch ----------------------------
(* Instances of TaskLaunch for TLC: one launch that hands its run over, one  *)
(* whose task looks its run up.                                              *)
EXTENDS TaskLaunch

CONSTANTS cacheTask, importTask

MCTask == {cacheTask, importTask}
MCHanded == {cacheTask}
=============================================================================
