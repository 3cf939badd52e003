------------------------------ MODULE MCStaged -------------------------------
(* Model checking of StagedUpdater: the constants are in the .cfg files.   *)
EXTENDS StagedUpdater
==============================================================================
