-------------------------------- MODULE MCSim --------------------------------
(* Model checking of SimUpdater: the constants are in the .cfg file.       *)
EXTENDS SimUpdater
==============================================================================
