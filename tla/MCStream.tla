------------------------------- MODULE MCStream ------------------------------
(* Model checking of StreamUpdater: the constants are in the .cfg file.    *)
EXTENDS StreamUpdater
==============================================================================
