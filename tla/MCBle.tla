-------------------------------- MODULE MCBle --------------------------------
(* Model checking of BleCentral: the constants are in the .cfg files.      *)
EXTENDS BleCentral
==============================================================================
