-------------------------------- MODULE MCNrf --------------------------------
(* Model checking of NrfDevice: the constants are in the .cfg file.        *)
EXTENDS NrfDevice
==============================================================================
