------------------------------- MODULE MCAppend ------------------------------
(* Model checking of FileAppend: the constants are in the .cfg files.      *)
EXTENDS FileAppend
==============================================================================
