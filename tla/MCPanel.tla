------------------------------- MODULE MCPanel -------------------------------
(* Model checking of FrontPanel, for both kinds of button driver.          *)
EXTENDS FrontPanel
==============================================================================
