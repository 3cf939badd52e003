------------------------------ MODULE ABUpdate -------------------------------
(***************************************************************************)
(* What a device promises its owner about firmware versions, whatever the  *)
(* transport, the storage and the moment the power fails:                  *)
(*   - a new image runs on trial first, and the one it replaced can be     *)
(*     brought back until the new one is confirmed;                        *)
(*   - the running version goes down only by such a revert;                *)
(*   - the backend is only ever told a version that is no longer on trial. *)
(***************************************************************************)
EXTENDS Naturals

CONSTANT MaxVersion   (* versions are 1..MaxVersion *)

VARIABLES
  running,   (* version that runs                                          *)
  trial,     (* it is not confirmed yet                                    *)
  fallback,  (* version a revert brings back, 0 when there is no trial     *)
  reported   (* version the backend was last told, 0 for none              *)

absVars == <<running, trial, fallback, reported>>

Init == /\ running \in 1..MaxVersion
        /\ trial = FALSE
        /\ fallback = 0
        /\ reported = 0

Install(v) == /\ ~trial
              /\ v >= running
              /\ running' = v
              /\ fallback' = running
              /\ trial' = TRUE
              /\ UNCHANGED reported

Confirm == /\ trial
           /\ trial' = FALSE
           /\ fallback' = 0
           /\ UNCHANGED <<running, reported>>

Revert == /\ trial
          /\ running' = fallback
          /\ trial' = FALSE
          /\ fallback' = 0
          /\ UNCHANGED reported

Report == /\ ~trial
          /\ reported' = running
          /\ UNCHANGED <<running, trial, fallback>>

Next == \/ \E v \in 1..MaxVersion : Install(v)
        \/ Confirm
        \/ Revert
        \/ Report

Spec == Init /\ [][Next]_absVars
==============================================================================
