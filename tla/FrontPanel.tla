------------------------------ MODULE FrontPanel ------------------------------
(***************************************************************************)
(* What a person at the device sees and does: main() starts the LEDs, then *)
(* the updater, then the button, and the three go on in threads of their   *)
(* own.  Without an updater main() ends in blink_red_led_forever, and the  *)
(* button is never initialized.                                            *)
(*                                                                         *)
(* The main thread has a higher priority than the blink thread: what it    *)
(* does between two calls that block is one step to the lamps.             *)
(***************************************************************************)
EXTENDS Button, Led

VARIABLE pc   (* where main() is: "leds", "updater", "run", "deaf" or "halted" *)

panelVars == <<pc, ledVars>>
all == <<vars, panelVars>>

PanelInit == Init /\ LedInit /\ pc = "leds"

Main(from, to) == pc = from /\ pc' = to /\ UNCHANGED vars

----------------------------------------------------------------------------
(* main()                                                                  *)

StartLeds == Main("leds", "updater") /\ LedInitialize /\ BlinkStart({"blue"})

\* "Halting." says the log of stm32h573i, but main() does not look at the result.
StartLedsFails == Main("leds", "updater") /\ LedInitializeFails /\ BlinkStart({"blue"})

\* firmware_updater_initialize returns a context, button_init configures the pin.
StartButton == Main("updater", "run") /\ UNCHANGED ledVars

\* button_init logs an error and returns: the device goes on without a button.
StartButtonFails == Main("updater", "deaf") /\ UNCHANGED ledVars

\* Mutant: the lamps that blink already are forgotten.
FatalErrorMixed == /\ Main("updater", "halted")
                   /\ BlinkStart({"red"})
                   /\ UNCHANGED <<started, lit, todo>>

\* firmware_updater_initialize returns NULL.
FatalError == /\ Main("updater", "halted")
              /\ BlinkEndStart({"green", "orange", "blue"}, {"red"})
              /\ UNCHANGED <<started, lit, todo>>

----------------------------------------------------------------------------
\* The button once it is initialized.
Heard(A) == pc = "run" /\ A /\ UNCHANGED panelVars

\* The button before that, and for ever after when it is not.
Unheard == /\ pc # "run"
           /\ finger' = IF finger = "up" THEN "down" ELSE "up"
           /\ contact' = finger'
           /\ UNCHANGED <<ownThread, bouncing, workVars, runVars, panelVars>>

Lights == BlinkThread /\ UNCHANGED <<pc, vars>>

Starts == StartLeds \/ StartLedsFails \/ StartButton \/ StartButtonFails \/ FatalError

PanelNext == \/ Starts \/ Unheard \/ Lights
             \/ Heard(Finger) \/ Heard(Pin) \/ Heard(Work) \/ Heard(Fault)

PanelSpec == PanelInit /\ [][PanelNext]_all

\* Contacts settle, main(), the queue and the threads run, a check returns, and
\* now and then the button is left alone until the 25 ms are over.
FairPanel == /\ PanelSpec
             /\ WF_all(Starts)
             /\ WF_all(Lights)
             /\ SF_all(Heard(Settle))
             /\ WF_all(Heard(Work))
             /\ SF_all(Heard(Expire /\ finger = "up" /\ ~bouncing))

----------------------------------------------------------------------------
(* Properties                                                              *)

\* Somebody who presses again and again gets checks again and again, or sees the
\* red lamp blink alone.  The two exceptions are the errors that main() never
\* learns of: a button, or lamps together with the updater, that fail to start.
Pressed == []<>(finger = "down") /\ []<>(finger = "up")
Silent == pc = "deaf" \/ (pc = "halted" /\ ~started)
Answers == <>[][~Fault]_all /\ Pressed => []<>checking \/ RedOnly \/ <>Silent
==============================================================================
