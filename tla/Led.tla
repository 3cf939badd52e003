--------------------------------- MODULE Led ---------------------------------
(***************************************************************************)
(* The LED drivers of stm32h573i, frdm_rw612 and nrf5340dk: one thread     *)
(* goes over the lamps every 500 ms, toggles those whose bit is set and    *)
(* darkens the others.  The bits are set and cleared by other threads at   *)
(* any moment.  The order of the lamps within a pass differs between the   *)
(* boards and is left open; frdm_rw612 mixes orange, which nobody starts.  *)
(***************************************************************************)

VARIABLES
  started,  (* the blink thread exists                                     *)
  bits,     (* led_bits: the lamps that are to blink                       *)
  lit,      (* the lamps that are on                                       *)
  todo      (* lamps left in this pass; none while the thread sleeps       *)

ledVars == <<started, bits, lit, todo>>

Lamps == {"green", "orange", "red", "blue"}

LedInit == started = FALSE /\ bits = {} /\ lit = {} /\ todo = {}

\* Every pin is configured and dark; the thread is created.
LedInitialize == started' = TRUE /\ lit' = {} /\ todo' = Lamps

\* A pin cannot be configured or set: no thread.
LedInitializeFails == UNCHANGED <<started, lit, todo>>

\* led_blink_start and led_blink_end, for sets of lamps.
BlinkStart(on) == bits' = bits \cup on
BlinkEndStart(off, on) == bits' = (bits \ off) \cup on

\* The lamps that are on after the thread has seen to l.
Lamp(l) == IF l \in bits /\ l \notin lit THEN lit \cup {l} ELSE lit \ {l}

Blink == /\ started
         /\ \E l \in todo : lit' = Lamp(l) /\ todo' = todo \ {l}
         /\ UNCHANGED <<started, bits>>

\* The 500 ms are over.
Wake == /\ started /\ todo = {}
        /\ todo' = Lamps
        /\ UNCHANGED <<started, bits, lit>>

BlinkThread == Blink \/ Wake

\* The red lamp blinks, and no other does.
RedOnly == <>[](lit \subseteq {"red"}) /\ []<>("red" \in lit) /\ []<>("red" \notin lit)
==============================================================================
