------------------------------- MODULE Button -------------------------------
(***************************************************************************)
(* From the finger to firmware_check: the interrupt on the edge, the       *)
(* debouncing by a delayable work item, and the place where the check      *)
(* runs.  The drivers of stm32h573i and frdm_rw612 run it in the work      *)
(* handler itself, so that the system work queue is busy until it ends;    *)
(* the one of nrf5340dk gives a semaphore to a thread of its own.          *)
(*                                                                         *)
(* The interrupt fires on the edge to inactive, when the contact opens,    *)
(* and the handler then asks whether the pin is still inactive: a press    *)
(* is acted on when the button is released.                                *)
(*                                                                         *)
(* Outside the repository: a contact bounces for less than the 25 ms of    *)
(* DEBOUNCE_MS, a finger stays longer than the bounce it causes, and the   *)
(* system work queue has no other work that blocks.                        *)
(***************************************************************************)
EXTENDS Naturals

CONSTANT ActiveLow   (* GPIO_ACTIVE_LOW is among the flags of the pin       *)

ASSUME ButtonAssumption == ActiveLow \in BOOLEAN

VARIABLES
  ownThread,  (* the driver has a thread for the check (nrf5340dk)         *)
  finger,     (* "down" on the button or "up"                              *)
  contact,    (* the contact: "down" when it conducts                      *)
  bouncing,   (* the contact has not settled yet                           *)
  timer,      (* the delayable work: "off", or scheduled by an edge of     *)
              (* this bounce ("fresh") or of an earlier one ("old")        *)
  queued,     (* the work waits in the queue behind the check              *)
  sem,        (* button_action_sem: 0 or 1                                 *)
  checking,   (* firmware_check runs                                       *)
  owed        (* a release that no check, and no warning, answered so far  *)

pinVars  == <<finger, contact, bouncing>>
workVars == <<timer, queued>>
runVars  == <<sem, checking, owed>>
vars == <<ownThread, pinVars, workVars, runVars>>

Init == /\ ownThread \in BOOLEAN
        /\ finger \in {"up", "down"} /\ contact = finger /\ bouncing = FALSE
        /\ timer = "off" /\ queued = FALSE
        /\ sem = 0 /\ checking = FALSE /\ owed = FALSE

----------------------------------------------------------------------------
(* The finger, the contact and the interrupt                               *)

\* Mutant: an edge does not move a deadline that is already set.
IsrSchedules == timer' = IF timer = "off" THEN "fresh" ELSE timer

\* The contact opens: k_work_reschedule starts the 25 ms anew.
Isr == timer' = "fresh"

Press == /\ finger = "up" /\ ~bouncing
         /\ finger' = "down" /\ contact' = "down" /\ bouncing' = TRUE
         /\ UNCHANGED <<ownThread, workVars, runVars>>

Release == /\ finger = "down" /\ ~bouncing
           /\ finger' = "up" /\ contact' = "up" /\ bouncing' = TRUE
           /\ Isr
           /\ owed' = TRUE
           /\ UNCHANGED <<ownThread, queued, sem, checking>>

BounceOpen == /\ bouncing /\ contact = "down"
              /\ contact' = "up"
              /\ Isr
              /\ UNCHANGED <<ownThread, finger, bouncing, queued, runVars>>

BounceClose == /\ bouncing /\ contact = "up"
               /\ contact' = "down"
               /\ UNCHANGED <<ownThread, finger, bouncing, workVars, runVars>>

\* The contact comes to rest where the finger is; 25 ms are not over yet.
Settle == /\ bouncing /\ contact = finger
          /\ bouncing' = FALSE
          /\ timer' = IF timer = "fresh" THEN "old" ELSE timer
          /\ UNCHANGED <<ownThread, finger, contact, queued, runVars>>

----------------------------------------------------------------------------
(* The work handler                                                        *)

\* Mutant: the handler asks whether the pin is active.
ActivePressed == contact = "down"

\* gpio_pin_get_dt returns the logical level, 1 when pressed, whatever the flag;
\* the handler applies the flag again.
Active == IF ActiveLow THEN contact = "up" ELSE contact = "down"

\* Mutant: button_action_sem has no limit.
GiveUnlimited == sem + 1

\* k_sem_give on a semaphore with the limit 1.
Give == 1

\* "User button pressed": firmware_check runs here, or its thread is told.
Handle == /\ owed' = (owed /\ ~Active)
          /\ IF ownThread THEN /\ sem' = IF Active THEN Give ELSE sem
                               /\ UNCHANGED checking
                          ELSE /\ checking' = Active
                               /\ UNCHANGED sem

\* The pin cannot be read: a warning, and that is all.
HandleFails == /\ owed' = FALSE
               /\ UNCHANGED sem
               /\ IF ownThread THEN UNCHANGED checking ELSE checking' = FALSE

QueueBusy == checking /\ ~ownThread

Expires == timer = "old" /\ timer' = "off" /\ UNCHANGED <<ownThread, pinVars>>

\* The 25 ms are over and the system work queue is free.
Expire == Expires /\ ~QueueBusy /\ UNCHANGED queued /\ Handle
ExpireReadFails == Expires /\ ~QueueBusy /\ UNCHANGED queued /\ HandleFails

\* Mutant: the work is dropped while its handler runs.
ExpireDropped == /\ Expires
                 /\ QueueBusy
                 /\ UNCHANGED <<queued, runVars>>

\* They are over during the check: the work waits until it ends.
ExpireBusy == /\ Expires
              /\ QueueBusy
              /\ queued' = TRUE
              /\ UNCHANGED runVars

\* The check in the work queue returns; the handler runs again if it is queued.
EndQueued == /\ QueueBusy /\ queued
             /\ queued' = FALSE
             /\ Handle
             /\ UNCHANGED <<ownThread, pinVars, timer>>

EndQueuedReadFails == /\ QueueBusy /\ queued
                      /\ queued' = FALSE
                      /\ HandleFails
                      /\ UNCHANGED <<ownThread, pinVars, timer>>

End == /\ checking /\ ~queued
       /\ checking' = FALSE
       /\ UNCHANGED <<ownThread, pinVars, workVars, sem, owed>>

\* button_action_thread takes the semaphore.
StartCheck == /\ ownThread /\ sem = 1 /\ ~checking
              /\ sem' = 0
              /\ checking' = TRUE
              /\ UNCHANGED <<ownThread, pinVars, workVars, owed>>

----------------------------------------------------------------------------
Finger == Press \/ Release
Pin    == BounceOpen \/ BounceClose \/ Settle
Work   == Expire \/ ExpireBusy \/ EndQueued \/ End \/ StartCheck
Fault  == ExpireReadFails \/ EndQueuedReadFails

Next == Finger \/ Pin \/ Work \/ Fault

Spec == Init /\ [][Next]_vars

----------------------------------------------------------------------------
(* Properties                                                              *)

\* Types of the variables; the semaphore counts no further than 1.
TypeOK == /\ {ownThread, bouncing, queued, checking, owed} \subseteq BOOLEAN
          /\ {finger, contact} \subseteq {"up", "down"}
          /\ timer \in {"off", "old", "fresh"}
          /\ sem \in {0, 1}

\* A press is never forgotten: when the button is at rest and neither the timer
\* nor the queue holds anything, every release was answered by a check, however
\* the contact bounced, and whether a check was running or not.
NoPressForgotten == finger = "up" /\ ~bouncing /\ timer = "off" /\ ~queued => ~owed

\* With a thread of its own the driver asks for a check only when a release is
\* still unanswered: a bounce, when the button is pressed or released, asks for none.
PressOnce == [][ownThread /\ sem = 0 /\ sem' = 1 => owed]_vars
=============================================================================
