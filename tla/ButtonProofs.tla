---------------------------- MODULE ButtonProofs ----------------------------
(***************************************************************************)
(* Theorems about Button, for both kinds of driver, alone and on the       *)
(* device that FrontPanel describes.                                       *)
(***************************************************************************)
EXTENDS FrontPanel, TLAPS

\* Flags stay Boolean, the rest keeps its type.
LEMMA TypeStep ==
  ASSUME TypeOK, [Next]_vars
  PROVE  TypeOK'
<1> USE DEF TypeOK, pinVars, workVars, runVars
<1>1. CASE Finger
  BY <1>1 DEF Finger, Press, Release, Isr
<1>2. CASE Pin
  BY <1>2 DEF Pin, BounceOpen, BounceClose, Settle, Isr
<1>3. CASE Work
  BY <1>3 DEF Work, Expire, ExpireBusy, EndQueued, End, StartCheck, Expires, Handle, Give, Active
<1>4. CASE Fault
  BY <1>4 DEF Fault, ExpireReadFails, EndQueuedReadFails, Expires, HandleFails
<1>5. CASE UNCHANGED vars
  BY <1>5 DEF vars
<1>6. QED
  BY <1>1, <1>2, <1>3, <1>4, <1>5 DEF Next

\* Type correctness; the semaphore of the thread counts no further than 1.
THEOREM TypeCorrect == Spec => []TypeOK
<1>1. Init => TypeOK
  BY DEF Init, TypeOK
<1>2. TypeOK /\ [Next]_vars => TypeOK'
  BY TypeStep
<1>3. QED
  BY <1>1, <1>2, PTL DEF Spec
----------------------------------------------------------------------------
(* Where an unanswered release is remembered                               *)

\* The contact rests where the finger is, and an edge of this bounce keeps the
\* timer from expiring before it has settled.
RestInv == /\ ~bouncing => contact = finger
           /\ timer = "fresh" => bouncing
           /\ bouncing /\ finger = "up" => timer = "fresh"

\* Every step keeps that.
LEMMA RestStep ==
  ASSUME TypeOK, RestInv, [Next]_vars
  PROVE  RestInv'
<1> USE DEF TypeOK, RestInv, pinVars, workVars
<1>1. CASE Finger
  BY <1>1 DEF Finger, Press, Release, Isr
<1>2. CASE Pin
  BY <1>2 DEF Pin, BounceOpen, BounceClose, Settle, Isr
<1>3. CASE Work
  BY <1>3 DEF Work, Expire, ExpireBusy, EndQueued, End, StartCheck, Expires
<1>4. CASE Fault
  BY <1>4 DEF Fault, ExpireReadFails, EndQueuedReadFails, Expires
<1>5. CASE UNCHANGED vars
  BY <1>5 DEF vars
<1>6. QED
  BY <1>1, <1>2, <1>3, <1>4, <1>5 DEF Next

\* It holds in every state.
LEMMA Rests == Spec => []RestInv
<1>1. Init => RestInv
  BY DEF Init, RestInv
<1>2. TypeOK /\ RestInv /\ [Next]_vars => RestInv'
  BY RestStep
<1>3. QED
  BY <1>1, <1>2, TypeCorrect, PTL DEF Spec

\* A release stays owed only while the timer or the queue is there to answer it.
LEMMA PressStep ==
  ASSUME ActiveLow, TypeOK, RestInv, NoPressForgotten, [Next]_vars
  PROVE  NoPressForgotten'
<1> USE DEF TypeOK, RestInv, NoPressForgotten, pinVars, workVars, runVars
<1>1. CASE Finger
  BY <1>1 DEF Finger, Press, Release, Isr
<1>2. CASE Pin
  BY <1>2 DEF Pin, BounceOpen, BounceClose, Settle, Isr
<1>3. CASE Expire
  BY <1>3 DEF Expire, Expires, Handle, Active
<1>4. CASE EndQueued
  BY <1>4 DEF EndQueued, Handle, Active
<1>5. CASE ExpireBusy \/ End \/ StartCheck
  BY <1>5 DEF ExpireBusy, Expires, End, StartCheck
<1>6. CASE Fault
  BY <1>6 DEF Fault, ExpireReadFails, EndQueuedReadFails, Expires, HandleFails
<1>7. CASE UNCHANGED vars
  BY <1>7 DEF vars
<1>8. QED
  BY <1>1, <1>2, <1>3, <1>4, <1>5, <1>6, <1>7 DEF Next, Work

\* A press is never forgotten, whether the check runs in the work queue or in a
\* thread, however the contact bounces and whatever the check is doing.
THEOREM PressSafe ==
  ASSUME ActiveLow
  PROVE  Spec => []NoPressForgotten
<1>1. Init => NoPressForgotten
  BY DEF Init, NoPressForgotten
<1>2. TypeOK /\ RestInv /\ NoPressForgotten /\ [Next]_vars => NoPressForgotten'
  BY PressStep
<1>3. QED
  BY <1>1, <1>2, Rests, TypeCorrect, PTL DEF Spec

----------------------------------------------------------------------------
(* One check for one press                                                 *)

\* On a board with a thread, a release is unanswered while it bounces and until
\* its timer expires; a timer that a press bounce started outlives it unanswered
\* only while the button is held.
OnceInv == ownThread => /\ ~queued
                        /\ finger = "up" /\ (bouncing \/ timer # "off") => owed
                        /\ bouncing /\ timer = "old" => owed

\* Every step keeps that.
LEMMA OnceStep ==
  ASSUME TypeOK, RestInv, OnceInv, [Next]_vars
  PROVE  OnceInv'
<1> USE DEF TypeOK, RestInv, OnceInv, pinVars, workVars, runVars
<1>1. CASE Finger
  BY <1>1 DEF Finger, Press, Release, Isr
<1>2. CASE Pin
  BY <1>2 DEF Pin, BounceOpen, BounceClose, Settle, Isr
<1>3. CASE Expire
  BY <1>3 DEF Expire, Expires, Handle
<1>4. CASE ExpireBusy \/ EndQueued \/ End \/ StartCheck
  BY <1>4 DEF ExpireBusy, EndQueued, Expires, End, StartCheck, QueueBusy
<1>5. CASE Fault
  BY <1>5 DEF Fault, ExpireReadFails, EndQueuedReadFails, Expires, HandleFails, QueueBusy
<1>6. CASE UNCHANGED vars
  BY <1>6 DEF vars
<1>7. QED
  BY <1>1, <1>2, <1>3, <1>4, <1>5, <1>6 DEF Next, Work

\* The semaphore is given only for a release that is unanswered.
LEMMA GiveStep ==
  ASSUME ActiveLow, TypeOK, RestInv, OnceInv, [Next]_vars, ownThread, sem = 0, sem' = 1
  PROVE  owed
<1> USE DEF TypeOK, RestInv, OnceInv, pinVars, workVars, runVars
<1>1. CASE Finger
  BY <1>1 DEF Finger, Press, Release
<1>2. CASE Pin
  BY <1>2 DEF Pin, BounceOpen, BounceClose, Settle
<1>3. CASE Expire
  BY <1>3 DEF Expire, Expires, Handle, Active
<1>4. CASE ExpireBusy \/ EndQueued \/ End \/ StartCheck
  BY <1>4 DEF ExpireBusy, EndQueued, End, StartCheck, QueueBusy
<1>5. CASE Fault
  BY <1>5 DEF Fault, ExpireReadFails, EndQueuedReadFails, HandleFails
<1>6. CASE UNCHANGED vars
  BY <1>6 DEF vars, runVars
<1>7. QED
  BY <1>1, <1>2, <1>3, <1>4, <1>5, <1>6 DEF Next, Work

\* The thread is told of a press only when a release is unanswered: no bounce
\* makes a check of its own.
THEOREM OnceSafe ==
  ASSUME ActiveLow
  PROVE  Spec => PressOnce
<1>1. Init => OnceInv
  BY DEF Init, OnceInv
<1>2. TypeOK /\ RestInv /\ OnceInv /\ [Next]_vars => OnceInv'
  BY OnceStep
<1>3. TypeOK /\ RestInv /\ OnceInv /\ [Next]_vars => [ownThread /\ sem = 0 /\ sem' = 1 => owed]_vars
  BY GiveStep
<1>4. QED
  BY <1>1, <1>2, <1>3, Rests, TypeCorrect, PTL DEF Spec, PressOnce

----------------------------------------------------------------------------
(* The button of the device                                                *)

\* Until main() has initialized it, the button is as in its initial state.
Idle == pc # "run" => Init

ButtonInv == Idle /\ TypeOK /\ RestInv /\ OnceInv /\ NoPressForgotten

\* A step of the device moves the initialized button, or leaves it in its initial
\* state, or leaves it alone.
LEMMA PanelSteps ==
  ASSUME Idle, [PanelNext]_all
  PROVE  Idle' /\ ([Next]_vars \/ (Init' /\ sem' = 0))
<1>1. CASE Starts \/ Lights \/ UNCHANGED all
  <2>1. UNCHANGED vars /\ (pc' # "run" => pc # "run")
    BY <1>1 DEF Starts, StartLeds, StartLedsFails, StartButton, StartButtonFails, FatalError, Main,
                Lights, all, panelVars
  <2>2. QED
    BY <2>1 DEF Idle, Init, vars, pinVars, workVars, runVars
<1>2. CASE Unheard
  BY <1>2 DEF Unheard, Idle, Init, workVars, runVars, panelVars
<1>3. CASE Heard(Finger) \/ Heard(Pin) \/ Heard(Work) \/ Heard(Fault)
  BY <1>3 DEF Heard, Next, Idle, panelVars
<1>4. QED
  BY <1>1, <1>2, <1>3 DEF PanelNext

\* On the device, too, no press is forgotten and no bounce makes a check, whenever
\* main() gets to the button and whatever the finger did before.
THEOREM PanelSafe ==
  ASSUME ActiveLow
  PROVE  PanelSpec => []NoPressForgotten /\ PressOnce
<1>1. Init => TypeOK /\ RestInv /\ OnceInv /\ NoPressForgotten
  BY DEF Init, TypeOK, RestInv, OnceInv, NoPressForgotten
<1>2. Init' => (TypeOK /\ RestInv /\ OnceInv /\ NoPressForgotten)'
  BY DEF Init, TypeOK, RestInv, OnceInv, NoPressForgotten
<1>3. PanelInit => ButtonInv
  BY <1>1 DEF PanelInit, ButtonInv, Idle
<1>4. ButtonInv /\ [PanelNext]_all => ButtonInv'
  BY <1>2, PanelSteps, TypeStep, RestStep, OnceStep, PressStep DEF ButtonInv
<1>5. ButtonInv /\ [PanelNext]_all => [ownThread /\ sem = 0 /\ sem' = 1 => owed]_vars
  BY PanelSteps, GiveStep DEF ButtonInv
<1>6. ButtonInv => NoPressForgotten
  BY DEF ButtonInv
<1>7. QED
  BY <1>3, <1>4, <1>5, <1>6, PTL DEF PanelSpec, PressOnce
----------------------------------------------------------------------------
(* A pin that is not active low                                            *)

\* gpio_pin_get_dt has applied the flag already.  Without it the handler asks for
\* the opposite: a button at rest then starts a check only while it is held, so
\* a press and a release that are more than 25 ms apart from the next do nothing.
THEOREM DeafWhenActiveHigh ==
  ASSUME ~ActiveLow
  PROVE  Spec => [][owed /\ ~owed' /\ ~bouncing /\ ~Fault => finger = "down"]_vars
<1>1. ASSUME TypeOK, RestInv, [Next]_vars
      PROVE  owed /\ ~owed' /\ ~bouncing /\ ~Fault => finger = "down"
  <2> SUFFICES ASSUME owed, ~owed', ~bouncing, ~Fault PROVE finger = "down"
    OBVIOUS
  <2> USE <1>1 DEF TypeOK, RestInv, pinVars, workVars, runVars
  <2>1. CASE Finger
    BY <2>1 DEF Finger, Press, Release
  <2>2. CASE Pin
    BY <2>2 DEF Pin, BounceOpen, BounceClose, Settle
  <2>3. CASE Work
    BY <2>3 DEF Work, Expire, Expires, ExpireBusy, EndQueued, End, StartCheck, Handle, Active
  <2>4. CASE UNCHANGED vars
    BY <2>4 DEF vars
  <2>5. QED
    BY <2>1, <2>2, <2>3, <2>4 DEF Next
<1>2. QED
  BY <1>1, Rests, TypeCorrect, PTL DEF Spec
----------------------------------------------------------------------------
(* The lamps after a fatal error                                           *)

\* Which lamps blink depends on where main() is alone.
LampsInv == /\ bits = CASE pc = "leds" -> {} [] pc = "halted" -> {"red"} [] OTHER -> {"blue"}
            /\ pc \in {"leds", "updater", "run", "deaf", "halted"}

\* Every step keeps that.
LEMMA LampsStep ==
  ASSUME LampsInv, [PanelNext]_all
  PROVE  LampsInv'
<1> USE DEF LampsInv, Main, ledVars, panelVars
<1>1. CASE StartLeds \/ StartLedsFails
  BY <1>1 DEF StartLeds, StartLedsFails, BlinkStart
<1>2. CASE StartButton \/ StartButtonFails
  BY <1>2 DEF StartButton, StartButtonFails
<1>3. CASE FatalError
  <2>1. pc = "updater" /\ pc' = "halted" /\ bits' = (bits \ {"green", "orange", "blue"}) \cup {"red"}
    BY <1>3 DEF FatalError, BlinkEndStart
  <2>2. QED
    BY <2>1
<1>4. CASE Unheard
  BY <1>4 DEF Unheard
<1>5. CASE Lights
  BY <1>5 DEF Lights, BlinkThread, Blink, Wake
<1>6. CASE Heard(Finger) \/ Heard(Pin) \/ Heard(Work) \/ Heard(Fault)
  BY <1>6 DEF Heard
<1>7. CASE UNCHANGED all
  BY <1>7 DEF all
<1>8. QED
  BY <1>1, <1>2, <1>3, <1>4, <1>5, <1>6, <1>7 DEF PanelNext, Starts

\* No lamp but the red one is turned on, and one that the thread sees
\* to is dark afterwards.
OnlyRedTurnsOn ==
  pc = "halted" => \A l \in lit' : l = "red" \/ (l \in lit /\ (l \in todo => l \in todo'))

\* After a fatal error, wherever the blink thread is in its pass: no lamp but the red
\* one is turned on any more, the next visit of the thread darkens it, and no check
\* ever runs.  That the red one blinks needs the fairness of Answers.
THEOREM HaltedRed ==
  PanelSpec => /\ [](pc = "halted" => ~checking /\ sem = 0)
               /\ [][OnlyRedTurnsOn]_all
<1>1. PanelInit => LampsInv /\ Idle
  BY DEF PanelInit, LedInit, LampsInv, Idle
<1>2. LampsInv /\ [PanelNext]_all => LampsInv'
  BY LampsStep
<1>3. Idle /\ [PanelNext]_all => Idle'
  BY PanelSteps
<1>4. Idle => (pc = "halted" => ~checking /\ sem = 0)
  BY DEF Idle, Init
<1>5. ASSUME LampsInv, [PanelNext]_all, pc = "halted", NEW l \in lit'
      PROVE  l = "red" \/ (l \in lit /\ (l \in todo => l \in todo'))
  <2>1. bits = {"red"}
    BY <1>5 DEF LampsInv
  <2>2. CASE Lights
    <3>1. CASE Blink
      <4>1. PICK k \in todo : lit' = Lamp(k) /\ todo' = todo \ {k}
        BY <3>1 DEF Blink
      <4>2. k = "red" \/ lit' = lit \ {k}
        BY <2>1, <4>1 DEF Lamp
      <4>3. QED
        BY <1>5, <4>1, <4>2 DEF Lamp
    <3>2. CASE Wake
      BY <1>5, <3>2 DEF Wake
    <3>3. QED
      BY <2>2, <3>1, <3>2 DEF Lights, BlinkThread
  <2>3. CASE Unheard \/ Heard(Finger) \/ Heard(Pin) \/ Heard(Work) \/ Heard(Fault) \/ UNCHANGED all
    BY <1>5, <2>3 DEF Unheard, Heard, all, panelVars, ledVars
  <2>4. ~Starts
    BY <1>5 DEF Starts, StartLeds, StartLedsFails, StartButton, StartButtonFails, FatalError, Main
  <2>5. QED
    BY <1>5, <2>2, <2>3, <2>4 DEF PanelNext
<1>6. LampsInv /\ [PanelNext]_all => OnlyRedTurnsOn
  BY <1>5 DEF OnlyRedTurnsOn
<1>7. QED
  BY <1>1, <1>2, <1>3, <1>4, <1>6, PTL DEF PanelSpec
=============================================================================
