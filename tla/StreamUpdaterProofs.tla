------------------------- MODULE StreamUpdaterProofs -------------------------
(***************************************************************************)
(* Theorems about StreamUpdater, for every number of versions and blocks   *)
(* and whatever fails.                                                     *)
(***************************************************************************)
EXTENDS StreamUpdater, McubootProofs

----------------------------------------------------------------------------
(* The trial of a new image                                                *)

\* An upgrade request is only ever outstanding on the way to the reboot.
PendingInv == pending => confirmed /\ pc = "rebooting"

\* During a trial the updater is never in a position to touch slot1, which
\* holds the image that ran before.
TrialInv == ~confirmed => /\ pc \in {"boot", "halted", "rebooting"}
                          /\ \E v \in 1..primary : slot1 = Image(v)

\* What the backend was told is at most the version a revert would leave.
ToldInv == /\ confirmed => reported <= primary
           /\ ~confirmed => \E v \in 1..primary : slot1 = Image(v) /\ reported <= v

\* Between the version check and the reboot the goal is a newer version.
GoalInv == pc \in {"erased", "download", "finish", "request"} => primary < desired

IInv == TypeOK /\ GoalInv /\ PendingInv /\ TrialInv /\ ToldInv

\* The invariant holds when a board leaves the factory.
LEMMA InitIInv == Init => IInv
<1> SUFFICES ASSUME Init PROVE IInv
  OBVIOUS
<1> USE ImageAssumption
<1>1. SlotTypeOK
  <2>1. slot1 \in Seq(Block)
    BY DEF Init
  <2>2. confirmed \in BOOLEAN /\ pending \in BOOLEAN /\ primary \in Versions
    BY DEF Init
  <2>3. QED
    BY <2>1, <2>2 DEF SlotTypeOK
<1>2. target \in 0..MaxVersion
  BY DEF Init, Versions
<1>3. TypeOK
  BY <1>1, <1>2 DEF Init, TypeOK, Positions
<1>4. QED
  BY <1>3 DEF Init, IInv, GoalInv, PendingInv, TrialInv, ToldInv, Versions

\* Every step keeps the types and the goal.
LEMMA TypeStep ==
  ASSUME TypeOK, GoalInv, [Next]_vars
  PROVE  TypeOK' /\ GoalInv'
<1> USE ImageAssumption
<1> USE DEF TypeOK, SlotTypeOK, GoalInv, Goto, Jump, slotVars, ramVars, backendVars, Positions
<1>1. CASE InitializeFails
  BY <1>1 DEF InitializeFails
<1>2. CASE InitializeConfirmed
  BY <1>2 DEF InitializeConfirmed
<1>3. CASE ConfirmImage
  BY <1>3 DEF ConfirmImage
<1>4. CASE ConfirmFails
  BY <1>4 DEF ConfirmFails
<1>5. CASE InformBackend
  BY <1>5 DEF InformBackend, Versions
<1>6. CASE InformLost
  BY <1>6 DEF InformLost
<1>7. CASE PressButton
  BY <1>7 DEF PressButton
<1>8. CASE ConnectFails
  BY <1>8 DEF ConnectFails
<1>8a. CASE FetchFails
  BY <1>8a DEF FetchFails
<1>9. CASE UseCachedTarget
  BY <1>9 DEF UseCachedTarget
<1>10. CASE FetchTarget
  BY <1>10 DEF FetchTarget
<1>11. CASE NotRequired
  BY <1>11 DEF NotRequired
<1>12. CASE EraseSlot
  BY <1>12, TornType DEF EraseSlot, UpdateRequired
<1>13. CASE EraseSlotFails
  <2>1. slot1 \o buf \in Seq(Block) /\ Append(slot1, Torn) \in Seq(Block)
    BY TornType
  <2>2. slot1' \in {slot1, slot1 \o buf, Append(slot1, Torn), <<Torn>>, <<>>}
    BY <1>13 DEF EraseSlotFails
  <2>3. slot1' \in Seq(Block)
    BY <2>1, <2>2, TornType
  <2>4. QED
    BY <1>13, <2>3 DEF EraseSlotFails
<1>14. CASE DownloadInit
  BY <1>14 DEF DownloadInit
<1>15. CASE DownloadInitFails
  BY <1>15 DEF DownloadInitFails
<1>16. CASE GetChunk
  BY <1>16 DEF GetChunk, Versions, Block
<1>17. CASE GetChunkFails
  <2>1. slot1 \o buf \in Seq(Block) /\ Append(slot1, Torn) \in Seq(Block)
    BY TornType
  <2>2. slot1' \in {slot1, slot1 \o buf, Append(slot1, Torn), <<Torn>>, <<>>}
    BY <1>17 DEF GetChunkFails
  <2>3. slot1' \in Seq(Block)
    BY <2>1, <2>2, TornType
  <2>4. QED
    BY <1>17, <2>3 DEF GetChunkFails
<1>18. CASE FlushSlot
  BY <1>18 DEF FlushSlot
<1>19. CASE FlushFails
  <2>1. slot1 \o buf \in Seq(Block) /\ Append(slot1, Torn) \in Seq(Block)
    BY TornType
  <2>2. slot1' \in {slot1, slot1 \o buf, Append(slot1, Torn), <<Torn>>, <<>>}
    BY <1>19 DEF FlushFails
  <2>3. slot1' \in Seq(Block)
    BY <2>1, <2>2, TornType
  <2>4. QED
    BY <1>19, <2>3 DEF FlushFails
<1>20. CASE DownloadFinish
  BY <1>20 DEF DownloadFinish
<1>21. CASE DownloadFinishFails
  BY <1>21 DEF DownloadFinishFails
<1>22. CASE RequestUpgrade
  BY <1>22 DEF RequestUpgrade
<1>23. CASE RequestUpgradeFails
  BY <1>23 DEF RequestUpgradeFails
<1>24. CASE Reset
  BY <1>24, BootType DEF Reset
<1>25. CASE SetTarget
  BY <1>25 DEF SetTarget, Versions
<1>26. CASE UNCHANGED vars
  BY <1>26 DEF vars
<1>27. QED
  BY <1>1, <1>2, <1>3, <1>4, <1>5, <1>6, <1>7, <1>8, <1>8a, <1>9, <1>10, <1>11, <1>12, <1>13, <1>14, <1>15, <1>16, <1>17, <1>18, <1>19, <1>20, <1>21, <1>22, <1>23, <1>24, <1>25, <1>26
  DEF Next, Reboot, PowerLoss

\* A reset keeps the trial invariants: a requested image starts its trial with
\* the old one in slot1, and a trial that was not confirmed ends.
LEMMA TrialReset ==
  ASSUME TypeOK, PendingInv, TrialInv, ToldInv, Reset
  PROVE  PendingInv' /\ TrialInv' /\ ToldInv'
<1> USE ImageAssumption
<1> USE DEF TypeOK, SlotTypeOK, PendingInv, TrialInv, ToldInv, Versions, Reset, backendVars
<1>1. CASE TestSwap
  BY <1>1, BootableHeader DEF TestSwap, SwapDue, SwapSlots
<1>2. CASE RevertSwap
  <2>1. PICK v \in 1..primary : slot1 = Image(v) /\ reported <= v
    BY <1>2 DEF RevertSwap, RevertDue
  <2>2. primary' = v
    BY <1>2, <2>1, ImageBootable DEF RevertSwap, SwapSlots
  <2>3. QED
    BY <1>2, <2>1, <2>2 DEF RevertSwap, SwapSlots
<1>3. CASE KeepSlots
  <2>1. confirmed
    <3> SUFFICES ASSUME ~confirmed PROVE FALSE
      OBVIOUS
    <3>1. PICK v \in 1..primary : slot1 = Image(v)
      OBVIOUS
    <3>2. RevertDue
      BY <3>1, ImageBootable DEF RevertDue
    <3>3. QED
      BY <1>3, <3>2 DEF KeepSlots
  <2>2. QED
    BY <1>3, <2>1 DEF KeepSlots
<1>4. QED
  BY <1>1, <1>2, <1>3 DEF BootSlots

\* Every step keeps the trial invariants.
LEMMA TrialStep ==
  ASSUME TypeOK, PendingInv, TrialInv, ToldInv, [Next]_vars
  PROVE  PendingInv' /\ TrialInv' /\ ToldInv'
<1> USE ImageAssumption
<1> USE DEF PendingInv, TrialInv, ToldInv, Goto, Jump, slotVars, ramVars, backendVars
<1>1. CASE InitializeFails
  BY <1>1 DEF InitializeFails
<1>2. CASE InitializeConfirmed
  BY <1>2 DEF InitializeConfirmed
<1>3. CASE ConfirmImage
  BY <1>3 DEF ConfirmImage, TypeOK, SlotTypeOK, Versions
<1>4. CASE ConfirmFails
  BY <1>4 DEF ConfirmFails, TypeOK, SlotTypeOK, Versions
<1>5. CASE InformBackend
  BY <1>5 DEF InformBackend, TypeOK, SlotTypeOK, Versions
<1>6. CASE InformLost
  BY <1>6 DEF InformLost
<1>7. CASE PressButton
  BY <1>7 DEF PressButton
<1>8. CASE ConnectFails
  BY <1>8 DEF ConnectFails
<1>8a. CASE FetchFails
  BY <1>8a DEF FetchFails
<1>9. CASE UseCachedTarget
  BY <1>9 DEF UseCachedTarget
<1>10. CASE FetchTarget
  BY <1>10 DEF FetchTarget
<1>11. CASE NotRequired
  BY <1>11 DEF NotRequired
<1>12. CASE EraseSlot
  BY <1>12 DEF EraseSlot
<1>13. CASE EraseSlotFails
  BY <1>13 DEF EraseSlotFails
<1>14. CASE DownloadInit
  BY <1>14 DEF DownloadInit
<1>15. CASE DownloadInitFails
  BY <1>15 DEF DownloadInitFails
<1>16. CASE GetChunk
  BY <1>16 DEF GetChunk
<1>17. CASE GetChunkFails
  BY <1>17 DEF GetChunkFails
<1>18. CASE FlushSlot
  BY <1>18 DEF FlushSlot
<1>19. CASE FlushFails
  BY <1>19 DEF FlushFails
<1>20. CASE DownloadFinish
  BY <1>20 DEF DownloadFinish
<1>21. CASE DownloadFinishFails
  BY <1>21 DEF DownloadFinishFails
<1>22. CASE RequestUpgrade
  BY <1>22 DEF RequestUpgrade
<1>23. CASE RequestUpgradeFails
  BY <1>23 DEF RequestUpgradeFails
<1>24. CASE Reset
  BY <1>24, TrialReset
<1>25. CASE SetTarget
  BY <1>25 DEF SetTarget
<1>26. CASE UNCHANGED vars
  BY <1>26 DEF vars
<1>27. QED
  BY <1>1, <1>2, <1>3, <1>4, <1>5, <1>6, <1>7, <1>8, <1>8a, <1>9, <1>10, <1>11, <1>12, <1>13, <1>14, <1>15, <1>16, <1>17, <1>18, <1>19, <1>20, <1>21, <1>22, <1>23, <1>24, <1>25, <1>26
  DEF Next, Reboot, PowerLoss

\* The inductive invariant holds in every reachable state.
LEMMA Invariant == Spec => []IInv
<1>1. IInv /\ [Next]_vars => IInv'
  BY TypeStep, TrialStep DEF IInv
<1>2. QED
  BY InitIInv, <1>1, PTL DEF Spec

----------------------------------------------------------------------------
(* Theorems that hold whatever fails                                       *)

\* Type correctness: no counter leaves its range and no file or slot holds
\* anything but blocks, in every state of every instance.
THEOREM TypeCorrect == Spec => []TypeOK
BY Invariant, PTL DEF IInv

\* At any moment of a trial slot1 still holds a whole image to go back to.
THEOREM FallbackSafe == Spec => []FallbackIntact
<1>1. IInv => FallbackIntact
  <2> SUFFICES ASSUME IInv, ~confirmed
               PROVE  Bootable(slot1) /\ HeaderVersion(slot1) <= primary
    BY DEF FallbackIntact
  <2>1. PICK v \in 1..primary : slot1 = Image(v)
    BY DEF IInv, TrialInv
  <2>2. v \in Versions
    BY ImageAssumption DEF IInv, TypeOK, SlotTypeOK, Versions
  <2>3. QED
    BY <2>1, <2>2, ImageBootable
<1>2. QED
  BY <1>1, Invariant, PTL

\* The backend is never told a version that a revert may still take away.
THEOREM ReportSafe == Spec => []ReportedNotOnTrial
<1> USE DEF SafeVersion
<1>1. IInv => ReportedNotOnTrial
  <2> SUFFICES ASSUME IInv
               PROVE  reported <= SafeVersion
    BY DEF ReportedNotOnTrial
  <2>1. CASE confirmed
    BY <2>1 DEF IInv, ToldInv
  <2>2. CASE ~confirmed
    <3>1. PICK v \in 1..primary : slot1 = Image(v) /\ reported <= v
      BY <2>2 DEF IInv, ToldInv
    <3>2. v \in Versions
      BY ImageAssumption DEF IInv, TypeOK, SlotTypeOK, Versions
    <3>3. FallbackVersion = v
      BY <3>1, <3>2, ImageBootable DEF FallbackVersion
    <3>4. QED
      BY <2>2, <3>1, <3>3
  <2>3. QED
    BY <2>1, <2>2
<1>2. QED
  BY <1>1, Invariant, PTL

----------------------------------------------------------------------------
(* The updater implements ABUpdate                                         *)

Fallback == IF confirmed THEN 0 ELSE FallbackVersion

\* A reset is an installation, a revert, or nothing at all.
LEMMA ResetImplementsAB ==
  ASSUME IInv, Reset
  PROVE  AB!Next \/ UNCHANGED <<primary, ~confirmed, Fallback, reported>>
<1> USE DEF IInv, Reset, backendVars
<1>1. CASE TestSwap
  <2>1. HeaderVersion(slot1) \in Versions /\ HeaderVersion(slot1) >= primary
    BY <1>1, BootableHeader DEF TestSwap, SwapDue, TypeOK, SlotTypeOK
  <2>2. confirmed /\ confirmed' = FALSE /\ primary' = HeaderVersion(slot1)
    BY <1>1 DEF TestSwap, SwapDue, SwapSlots, PendingInv
  <2>3. FallbackVersion' = primary
    BY <1>1, ImageBootable DEF TestSwap, SwapSlots, FallbackVersion, TypeOK, SlotTypeOK
  <2>4. AB!Install(HeaderVersion(slot1))
    BY <2>1, <2>2, <2>3 DEF AB!Install
  <2>5. QED
    BY <2>1, <2>4 DEF AB!Next, Versions
<1>2. CASE RevertSwap
  <2>1. ~confirmed /\ confirmed' = TRUE
    BY <1>2 DEF RevertSwap, RevertDue
  <2>2. primary' = FallbackVersion
    BY <1>2 DEF RevertSwap, RevertDue, SwapSlots, FallbackVersion
  <2>3. AB!Revert
    BY <2>1, <2>2 DEF AB!Revert
  <2>4. QED
    BY <2>3 DEF AB!Next
<1>3. CASE KeepSlots
  <2>1. confirmed
    <3> SUFFICES ASSUME ~confirmed PROVE FALSE
      OBVIOUS
    <3>1. PICK v \in 1..primary : slot1 = Image(v)
      BY DEF TrialInv
    <3>2. v \in Versions
      BY ImageAssumption DEF TypeOK, SlotTypeOK, Versions
    <3>3. RevertDue
      BY <3>1, <3>2, ImageBootable DEF RevertDue, PendingInv
    <3>4. QED
      BY <1>3, <3>3 DEF KeepSlots
  <2>2. QED
    BY <1>3, <2>1 DEF KeepSlots, Fallback, TypeOK, SlotTypeOK
<1>4. QED
  BY <1>1, <1>2, <1>3 DEF BootSlots

\* The updater's other steps confirm, report or stutter.
LEMMA StepImplementsAB ==
  ASSUME IInv, [Next]_vars
  PROVE  AB!Next \/ UNCHANGED <<primary, ~confirmed, Fallback, reported>>
<1> USE DEF IInv, TrialInv, Goto, Jump, slotVars, ramVars, backendVars, Fallback, FallbackVersion
<1>1. CASE InitializeFails
  BY <1>1 DEF InitializeFails
<1>2. CASE InitializeConfirmed
  BY <1>2 DEF InitializeConfirmed
<1>3. CASE ConfirmImage
  <2>1. AB!Confirm
    BY <1>3 DEF ConfirmImage, AB!Confirm
  <2>2. QED
    BY <2>1 DEF AB!Next
<1>4. CASE ConfirmFails
  <2>1. CASE confirmed'
    <3>1. AB!Confirm
      BY <1>4, <2>1 DEF ConfirmFails, AB!Confirm
    <3>2. QED
      BY <3>1 DEF AB!Next
  <2>2. CASE ~confirmed'
    BY <1>4, <2>2 DEF ConfirmFails
  <2>3. QED
    BY <2>1, <2>2
<1>5. CASE InformBackend
  <2>1. AB!Report
    BY <1>5 DEF InformBackend, AB!Report
  <2>2. QED
    BY <2>1 DEF AB!Next
<1>6. CASE InformLost
  BY <1>6 DEF InformLost
<1>7. CASE PressButton
  BY <1>7 DEF PressButton
<1>8. CASE ConnectFails
  BY <1>8 DEF ConnectFails
<1>8a. CASE FetchFails
  BY <1>8a DEF FetchFails
<1>9. CASE UseCachedTarget
  BY <1>9 DEF UseCachedTarget
<1>10. CASE FetchTarget
  BY <1>10 DEF FetchTarget
<1>11. CASE NotRequired
  BY <1>11 DEF NotRequired
<1>12. CASE EraseSlot
  BY <1>12 DEF EraseSlot
<1>13. CASE EraseSlotFails
  BY <1>13 DEF EraseSlotFails
<1>14. CASE DownloadInit
  BY <1>14 DEF DownloadInit
<1>15. CASE DownloadInitFails
  BY <1>15 DEF DownloadInitFails
<1>16. CASE GetChunk
  BY <1>16 DEF GetChunk
<1>17. CASE GetChunkFails
  BY <1>17 DEF GetChunkFails
<1>18. CASE FlushSlot
  BY <1>18 DEF FlushSlot
<1>19. CASE FlushFails
  BY <1>19 DEF FlushFails
<1>20. CASE DownloadFinish
  BY <1>20 DEF DownloadFinish
<1>21. CASE DownloadFinishFails
  BY <1>21 DEF DownloadFinishFails
<1>22. CASE RequestUpgrade
  BY <1>22 DEF RequestUpgrade
<1>23. CASE RequestUpgradeFails
  BY <1>23 DEF RequestUpgradeFails
<1>24. CASE Reset
  BY <1>24, ResetImplementsAB
<1>25. CASE SetTarget
  BY <1>25 DEF SetTarget
<1>26. CASE UNCHANGED vars
  BY <1>26 DEF vars
<1>27. QED
  BY <1>1, <1>2, <1>3, <1>4, <1>5, <1>6, <1>7, <1>8, <1>8a, <1>9, <1>10, <1>11, <1>12, <1>13, <1>14, <1>15, <1>16, <1>17, <1>18, <1>19, <1>20, <1>21, <1>22, <1>23, <1>24, <1>25, <1>26
  DEF Next, Reboot, PowerLoss

\* Every behaviour of the updater, with all its faults, is one of ABUpdate.
THEOREM ImplementsABUpdate == Spec => ABSpec
<1>1. Init => AB!Init
  BY DEF Init, AB!Init, Versions
<1>2. IInv /\ [Next]_vars => [AB!Next]_AB!absVars
  BY StepImplementsAB DEF AB!absVars, Fallback
<1>3. QED
  BY <1>1, <1>2, Invariant, PTL DEF Spec, ABSpec, AB!Spec

\* Neither the version the device is sure of nor the one the backend knows goes down:
\* what the refinement says of each step, with the trial not older than its fallback.
THEOREM ForwardSafe == Spec => OnlyForward
<1>1. ASSUME IInv, [Next]_vars
      PROVE  SafeVersion' >= SafeVersion /\ reported' >= reported
  <2> USE DEF SafeVersion
  <2>0. /\ primary \in Nat /\ reported \in Nat
        /\ ~confirmed => FallbackVersion \in Nat /\ FallbackVersion <= primary
        /\ confirmed => reported <= primary
    <3>1. primary \in Nat /\ reported \in Nat /\ (confirmed => reported <= primary)
      BY <1>1, ImageAssumption DEF IInv, TypeOK, SlotTypeOK, Versions, ToldInv
    <3>2. ASSUME ~confirmed PROVE FallbackVersion \in Nat /\ FallbackVersion <= primary
      <4>1. PICK v \in 1..primary : slot1 = Image(v)
        BY <1>1, <3>2 DEF IInv, TrialInv
      <4>2. v \in Versions
        BY <1>1, ImageAssumption DEF IInv, TypeOK, SlotTypeOK, Versions
      <4>3. FallbackVersion = v
        BY <4>1, <4>2, ImageBootable DEF FallbackVersion
      <4>4. QED
        BY <3>1, <4>3
    <3>3. QED
      BY <3>1, <3>2
  <2>1. CASE \E v \in 1..MaxVersion : AB!Install(v)
    BY <2>0, <2>1 DEF AB!Install
  <2>2. CASE AB!Confirm
    BY <2>0, <2>2 DEF AB!Confirm
  <2>3. CASE AB!Revert
    BY <2>0, <2>3 DEF AB!Revert
  <2>4. CASE AB!Report
    BY <2>0, <2>4 DEF AB!Report
  <2>5. CASE UNCHANGED <<primary, ~confirmed, Fallback, reported>>
    <3>1. CASE confirmed
      <4>1. confirmed'
        BY <2>5, <3>1, Zenon
      <4>2. QED
        BY <2>0, <2>5, <3>1, <4>1
    <3>2. CASE ~confirmed
      <4>1. ~confirmed'
        BY <2>5, <3>2, Zenon
      <4>2. QED
        BY <2>0, <2>5, <3>2, <4>1 DEF Fallback
    <3>3. QED
      BY <3>1, <3>2
  <2>6. QED
    BY <1>1, <2>1, <2>2, <2>3, <2>4, <2>5, StepImplementsAB DEF AB!Next
<1>2. QED
  BY <1>1, Invariant, PTL DEF Spec, OnlyForward

----------------------------------------------------------------------------
(* A check comes to its end                                                *)

\* How many steps the check, or the start of the board, has left at most.
Rank == CASE pc = "check"    -> NumChunks + 6
          [] pc = "update"   -> NumChunks + 5
          [] pc = "erased"   -> NumChunks + 4
          [] pc = "download" -> 3 + (NumChunks - got)
          [] pc = "finish"   -> 2
          [] pc = "boot"     -> 2
          [] pc \in {"request", "report"} -> 1
          [] OTHER           -> 0

\* Each step of the thread brings it closer to its end.
LEMMA RankStep ==
  ASSUME TypeOK, [Next]_vars
  PROVE  \/ PressButton \/ Reset \/ SetTarget \/ UNCHANGED vars
         \/ Rank' < Rank
<1> USE ImageAssumption DEF TypeOK, Rank, Goto, Jump, ramVars, Positions
<1>1. CASE InitializeFails \/ InitializeConfirmed
  BY <1>1 DEF InitializeFails, InitializeConfirmed
<1>2. CASE ConfirmImage \/ ConfirmFails
  BY <1>2 DEF ConfirmImage, ConfirmFails
<1>3. CASE InformBackend \/ InformLost
  BY <1>3 DEF InformBackend, InformLost
<1>4. CASE PressButton \/ ConnectFails
  BY <1>4 DEF PressButton, ConnectFails
<1>5. CASE UseCachedTarget
  BY <1>5 DEF UseCachedTarget
<1>6. CASE FetchTarget \/ FetchFails
  BY <1>6 DEF FetchTarget, FetchFails
<1>7. CASE NotRequired
  BY <1>7 DEF NotRequired
<1>8. CASE EraseSlot \/ EraseSlotFails
  BY <1>8 DEF EraseSlot, EraseSlotFails
<1>9. CASE DownloadInit \/ DownloadInitFails
  BY <1>9 DEF DownloadInit, DownloadInitFails
<1>10. CASE GetChunk
  BY <1>10 DEF GetChunk
<1>11. CASE GetChunkFails \/ FlushSlot \/ FlushFails
  BY <1>11 DEF GetChunkFails, FlushSlot, FlushFails
<1>12. CASE DownloadFinish \/ DownloadFinishFails
  BY <1>12 DEF DownloadFinish, DownloadFinishFails
<1>13. CASE RequestUpgrade \/ RequestUpgradeFails
  BY <1>13 DEF RequestUpgrade, RequestUpgradeFails
<1>14. CASE SetTarget
  BY <1>14 DEF SetTarget
<1>15. CASE UNCHANGED vars
  BY <1>15 DEF vars
<1>16. CASE Reset
  BY <1>16
<1>17. QED
  BY <1>1, <1>2, <1>3, <1>4, <1>5, <1>6, <1>7, <1>8, <1>9, <1>10, <1>11, <1>12, <1>13, <1>14, <1>15, <1>16
  DEF Next, Reboot, PowerLoss

\* For images of every size: a check, whatever fails in it, is over after a bounded
\* number of steps: no error path leads back to where the check has been.  That the
\* steps are taken is the fairness under which TLC checks the liveness.
THEOREM CheckEnds ==
  Spec => /\ [](Rank \in 0..(NumChunks + 6))
          /\ [][PressButton \/ Reset \/ SetTarget \/ Rank' < Rank]_vars
<1>1. ASSUME TypeOK
      PROVE  Rank \in 0..(NumChunks + 6)
  <2>1. NumChunks - got \in 0..NumChunks
    BY <1>1, ImageAssumption DEF TypeOK
  <2>2. QED
    BY <2>1, ImageAssumption DEF Rank
<1>2. TypeOK /\ [Next]_vars => [PressButton \/ Reset \/ SetTarget \/ Rank' < Rank]_vars
  BY RankStep
<1>3. QED
  BY <1>1, <1>2, TypeCorrect, PTL DEF Spec

----------------------------------------------------------------------------
(* The cached answer to a rollback                                         *)

\* The backend asked for an older version than the one that runs.
Stuck == desired # 0 /\ desired < primary

\* The RAM is fresh while the board starts.
FreshInv == pc = "boot" => desired = 0

\* Every step keeps it.
LEMMA FreshStep ==
  ASSUME FreshInv, [Next]_vars
  PROVE  FreshInv'
BY DEF FreshInv, Next, Reboot, PowerLoss, Reset, Goto, Jump, ramVars, vars,
    ConfirmImage, ConfirmFails, DownloadFinish, DownloadFinishFails,
    DownloadInit, DownloadInitFails, EraseSlot, EraseSlotFails, FetchTarget,
    FetchFails, GetChunk, GetChunkFails, FlushSlot, FlushFails, InformBackend,
    InformLost, InitializeFails, InitializeConfirmed, NotRequired, PressButton,
    ConnectFails, RequestUpgrade, RequestUpgradeFails, SetTarget, UseCachedTarget

\* The only way out is a reset.
LEMMA StuckStep ==
  ASSUME TypeOK, GoalInv, FreshInv, Stuck, [Next]_vars
  PROVE  Reset \/ (Stuck' /\ UNCHANGED <<slotVars, desired>>)
<1> USE DEF TypeOK, SlotTypeOK, Versions, GoalInv, FreshInv, Stuck, Goto, Jump, slotVars, ramVars
<1>1. CASE InitializeFails \/ InitializeConfirmed
  BY <1>1 DEF InitializeFails, InitializeConfirmed
<1>2. CASE ConfirmImage \/ ConfirmFails
  BY <1>2 DEF ConfirmImage, ConfirmFails
<1>3. CASE InformBackend \/ InformLost
  BY <1>3 DEF InformBackend, InformLost
<1>4. CASE PressButton \/ ConnectFails
  BY <1>4 DEF PressButton, ConnectFails
<1>5. CASE UseCachedTarget
  BY <1>5 DEF UseCachedTarget, CachedTarget
<1>6. CASE FetchTarget \/ FetchFails
  BY <1>6 DEF FetchTarget, FetchFails, CachedTarget
<1>7. CASE NotRequired
  BY <1>7 DEF NotRequired
<1>8. CASE EraseSlot \/ EraseSlotFails
  BY <1>8 DEF EraseSlot, EraseSlotFails, UpdateRequired
<1>9. CASE DownloadInit \/ DownloadInitFails
  BY <1>9 DEF DownloadInit, DownloadInitFails
<1>10. CASE GetChunk
  BY <1>10 DEF GetChunk
<1>11. CASE GetChunkFails \/ FlushSlot \/ FlushFails
  BY <1>11 DEF GetChunkFails, FlushSlot, FlushFails
<1>12. CASE DownloadFinish \/ DownloadFinishFails
  BY <1>12 DEF DownloadFinish, DownloadFinishFails
<1>13. CASE RequestUpgrade \/ RequestUpgradeFails
  BY <1>13 DEF RequestUpgrade, RequestUpgradeFails
<1>14. CASE SetTarget
  BY <1>14 DEF SetTarget
<1>15. CASE UNCHANGED vars
  BY <1>15 DEF vars
<1>16. CASE Reset
  BY <1>16
<1>17. QED
  BY <1>1, <1>2, <1>3, <1>4, <1>5, <1>6, <1>7, <1>8, <1>9, <1>10, <1>11, <1>12, <1>13, <1>14, <1>15, <1>16
  DEF Next, Reboot, PowerLoss

\* Once a rollback was asked for and fetched, no press, no new target and no failure
\* changes slot1 or the version that is cached, for any number of versions: only a
\* reset makes the board ask again.
THEOREM RollbackSticks ==
  Spec => [][Stuck => Reset \/ (Stuck' /\ UNCHANGED <<slotVars, desired>>)]_vars
<1>1. Init => FreshInv
  BY DEF Init, FreshInv
<1>2. FreshInv /\ [Next]_vars => FreshInv'
  BY FreshStep
<1>3. IInv /\ FreshInv /\ [Next]_vars
        => [Stuck => Reset \/ (Stuck' /\ UNCHANGED <<slotVars, desired>>)]_vars
  BY StuckStep DEF IInv
<1>4. QED
  BY <1>1, <1>2, <1>3, Invariant, PTL DEF Spec

----------------------------------------------------------------------------
(* What is staged                                                          *)

\* slot1 together with the block still in RAM follows the download.
StageInv == /\ pc = "erased" => slot1 = <<>> /\ buf = <<>>
            /\ pc = "download" => slot1 \o buf = Prefix(desired, got)
            /\ pc \in {"finish", "request"} => slot1 = Image(desired)
            /\ StagedExactly

\* Every step keeps it.
LEMMA StageStep ==
  ASSUME IInv, StageInv, [Next]_vars
  PROVE  StageInv'
<1> USE ImageAssumption
<1> USE DEF IInv, PendingInv, StageInv, StagedExactly, Goto, Jump, slotVars, ramVars, backendVars
<1>0. pc \in {"erased", "download", "finish", "request"} => desired \in Versions
  BY DEF GoalInv, TypeOK, SlotTypeOK, Versions
<1>1. CASE InitializeFails
  BY <1>1 DEF InitializeFails
<1>2. CASE InitializeConfirmed
  BY <1>2 DEF InitializeConfirmed
<1>3. CASE ConfirmImage
  BY <1>3 DEF ConfirmImage
<1>4. CASE ConfirmFails
  BY <1>4 DEF ConfirmFails
<1>5. CASE InformBackend
  BY <1>5 DEF InformBackend
<1>6. CASE InformLost
  BY <1>6 DEF InformLost
<1>7. CASE PressButton
  BY <1>7 DEF PressButton
<1>8. CASE ConnectFails
  BY <1>8 DEF ConnectFails
<1>8a. CASE FetchFails
  BY <1>8a DEF FetchFails
<1>9. CASE UseCachedTarget
  BY <1>9 DEF UseCachedTarget
<1>10. CASE FetchTarget
  BY <1>10 DEF FetchTarget
<1>11. CASE NotRequired
  BY <1>11 DEF NotRequired
<1>12. CASE EraseSlot
  BY <1>12 DEF EraseSlot
<1>13. CASE EraseSlotFails
  BY <1>13 DEF EraseSlotFails
<1>14. CASE DownloadInit
  <2>1. slot1' = <<>> /\ buf' = <<>> /\ desired' = desired /\ got' = 0
    BY <1>14 DEF DownloadInit
  <2>2. Prefix(desired, 0) = <<>>
    BY DEF Prefix
  <2>3. slot1' \o buf' = Prefix(desired', got')
    BY <2>1, <2>2
  <2>4. QED
    BY <1>14, <2>3 DEF DownloadInit
<1>15. CASE DownloadInitFails
  BY <1>15 DEF DownloadInitFails
<1>16. CASE GetChunk
  <2>1. desired \in Versions /\ got \in 0..(NumChunks - 1)
    BY <1>0, <1>16 DEF GetChunk, TypeOK
  <2>2. slot1 \o buf = Prefix(desired, got)
    BY <1>16 DEF GetChunk
  <2>3. slot1' \o buf' = Append(Prefix(desired, got), <<desired, got + 1>>)
    BY <1>16, <2>2 DEF GetChunk, TypeOK, SlotTypeOK
  <2>4. slot1' \o buf' = Prefix(desired, got + 1)
    BY <2>1, <2>3, PrefixAppend
  <2>5. QED
    BY <1>16, <2>4 DEF GetChunk
<1>17. CASE GetChunkFails
  BY <1>17 DEF GetChunkFails
<1>18. CASE FlushSlot
  BY <1>18 DEF FlushSlot, Image
<1>19. CASE FlushFails
  BY <1>19 DEF FlushFails
<1>20. CASE DownloadFinish
  BY <1>20 DEF DownloadFinish
<1>21. CASE DownloadFinishFails
  BY <1>21 DEF DownloadFinishFails
<1>22. CASE RequestUpgrade
  BY <1>22 DEF RequestUpgrade, GoalInv
<1>23. CASE RequestUpgradeFails
  BY <1>23 DEF RequestUpgradeFails
<1>24. CASE Reset
  BY <1>24 DEF Reset, BootSlots, TestSwap, RevertSwap, KeepSlots, SwapSlots
<1>25. CASE SetTarget
  BY <1>25 DEF SetTarget
<1>26. CASE UNCHANGED vars
  BY <1>26 DEF vars
<1>27. QED
  BY <1>1, <1>2, <1>3, <1>4, <1>5, <1>6, <1>7, <1>8, <1>8a, <1>9, <1>10, <1>11, <1>12, <1>13, <1>14, <1>15, <1>16, <1>17, <1>18, <1>19, <1>20, <1>21, <1>22, <1>23, <1>24, <1>25, <1>26
  DEF Next, Reboot, PowerLoss

\* An upgrade is only ever requested for exactly the image the backend asked for,
\* newer than the running one: here nothing that an earlier download left can get
\* into it, since the erase has to work before the first chunk is asked for.
THEOREM StagedSafe == Spec => []StagedExactly
<1>1. Init => StageInv
  BY DEF Init, StageInv, StagedExactly
<1>2. IInv /\ StageInv /\ [Next]_vars => StageInv'
  BY StageStep
<1>3. StageInv => StagedExactly
  BY DEF StageInv
<1>4. QED
  BY <1>1, <1>2, <1>3, Invariant, PTL DEF Spec
==============================================================================
