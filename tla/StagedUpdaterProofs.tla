------------------------- MODULE StagedUpdaterProofs -------------------------
(***************************************************************************)
(* Theorems about StagedUpdater, for every number of versions and blocks   *)
(* and every capacity.  The first part needs no assumption on the faults;  *)
(* the second (what is staged is the image that was asked for) needs the   *)
(* old download to be removable: UnlinkFaults = FALSE.                     *)
(***************************************************************************)
EXTENDS StagedUpdater, McubootProofs

----------------------------------------------------------------------------
(* The trial of a new image                                                *)

\* An upgrade request is only ever outstanding on the way to the reboot.
PendingInv == pending => confirmed /\ pc = "rebooting"

\* During a trial the updater is never in a position to touch slot1, which
\* holds the image that ran before.
TrialInv == ~confirmed => /\ pc \in {"boot", "halted", "rebooting"}
                          /\ \E v \in 1..primary : slot1 = Image(v)

\* What the backend was told is at most the version a revert would leave.
ToldInv == /\ confirmed => reported <= primary
           /\ ~confirmed => \E v \in 1..primary : slot1 = Image(v) /\ reported <= v

\* Between the version check and the reboot the goal is a newer version.
GoalInv == pc \in {"download", "flash", "copy", "request"} => primary < desired

IInv == TypeOK /\ GoalInv /\ PendingInv /\ TrialInv /\ ToldInv

\* The invariant holds when a board leaves the factory.
LEMMA InitIInv == Init => IInv
<1> SUFFICES ASSUME Init PROVE IInv
  OBVIOUS
<1> USE ImageAssumption, StagedAssumption
<1>1. SlotTypeOK
  <2>1. slot1 \in Seq(Block)
    BY DEF Init
  <2>2. confirmed \in BOOLEAN /\ pending \in BOOLEAN /\ primary \in Versions
    BY DEF Init
  <2>3. QED
    BY <2>1, <2>2 DEF SlotTypeOK
<1>2. target \in 0..MaxVersion
  BY DEF Init, Versions
<1>3. TypeOK
  BY <1>1, <1>2 DEF Init, TypeOK, Positions
<1>4. QED
  BY <1>3 DEF Init, IInv, GoalInv, PendingInv, TrialInv, ToldInv, Versions

\* Every step keeps the types and the goal.
LEMMA TypeStep ==
  ASSUME TypeOK, GoalInv, [Next]_vars
  PROVE  TypeOK' /\ GoalInv'
<1> USE ImageAssumption, StagedAssumption
<1> USE DEF TypeOK, SlotTypeOK, GoalInv, Goto, Jump, slotVars, ramVars, backendVars, Positions
<1>1. CASE InitializeFails
  BY <1>1 DEF InitializeFails
<1>2. CASE InitializeConfirmed
  BY <1>2 DEF InitializeConfirmed
<1>3. CASE ConfirmImage
  BY <1>3 DEF ConfirmImage
<1>4. CASE ConfirmFails
  BY <1>4 DEF ConfirmFails
<1>5. CASE InformBackend
  BY <1>5 DEF InformBackend, Versions
<1>6. CASE InformLost
  BY <1>6 DEF InformLost
<1>7. CASE PressButton
  BY <1>7 DEF PressButton
<1>8. CASE UseCachedTarget
  BY <1>8 DEF UseCachedTarget
<1>9. CASE FetchTarget
  BY <1>9 DEF FetchTarget
<1>10. CASE FetchFails
  BY <1>10 DEF FetchFails
<1>11. CASE NotRequired
  BY <1>11 DEF NotRequired
<1>12. CASE DownloadInit
  BY <1>12, TornType DEF DownloadInit, UpdateRequired
<1>13. CASE DownloadInitUnlinkFails
  BY <1>13 DEF DownloadInitUnlinkFails, UpdateRequired
<1>14. CASE DownloadInitFails
  BY <1>14 DEF DownloadInitFails
<1>15. CASE GetChunk
  BY <1>15 DEF GetChunk, Versions, Block
<1>16. CASE GetChunkFails
  <2>1. Append(file, Torn) \in Seq(Block) /\ Len(Append(file, Torn)) = Len(file) + 1
    BY TornType
  <2>2. Len(file) \in Nat /\ Len(file) + 1 <= FsCapacity
    BY <1>16 DEF GetChunkFails
  <2>3. file' = file \/ file' = Append(file, Torn)
    BY <1>16 DEF GetChunkFails
  <2>4. file' \in Seq(Block) /\ Len(file') <= FsCapacity
    BY <2>1, <2>2, <2>3
  <2>5. QED
    BY <1>16, <2>4 DEF GetChunkFails
<1>17. CASE FileFull
  BY <1>17 DEF FileFull
<1>18. CASE DownloadFinish
  BY <1>18 DEF DownloadFinish
<1>19. CASE DownloadFinishFails
  BY <1>19 DEF DownloadFinishFails
<1>20. CASE EraseSlot
  BY <1>20 DEF EraseSlot
<1>21. CASE EraseSlotFails
  BY <1>21, TornType DEF EraseSlotFails
<1>22. CASE CopyBlock
  BY <1>22 DEF CopyBlock
<1>23. CASE SlotFull
  BY <1>23 DEF SlotFull
<1>24. CASE FlushSlot
  BY <1>24 DEF FlushSlot
<1>25. CASE CopyFails
  <2>1. slot1 \o buf \in Seq(Block) /\ Append(slot1, Torn) \in Seq(Block)
    BY TornType
  <2>2. slot1' = slot1 \/ slot1' = slot1 \o buf \/ slot1' = Append(slot1, Torn)
    BY <1>25 DEF CopyFails
  <2>3. slot1' \in Seq(Block)
    BY <2>1, <2>2
  <2>4. QED
    BY <1>25, <2>3 DEF CopyFails
<1>26. CASE RequestUpgrade
  BY <1>26 DEF RequestUpgrade
<1>27. CASE RequestUpgradeFails
  BY <1>27 DEF RequestUpgradeFails
<1>28. CASE Reset
  BY <1>28, BootType DEF Reset
<1>29. CASE SetTarget
  BY <1>29 DEF SetTarget, Versions
<1>30. CASE UNCHANGED vars
  BY <1>30 DEF vars
<1>31. QED
  BY <1>1, <1>2, <1>3, <1>4, <1>5, <1>6, <1>7, <1>8, <1>9, <1>10, <1>11, <1>12, <1>13, <1>14, <1>15, <1>16, <1>17, <1>18, <1>19, <1>20, <1>21, <1>22, <1>23, <1>24, <1>25, <1>26, <1>27, <1>28, <1>29, <1>30
  DEF Next, Progress, Fault, Reboot, PowerLoss

\* A reset keeps the trial invariants: a requested image starts its trial with
\* the old one in slot1, and a trial that was not confirmed ends.
LEMMA TrialReset ==
  ASSUME TypeOK, PendingInv, TrialInv, ToldInv, Reset
  PROVE  PendingInv' /\ TrialInv' /\ ToldInv'
<1> USE ImageAssumption
<1> USE DEF TypeOK, SlotTypeOK, PendingInv, TrialInv, ToldInv, Versions, Reset, backendVars
<1>1. CASE TestSwap
  BY <1>1, BootableHeader DEF TestSwap, SwapDue, SwapSlots
<1>2. CASE RevertSwap
  <2>1. PICK v \in 1..primary : slot1 = Image(v) /\ reported <= v
    BY <1>2 DEF RevertSwap, RevertDue
  <2>2. primary' = v
    BY <1>2, <2>1, ImageBootable DEF RevertSwap, SwapSlots
  <2>3. QED
    BY <1>2, <2>1, <2>2 DEF RevertSwap, SwapSlots
<1>3. CASE KeepSlots
  <2>1. confirmed
    <3> SUFFICES ASSUME ~confirmed PROVE FALSE
      OBVIOUS
    <3>1. PICK v \in 1..primary : slot1 = Image(v)
      OBVIOUS
    <3>2. RevertDue
      BY <3>1, ImageBootable DEF RevertDue
    <3>3. QED
      BY <1>3, <3>2 DEF KeepSlots
  <2>2. QED
    BY <1>3, <2>1 DEF KeepSlots
<1>4. QED
  BY <1>1, <1>2, <1>3 DEF BootSlots

\* Every step keeps the trial invariants.
LEMMA TrialStep ==
  ASSUME TypeOK, PendingInv, TrialInv, ToldInv, [Next]_vars
  PROVE  PendingInv' /\ TrialInv' /\ ToldInv'
<1> USE ImageAssumption
<1> USE DEF PendingInv, TrialInv, ToldInv, Goto, Jump, slotVars, ramVars, backendVars
<1>1. CASE InitializeFails
  BY <1>1 DEF InitializeFails
<1>2. CASE InitializeConfirmed
  BY <1>2 DEF InitializeConfirmed
<1>3. CASE ConfirmImage
  BY <1>3 DEF ConfirmImage, TypeOK, SlotTypeOK, Versions
<1>4. CASE ConfirmFails
  BY <1>4 DEF ConfirmFails, TypeOK, SlotTypeOK, Versions
<1>5. CASE InformBackend
  BY <1>5 DEF InformBackend, TypeOK, SlotTypeOK, Versions
<1>6. CASE InformLost
  BY <1>6 DEF InformLost
<1>7. CASE PressButton
  BY <1>7 DEF PressButton
<1>8. CASE UseCachedTarget
  BY <1>8 DEF UseCachedTarget
<1>9. CASE FetchTarget
  BY <1>9 DEF FetchTarget
<1>10. CASE FetchFails
  BY <1>10 DEF FetchFails
<1>11. CASE NotRequired
  BY <1>11 DEF NotRequired
<1>12. CASE DownloadInit
  BY <1>12 DEF DownloadInit
<1>13. CASE DownloadInitUnlinkFails
  BY <1>13 DEF DownloadInitUnlinkFails
<1>14. CASE DownloadInitFails
  BY <1>14 DEF DownloadInitFails
<1>15. CASE GetChunk
  BY <1>15 DEF GetChunk
<1>16. CASE GetChunkFails
  BY <1>16 DEF GetChunkFails
<1>17. CASE FileFull
  BY <1>17 DEF FileFull
<1>18. CASE DownloadFinish
  BY <1>18 DEF DownloadFinish
<1>19. CASE DownloadFinishFails
  BY <1>19 DEF DownloadFinishFails
<1>20. CASE EraseSlot
  BY <1>20 DEF EraseSlot
<1>21. CASE EraseSlotFails
  BY <1>21 DEF EraseSlotFails
<1>22. CASE CopyBlock
  BY <1>22 DEF CopyBlock
<1>23. CASE SlotFull
  BY <1>23 DEF SlotFull
<1>24. CASE FlushSlot
  BY <1>24 DEF FlushSlot
<1>25. CASE CopyFails
  BY <1>25 DEF CopyFails
<1>26. CASE RequestUpgrade
  BY <1>26 DEF RequestUpgrade
<1>27. CASE RequestUpgradeFails
  BY <1>27 DEF RequestUpgradeFails
<1>28. CASE Reset
  BY <1>28, TrialReset
<1>29. CASE SetTarget
  BY <1>29 DEF SetTarget
<1>30. CASE UNCHANGED vars
  BY <1>30 DEF vars
<1>31. QED
  BY <1>1, <1>2, <1>3, <1>4, <1>5, <1>6, <1>7, <1>8, <1>9, <1>10, <1>11, <1>12, <1>13, <1>14, <1>15, <1>16, <1>17, <1>18, <1>19, <1>20, <1>21, <1>22, <1>23, <1>24, <1>25, <1>26, <1>27, <1>28, <1>29, <1>30
  DEF Next, Progress, Fault, Reboot, PowerLoss

\* The inductive invariant holds in every reachable state.
LEMMA Invariant == Spec => []IInv
<1>1. IInv /\ [Next]_vars => IInv'
  BY TypeStep, TrialStep DEF IInv
<1>2. QED
  BY InitIInv, <1>1, PTL DEF Spec

----------------------------------------------------------------------------
(* Theorems that hold whatever fails                                       *)

\* Type correctness: no counter leaves its range and no file or slot holds
\* anything but blocks, in every state of every instance.
THEOREM TypeCorrect == Spec => []TypeOK
BY Invariant, PTL DEF IInv

\* At any moment of a trial slot1 still holds a whole image to go back to.
THEOREM FallbackSafe == Spec => []FallbackIntact
<1>1. IInv => FallbackIntact
  <2> SUFFICES ASSUME IInv, ~confirmed
               PROVE  Bootable(slot1) /\ HeaderVersion(slot1) <= primary
    BY DEF FallbackIntact
  <2>1. PICK v \in 1..primary : slot1 = Image(v)
    BY DEF IInv, TrialInv
  <2>2. v \in Versions
    BY ImageAssumption DEF IInv, TypeOK, SlotTypeOK, Versions
  <2>3. QED
    BY <2>1, <2>2, ImageBootable
<1>2. QED
  BY <1>1, Invariant, PTL

\* The backend is never told a version that a revert may still take away.
THEOREM ReportSafe == Spec => []ReportedNotOnTrial
<1> USE DEF SafeVersion
<1>1. IInv => ReportedNotOnTrial
  <2> SUFFICES ASSUME IInv
               PROVE  reported <= SafeVersion
    BY DEF ReportedNotOnTrial
  <2>1. CASE confirmed
    BY <2>1 DEF IInv, ToldInv
  <2>2. CASE ~confirmed
    <3>1. PICK v \in 1..primary : slot1 = Image(v) /\ reported <= v
      BY <2>2 DEF IInv, ToldInv
    <3>2. v \in Versions
      BY ImageAssumption DEF IInv, TypeOK, SlotTypeOK, Versions
    <3>3. FallbackVersion = v
      BY <3>1, <3>2, ImageBootable DEF FallbackVersion
    <3>4. QED
      BY <2>2, <3>1, <3>3
  <2>3. QED
    BY <2>1, <2>2
<1>2. QED
  BY <1>1, Invariant, PTL

----------------------------------------------------------------------------
(* The updater implements ABUpdate                                         *)

Fallback == IF confirmed THEN 0 ELSE FallbackVersion

\* A reset is an installation, a revert, or nothing at all.
LEMMA ResetImplementsAB ==
  ASSUME IInv, Reset
  PROVE  AB!Next \/ UNCHANGED <<primary, ~confirmed, Fallback, reported>>
<1> USE DEF IInv, Reset, backendVars
<1>1. CASE TestSwap
  <2>1. HeaderVersion(slot1) \in Versions /\ HeaderVersion(slot1) >= primary
    BY <1>1, BootableHeader DEF TestSwap, SwapDue, TypeOK, SlotTypeOK
  <2>2. confirmed /\ confirmed' = FALSE /\ primary' = HeaderVersion(slot1)
    BY <1>1 DEF TestSwap, SwapDue, SwapSlots, PendingInv
  <2>3. FallbackVersion' = primary
    BY <1>1, ImageBootable DEF TestSwap, SwapSlots, FallbackVersion, TypeOK, SlotTypeOK
  <2>4. AB!Install(HeaderVersion(slot1))
    BY <2>1, <2>2, <2>3 DEF AB!Install
  <2>5. QED
    BY <2>1, <2>4 DEF AB!Next, Versions
<1>2. CASE RevertSwap
  <2>1. ~confirmed /\ confirmed' = TRUE
    BY <1>2 DEF RevertSwap, RevertDue
  <2>2. primary' = FallbackVersion
    BY <1>2 DEF RevertSwap, RevertDue, SwapSlots, FallbackVersion
  <2>3. AB!Revert
    BY <2>1, <2>2 DEF AB!Revert
  <2>4. QED
    BY <2>3 DEF AB!Next
<1>3. CASE KeepSlots
  <2>1. confirmed
    <3> SUFFICES ASSUME ~confirmed PROVE FALSE
      OBVIOUS
    <3>1. PICK v \in 1..primary : slot1 = Image(v)
      BY DEF TrialInv
    <3>2. v \in Versions
      BY ImageAssumption DEF TypeOK, SlotTypeOK, Versions
    <3>3. RevertDue
      BY <3>1, <3>2, ImageBootable DEF RevertDue, PendingInv
    <3>4. QED
      BY <1>3, <3>3 DEF KeepSlots
  <2>2. QED
    BY <1>3, <2>1 DEF KeepSlots, Fallback, TypeOK, SlotTypeOK
<1>4. QED
  BY <1>1, <1>2, <1>3 DEF BootSlots

\* The updater's other steps confirm, report or stutter.
LEMMA StepImplementsAB ==
  ASSUME IInv, [Next]_vars
  PROVE  AB!Next \/ UNCHANGED <<primary, ~confirmed, Fallback, reported>>
<1> USE DEF IInv, TrialInv, Goto, Jump, slotVars, ramVars, backendVars, Fallback, FallbackVersion
<1>1. CASE InitializeFails
  BY <1>1 DEF InitializeFails
<1>2. CASE InitializeConfirmed
  BY <1>2 DEF InitializeConfirmed
<1>3. CASE ConfirmImage
  <2>1. AB!Confirm
    BY <1>3 DEF ConfirmImage, AB!Confirm
  <2>2. QED
    BY <2>1 DEF AB!Next
<1>4. CASE ConfirmFails
  <2>1. CASE confirmed'
    <3>1. AB!Confirm
      BY <1>4, <2>1 DEF ConfirmFails, AB!Confirm
    <3>2. QED
      BY <3>1 DEF AB!Next
  <2>2. CASE ~confirmed'
    BY <1>4, <2>2 DEF ConfirmFails
  <2>3. QED
    BY <2>1, <2>2
<1>5. CASE InformBackend
  <2>1. AB!Report
    BY <1>5 DEF InformBackend, AB!Report
  <2>2. QED
    BY <2>1 DEF AB!Next
<1>6. CASE InformLost
  BY <1>6 DEF InformLost
<1>7. CASE PressButton
  BY <1>7 DEF PressButton
<1>8. CASE UseCachedTarget
  BY <1>8 DEF UseCachedTarget
<1>9. CASE FetchTarget
  BY <1>9 DEF FetchTarget
<1>10. CASE FetchFails
  BY <1>10 DEF FetchFails
<1>11. CASE NotRequired
  BY <1>11 DEF NotRequired
<1>12. CASE DownloadInit
  BY <1>12 DEF DownloadInit
<1>13. CASE DownloadInitUnlinkFails
  BY <1>13 DEF DownloadInitUnlinkFails
<1>14. CASE DownloadInitFails
  BY <1>14 DEF DownloadInitFails
<1>15. CASE GetChunk
  BY <1>15 DEF GetChunk
<1>16. CASE GetChunkFails
  BY <1>16 DEF GetChunkFails
<1>17. CASE FileFull
  BY <1>17 DEF FileFull
<1>18. CASE DownloadFinish
  BY <1>18 DEF DownloadFinish
<1>19. CASE DownloadFinishFails
  BY <1>19 DEF DownloadFinishFails
<1>20. CASE EraseSlot
  BY <1>20 DEF EraseSlot
<1>21. CASE EraseSlotFails
  BY <1>21 DEF EraseSlotFails
<1>22. CASE CopyBlock
  BY <1>22 DEF CopyBlock
<1>23. CASE SlotFull
  BY <1>23 DEF SlotFull
<1>24. CASE FlushSlot
  BY <1>24 DEF FlushSlot
<1>25. CASE CopyFails
  BY <1>25 DEF CopyFails
<1>26. CASE RequestUpgrade
  BY <1>26 DEF RequestUpgrade
<1>27. CASE RequestUpgradeFails
  BY <1>27 DEF RequestUpgradeFails
<1>28. CASE Reset
  BY <1>28, ResetImplementsAB
<1>29. CASE SetTarget
  BY <1>29 DEF SetTarget
<1>30. CASE UNCHANGED vars
  BY <1>30 DEF vars
<1>31. QED
  BY <1>1, <1>2, <1>3, <1>4, <1>5, <1>6, <1>7, <1>8, <1>9, <1>10, <1>11, <1>12, <1>13, <1>14, <1>15, <1>16, <1>17, <1>18, <1>19, <1>20, <1>21, <1>22, <1>23, <1>24, <1>25, <1>26, <1>27, <1>28, <1>29, <1>30
  DEF Next, Progress, Fault, Reboot, PowerLoss

\* Every behaviour of the updater, with all its faults, is one of ABUpdate.
THEOREM ImplementsABUpdate == Spec => ABSpec
<1>1. Init => AB!Init
  BY DEF Init, AB!Init, Versions
<1>2. IInv /\ [Next]_vars => [AB!Next]_AB!absVars
  BY StepImplementsAB DEF AB!absVars, Fallback
<1>3. QED
  BY <1>1, <1>2, Invariant, PTL DEF Spec, ABSpec, AB!Spec

\* Neither the version the device is sure of nor the one the backend knows goes down:
\* what the refinement says of each step, with the trial not older than its fallback.
THEOREM ForwardSafe == Spec => OnlyForward
<1>1. ASSUME IInv, [Next]_vars
      PROVE  SafeVersion' >= SafeVersion /\ reported' >= reported
  <2> USE DEF SafeVersion
  <2>0. /\ primary \in Nat /\ reported \in Nat
        /\ ~confirmed => FallbackVersion \in Nat /\ FallbackVersion <= primary
        /\ confirmed => reported <= primary
    <3>1. primary \in Nat /\ reported \in Nat /\ (confirmed => reported <= primary)
      BY <1>1, ImageAssumption DEF IInv, TypeOK, SlotTypeOK, Versions, ToldInv
    <3>2. ASSUME ~confirmed PROVE FallbackVersion \in Nat /\ FallbackVersion <= primary
      <4>1. PICK v \in 1..primary : slot1 = Image(v)
        BY <1>1, <3>2 DEF IInv, TrialInv
      <4>2. v \in Versions
        BY <1>1, ImageAssumption DEF IInv, TypeOK, SlotTypeOK, Versions
      <4>3. FallbackVersion = v
        BY <4>1, <4>2, ImageBootable DEF FallbackVersion
      <4>4. QED
        BY <3>1, <4>3
    <3>3. QED
      BY <3>1, <3>2
  <2>1. CASE \E v \in 1..MaxVersion : AB!Install(v)
    BY <2>0, <2>1 DEF AB!Install
  <2>2. CASE AB!Confirm
    BY <2>0, <2>2 DEF AB!Confirm
  <2>3. CASE AB!Revert
    BY <2>0, <2>3 DEF AB!Revert
  <2>4. CASE AB!Report
    BY <2>0, <2>4 DEF AB!Report
  <2>5. CASE UNCHANGED <<primary, ~confirmed, Fallback, reported>>
    <3>1. CASE confirmed
      <4>1. confirmed'
        BY <2>5, <3>1, Zenon
      <4>2. QED
        BY <2>0, <2>5, <3>1, <4>1
    <3>2. CASE ~confirmed
      <4>1. ~confirmed'
        BY <2>5, <3>2, Zenon
      <4>2. QED
        BY <2>0, <2>5, <3>2, <4>1 DEF Fallback
    <3>3. QED
      BY <3>1, <3>2
  <2>6. QED
    BY <1>1, <2>1, <2>2, <2>3, <2>4, <2>5, StepImplementsAB DEF AB!Next
<1>2. QED
  BY <1>1, Invariant, PTL DEF Spec, OnlyForward

----------------------------------------------------------------------------
(* A check comes to its end                                                *)

\* How many steps the check, or the start of the board, has left at most.
Rank == CASE pc = "check"    -> FsCapacity + NumChunks + 6
          [] pc = "update"   -> FsCapacity + NumChunks + 5
          [] pc = "download" -> FsCapacity + 4 + (NumChunks - got)
          [] pc = "flash"    -> FsCapacity + 3
          [] pc = "copy"     -> 2 + (FsCapacity - rd)
          [] pc = "boot"     -> 2
          [] pc \in {"request", "report"} -> 1
          [] OTHER           -> 0

\* Each step of the thread brings it closer to its end.
LEMMA RankStep ==
  ASSUME TypeOK, [Next]_vars
  PROVE  \/ PressButton \/ Reset \/ SetTarget \/ UNCHANGED vars
         \/ Rank' < Rank
<1>0. got \in 0..NumChunks /\ rd \in 0..FsCapacity /\ Len(file) \in 0..FsCapacity
  BY DEF TypeOK
<1> USE <1>0, ImageAssumption, StagedAssumption DEF Rank, Goto, Jump, ramVars
<1>1. CASE InitializeFails \/ InitializeConfirmed
  BY <1>1 DEF InitializeFails, InitializeConfirmed
<1>2. CASE ConfirmImage \/ ConfirmFails
  BY <1>2 DEF ConfirmImage, ConfirmFails
<1>3. CASE InformBackend \/ InformLost
  BY <1>3 DEF InformBackend, InformLost
<1>4. CASE PressButton
  BY <1>4 DEF PressButton
<1>5. CASE UseCachedTarget
  BY <1>5 DEF UseCachedTarget
<1>6. CASE FetchTarget \/ FetchFails
  <2>1. pc = "check" /\ pc' \in {"update", "idle"}
    BY <1>6 DEF FetchTarget, FetchFails
  <2>2. QED
    BY <2>1
<1>7. CASE NotRequired
  BY <1>7 DEF NotRequired
<1>8. CASE DownloadInit \/ DownloadInitUnlinkFails
  BY <1>8 DEF DownloadInit, DownloadInitUnlinkFails
<1>9. CASE DownloadInitFails
  BY <1>9 DEF DownloadInitFails
<1>10. CASE GetChunk
  BY <1>10 DEF GetChunk
<1>11. CASE GetChunkFails \/ FileFull
  BY <1>11 DEF GetChunkFails, FileFull
<1>12. CASE DownloadFinish \/ DownloadFinishFails
  BY <1>12 DEF DownloadFinish, DownloadFinishFails
<1>13. CASE EraseSlot \/ EraseSlotFails
  BY <1>13 DEF EraseSlot, EraseSlotFails
<1>14. CASE CopyBlock
  BY <1>14 DEF CopyBlock
<1>15. CASE SlotFull \/ FlushSlot \/ CopyFails
  BY <1>15 DEF SlotFull, FlushSlot, CopyFails
<1>16. CASE RequestUpgrade \/ RequestUpgradeFails
  BY <1>16 DEF RequestUpgrade, RequestUpgradeFails
<1>17. CASE SetTarget
  BY <1>17 DEF SetTarget
<1>18. CASE UNCHANGED vars
  BY <1>18 DEF vars
<1>19. CASE Reset
  BY <1>19
<1>20. QED
  BY <1>1, <1>2, <1>3, <1>4, <1>5, <1>6, <1>7, <1>8, <1>9, <1>10, <1>11, <1>12, <1>13, <1>14, <1>15, <1>16, <1>17, <1>18, <1>19
  DEF Next, Progress, Fault, Reboot, PowerLoss

\* For images and files of every size: a check, whatever fails in it, is over after a bounded
\* number of steps: no error path leads back to where the check has been.  That the
\* steps are taken is the fairness under which TLC checks the liveness.
THEOREM CheckEnds ==
  Spec => /\ [](Rank \in 0..(FsCapacity + NumChunks + 6))
          /\ [][PressButton \/ Reset \/ SetTarget \/ Rank' < Rank]_vars
<1>1. ASSUME TypeOK
      PROVE  Rank \in 0..(FsCapacity + NumChunks + 6)
  <2> USE ImageAssumption, StagedAssumption
  <2>1. NumChunks - got \in 0..NumChunks /\ FsCapacity - rd \in 0..FsCapacity
    BY <1>1 DEF TypeOK
  <2>2. CASE pc = "download" \/ pc = "copy"
    BY <2>1, <2>2 DEF Rank
  <2>3. CASE ~(pc = "download" \/ pc = "copy")
    BY <2>3 DEF Rank
  <2>4. QED
    BY <2>2, <2>3
<1>2. TypeOK /\ [Next]_vars => [PressButton \/ Reset \/ SetTarget \/ Rank' < Rank]_vars
  BY RankStep
<1>3. QED
  BY <1>1, <1>2, TypeCorrect, PTL DEF Spec

----------------------------------------------------------------------------
(* The cached answer to a rollback                                         *)

\* The backend asked for an older version than the one that runs.
Stuck == desired # 0 /\ desired < primary

\* The RAM is fresh while the board starts.
FreshInv == pc = "boot" => desired = 0

\* Every step keeps it.
LEMMA FreshStep ==
  ASSUME FreshInv, [Next]_vars
  PROVE  FreshInv'
BY DEF FreshInv, Next, Progress, Fault, Reboot, PowerLoss, Reset, Goto, Jump, ramVars, vars,
    ConfirmImage, ConfirmFails, CopyBlock, DownloadFinish, DownloadFinishFails,
    DownloadInit, DownloadInitUnlinkFails, DownloadInitFails, EraseSlot,
    EraseSlotFails, FetchTarget, FetchFails, GetChunk, GetChunkFails, FileFull,
    InformBackend, InformLost, InitializeFails, InitializeConfirmed, NotRequired,
    PressButton, RequestUpgrade, RequestUpgradeFails, SetTarget, SlotFull,
    FlushSlot, CopyFails, UseCachedTarget

\* The only way out is a reset.
LEMMA StuckStep ==
  ASSUME TypeOK, GoalInv, FreshInv, Stuck, [Next]_vars
  PROVE  Reset \/ (Stuck' /\ UNCHANGED <<slotVars, file, desired>>)
<1> USE DEF TypeOK, SlotTypeOK, Versions, GoalInv, FreshInv, Stuck, Goto, Jump, slotVars, ramVars
<1>1. CASE InitializeFails \/ InitializeConfirmed
  BY <1>1 DEF InitializeFails, InitializeConfirmed
<1>2. CASE ConfirmImage \/ ConfirmFails
  BY <1>2 DEF ConfirmImage, ConfirmFails
<1>3. CASE InformBackend \/ InformLost
  BY <1>3 DEF InformBackend, InformLost
<1>4. CASE PressButton
  BY <1>4 DEF PressButton
<1>5. CASE UseCachedTarget
  BY <1>5 DEF UseCachedTarget, CachedTarget
<1>6. CASE FetchTarget \/ FetchFails
  BY <1>6 DEF FetchTarget, FetchFails, CachedTarget
<1>7. CASE NotRequired
  BY <1>7 DEF NotRequired
<1>8. CASE DownloadInit \/ DownloadInitUnlinkFails
  BY <1>8 DEF DownloadInit, DownloadInitUnlinkFails, UpdateRequired
<1>9. CASE DownloadInitFails
  BY <1>9 DEF DownloadInitFails, UpdateRequired
<1>10. CASE GetChunk
  BY <1>10 DEF GetChunk
<1>11. CASE GetChunkFails \/ FileFull
  BY <1>11 DEF GetChunkFails, FileFull
<1>12. CASE DownloadFinish \/ DownloadFinishFails
  BY <1>12 DEF DownloadFinish, DownloadFinishFails
<1>13. CASE EraseSlot \/ EraseSlotFails
  BY <1>13 DEF EraseSlot, EraseSlotFails
<1>14. CASE CopyBlock
  BY <1>14 DEF CopyBlock
<1>15. CASE SlotFull \/ FlushSlot \/ CopyFails
  BY <1>15 DEF SlotFull, FlushSlot, CopyFails
<1>16. CASE RequestUpgrade \/ RequestUpgradeFails
  BY <1>16 DEF RequestUpgrade, RequestUpgradeFails
<1>17. CASE SetTarget
  BY <1>17 DEF SetTarget
<1>18. CASE UNCHANGED vars
  BY <1>18 DEF vars
<1>19. CASE Reset
  BY <1>19
<1>20. QED
  BY <1>1, <1>2, <1>3, <1>4, <1>5, <1>6, <1>7, <1>8, <1>9, <1>10, <1>11, <1>12, <1>13, <1>14, <1>15, <1>16, <1>17, <1>18, <1>19
  DEF Next, Progress, Fault, Reboot, PowerLoss

\* Once a rollback was asked for and fetched, no press, no new target and no failure
\* changes the file, slot1 or the version that is cached, for any number of versions: only a
\* reset makes the board ask again.
THEOREM RollbackSticks ==
  Spec => [][Stuck => Reset \/ (Stuck' /\ UNCHANGED <<slotVars, file, desired>>)]_vars
<1>1. Init => FreshInv
  BY DEF Init, FreshInv
<1>2. FreshInv /\ [Next]_vars => FreshInv'
  BY FreshStep
<1>3. IInv /\ FreshInv /\ [Next]_vars
        => [Stuck => Reset \/ (Stuck' /\ UNCHANGED <<slotVars, file, desired>>)]_vars
  BY StuckStep DEF IInv
<1>4. QED
  BY <1>1, <1>2, <1>3, Invariant, PTL DEF Spec

----------------------------------------------------------------------------
(* What is staged, when the old download can always be removed             *)

\* The file follows the download block by block, and slot1 together with the
\* block still in RAM follows the copy.
StageInv == /\ pc = "download" => file = Prefix(desired, got)
            /\ pc \in {"flash", "copy"} => file = Image(desired)
            /\ pc = "copy" => rd <= NumChunks /\ slot1 \o buf = Prefix(desired, rd)
            /\ pc = "request" => slot1 = Image(desired)
            /\ StagedExactly

\* Every step keeps it.
LEMMA StageStep ==
  ASSUME UnlinkFaults = FALSE, IInv, StageInv, [Next]_vars
  PROVE  StageInv'
<1> USE ImageAssumption, StagedAssumption
<1> USE DEF IInv, PendingInv, StageInv, StagedExactly, Goto, Jump, slotVars, ramVars, backendVars
<1>0. pc \in {"download", "flash", "copy", "request"} => desired \in Versions
  BY DEF GoalInv, TypeOK, SlotTypeOK, Versions
<1>1. CASE InitializeFails
  BY <1>1 DEF InitializeFails
<1>2. CASE InitializeConfirmed
  BY <1>2 DEF InitializeConfirmed
<1>3. CASE ConfirmImage
  BY <1>3 DEF ConfirmImage
<1>4. CASE ConfirmFails
  BY <1>4 DEF ConfirmFails
<1>5. CASE InformBackend
  BY <1>5 DEF InformBackend
<1>6. CASE InformLost
  BY <1>6 DEF InformLost
<1>7. CASE PressButton
  BY <1>7 DEF PressButton
<1>8. CASE UseCachedTarget
  BY <1>8 DEF UseCachedTarget
<1>9. CASE FetchTarget
  BY <1>9 DEF FetchTarget
<1>10. CASE FetchFails
  BY <1>10 DEF FetchFails
<1>11. CASE NotRequired
  BY <1>11 DEF NotRequired
<1>12. CASE DownloadInit
  <2>1. Prefix(desired, 0) = <<>>
    BY DEF Prefix
  <2>2. QED
    BY <1>12, <2>1 DEF DownloadInit
<1>13. CASE DownloadInitFails
  BY <1>13 DEF DownloadInitFails
<1>14. CASE GetChunk
  <2>1. got \in 0..(NumChunks - 1)
    BY <1>14 DEF GetChunk, TypeOK
  <2>2. file' = Prefix(desired, got + 1)
    BY <1>0, <1>14, <2>1, PrefixAppend DEF GetChunk
  <2>3. QED
    BY <1>14, <2>2 DEF GetChunk
<1>15. CASE GetChunkFails
  BY <1>15 DEF GetChunkFails
<1>16. CASE FileFull
  BY <1>16 DEF FileFull
<1>17. CASE DownloadFinish
  BY <1>17 DEF DownloadFinish, Image
<1>18. CASE DownloadFinishFails
  BY <1>18 DEF DownloadFinishFails
<1>19. CASE EraseSlot
  <2>1. slot1' \o buf' = Prefix(desired, 0)
    BY <1>19 DEF EraseSlot, Prefix
  <2>2. QED
    BY <1>19, <2>1 DEF EraseSlot
<1>20. CASE EraseSlotFails
  BY <1>20 DEF EraseSlotFails
<1>21. CASE CopyBlock
  <2>1. desired \in Versions /\ file = Image(desired)
    BY <1>0, <1>21 DEF CopyBlock
  <2>2. rd \in 0..(NumChunks - 1)
    BY <1>21, <2>1, ImageBootable DEF CopyBlock, TypeOK
  <2>3. file[rd + 1] = <<desired, rd + 1>>
    BY <2>1, <2>2 DEF Image, Prefix
  <2>4. slot1 \o buf = Prefix(desired, rd)
    BY <1>21 DEF CopyBlock
  <2>5. slot1' \o buf' = Append(Prefix(desired, rd), <<desired, rd + 1>>)
    BY <1>21, <2>3, <2>4 DEF CopyBlock, TypeOK, SlotTypeOK
  <2>6. slot1' \o buf' = Prefix(desired, rd + 1)
    BY <2>1, <2>2, <2>5, PrefixAppend
  <2>7. QED
    BY <1>21, <2>2, <2>6 DEF CopyBlock
<1>22. CASE SlotFull
  BY <1>22 DEF SlotFull
<1>23. CASE FlushSlot
  <2>1. rd = NumChunks
    BY <1>0, <1>23, ImageBootable DEF FlushSlot
  <2>2. slot1' = Image(desired)
    BY <1>23, <2>1 DEF FlushSlot, Image
  <2>3. QED
    BY <1>23, <2>2 DEF FlushSlot
<1>24. CASE CopyFails
  BY <1>24 DEF CopyFails
<1>25. CASE RequestUpgrade
  BY <1>25 DEF RequestUpgrade, GoalInv
<1>26. CASE RequestUpgradeFails
  BY <1>26 DEF RequestUpgradeFails
<1>27. CASE DownloadInitUnlinkFails
  BY <1>27 DEF DownloadInitUnlinkFails
<1>28. CASE Reset
  BY <1>28 DEF Reset, BootSlots, TestSwap, RevertSwap, KeepSlots, SwapSlots
<1>29. CASE SetTarget
  BY <1>29 DEF SetTarget
<1>30. CASE UNCHANGED vars
  BY <1>30 DEF vars
<1>31. QED
  BY <1>1, <1>2, <1>3, <1>4, <1>5, <1>6, <1>7, <1>8, <1>9, <1>10, <1>11, <1>12, <1>13, <1>14, <1>15, <1>16, <1>17, <1>18, <1>19, <1>20, <1>21, <1>22, <1>23, <1>24, <1>25, <1>26, <1>27, <1>28, <1>29, <1>30
  DEF Next, Progress, Fault, Reboot, PowerLoss

\* It holds in every state then.
LEMMA Stages ==
  ASSUME UnlinkFaults = FALSE
  PROVE  Spec => []StageInv
<1>1. Init => StageInv
  BY DEF Init, StageInv, StagedExactly
<1>2. IInv /\ StageInv /\ [Next]_vars => StageInv'
  BY StageStep
<1>3. QED
  BY <1>1, <1>2, Invariant, PTL DEF Spec

\* When an old download can always be removed, an upgrade is only ever requested
\* for exactly the image the backend asked for, newer than the running one.
THEOREM StagedSafe ==
  ASSUME UnlinkFaults = FALSE
  PROVE  Spec => []StagedExactly
<1>1. StageInv => StagedExactly
  BY DEF StageInv
<1>2. QED
  BY <1>1, Stages, PTL

\* Then the file that write_firmware_to_secondary_slot opens is one whole image.
THEOREM FileSafe ==
  ASSUME UnlinkFaults = FALSE
  PROVE  Spec => []OpenedFileIsImage
<1>1. IInv /\ StageInv => OpenedFileIsImage
  BY DEF IInv, GoalInv, TypeOK, SlotTypeOK, Versions, StageInv, OpenedFileIsImage
<1>2. QED
  BY <1>1, Stages, Invariant, PTL
==============================================================================
