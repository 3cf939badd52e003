------------------------------ MODULE NrfProofs ------------------------------
(***************************************************************************)
(* Theorems about NrfDevice, for every number of versions and blocks and   *)
(* every combination of faults.                                            *)
(***************************************************************************)
EXTENDS NrfDevice, TLAPS

----------------------------------------------------------------------------
(* The board implements its updater                                        *)

\* The steps of the central alone.
LEMMA CentralStutters ==
  ASSUME UNCHANGED updaterVars
  PROVE  UNCHANGED U!vars
BY DEF updaterVars, U!vars, U!slotVars, U!ramVars, U!backendVars

\* Every step is a step of the updater or leaves it alone.
LEMMA StepImplementsUpdater ==
  ASSUME [Next]_vars
  PROVE  [U!Next]_U!vars
<1> USE DEF InUpdater, InCentral, U!Next
<1>1. CASE Start \/ StartFails
  BY <1>1 DEF Start, StartFails
<1>2. CASE StartCheck
  BY <1>2 DEF StartCheck
<1>3. CASE Connect \/ Scan \/ HangUp \/ Callback \/ TransportFault \/ Press
  BY <1>3, CentralStutters DEF Connect, Scan, HangUp, Callback, TransportFault, Press
<1>4. CASE ScanEndsInVain \/ ConnectFails
  BY <1>4 DEF ScanEndsInVain, ConnectFails, NoConnection
<1>5. CASE Send \/ MoreExchanges
  BY <1>5, CentralStutters DEF Send, MoreExchanges
<1>6. CASE Answered
  BY <1>6 DEF Answered, Succeeds
<1>7. CASE AnswerRefused \/ NotAnswered \/ NotSent \/ SendFails
  BY <1>7 DEF AnswerRefused, NotAnswered, NotSent, SendFails, GivesUp
<1>8. CASE Flash \/ RequestFails
  BY <1>8 DEF Flash, RequestFails
<1>9. CASE NothingToDo \/ FlashFails
  BY <1>9 DEF NothingToDo, FlashFails
<1>10. CASE Reboot \/ PowerLoss
  BY <1>10 DEF Reboot, PowerLoss
<1>11. CASE SetTarget
  BY <1>11 DEF SetTarget
<1>12. CASE UNCHANGED vars
  BY <1>12, CentralStutters DEF vars
<1>13. QED
  BY <1>1, <1>2, <1>3, <1>4, <1>5, <1>6, <1>7, <1>8, <1>9, <1>10, <1>11, <1>12
  DEF Next, Thread, Fault

\* Whatever the link, the gateway and the power do, the updater sees exchanges
\* that work or fail: a behaviour of the board is one of StreamUpdater.
LEMMA ImplementsUpdater == Spec => U!Spec
<1>1. Init => U!Init
  BY DEF Init
<1>2. [Next]_vars => [U!Next]_U!vars
  BY StepImplementsUpdater
<1>3. QED
  BY <1>1, <1>2, PTL DEF Spec, U!Spec

----------------------------------------------------------------------------
(* What this carries over to the board                                     *)

\* The updater again, now with its theorems.
UP == INSTANCE StreamUpdaterProofs WITH pc <- upc

\* A step of the one is a step of the other.
LEMMA SameNext == U!Next => UP!Next
<1>1. ASSUME U!InitializeFails \/ U!InitializeConfirmed \/ U!ConfirmImage \/
          U!ConfirmFails \/ U!InformBackend \/ U!InformLost
      PROVE  UP!Next
  BY <1>1 DEF UP!Next,
      U!InitializeFails, UP!InitializeFails, U!InitializeConfirmed,
      UP!InitializeConfirmed, U!ConfirmImage, UP!ConfirmImage,
      U!ConfirmFails, UP!ConfirmFails, U!InformBackend, UP!InformBackend,
      U!InformLost, UP!InformLost, U!Goto, UP!Goto, U!Jump, UP!Jump,
      U!slotVars, UP!slotVars, U!ramVars, UP!ramVars, U!backendVars,
      UP!backendVars
<1>2. ASSUME U!PressButton \/ U!ConnectFails \/ U!UseCachedTarget \/
          U!FetchTarget \/ U!FetchFails
      PROVE  UP!Next
  BY <1>2 DEF UP!Next,
      U!PressButton, UP!PressButton, U!ConnectFails, UP!ConnectFails,
      U!UseCachedTarget, UP!UseCachedTarget, U!FetchTarget, UP!FetchTarget,
      U!FetchFails, UP!FetchFails, U!Goto, UP!Goto, U!Jump, UP!Jump,
      U!slotVars, UP!slotVars, U!ramVars, UP!ramVars, U!backendVars,
      UP!backendVars, U!CachedTarget, UP!CachedTarget
<1>3. ASSUME U!NotRequired \/ U!EraseSlot \/ U!EraseSlotFails \/
          U!DownloadInit \/ U!DownloadInitFails
      PROVE  UP!Next
  BY <1>3 DEF UP!Next,
      U!NotRequired, UP!NotRequired, U!EraseSlot, UP!EraseSlot,
      U!EraseSlotFails, UP!EraseSlotFails, U!DownloadInit, UP!DownloadInit,
      U!DownloadInitFails, UP!DownloadInitFails, U!Goto, UP!Goto, U!Jump,
      UP!Jump, U!slotVars, UP!slotVars, U!ramVars, UP!ramVars,
      U!backendVars, UP!backendVars, U!UpdateRequired, UP!UpdateRequired,
      U!Torn, UP!Torn
<1>4. ASSUME U!GetChunk \/ U!GetChunkFails \/ U!FlushSlot \/ U!FlushFails
      PROVE  UP!Next
  BY <1>4 DEF UP!Next,
      U!GetChunk, UP!GetChunk, U!GetChunkFails, UP!GetChunkFails,
      U!FlushSlot, UP!FlushSlot, U!FlushFails, UP!FlushFails, U!Goto,
      UP!Goto, U!Jump, UP!Jump, U!slotVars, UP!slotVars, U!ramVars,
      UP!ramVars, U!backendVars, UP!backendVars, U!Torn, UP!Torn
<1>5. ASSUME U!DownloadFinish \/ U!DownloadFinishFails \/ U!RequestUpgrade \/
          U!RequestUpgradeFails \/ U!SetTarget
      PROVE  UP!Next
  BY <1>5 DEF UP!Next,
      U!DownloadFinish, UP!DownloadFinish, U!DownloadFinishFails,
      UP!DownloadFinishFails, U!RequestUpgrade, UP!RequestUpgrade,
      U!RequestUpgradeFails, UP!RequestUpgradeFails, U!SetTarget,
      UP!SetTarget, U!Goto, UP!Goto, U!Jump, UP!Jump, U!slotVars,
      UP!slotVars, U!ramVars, UP!ramVars, U!backendVars, UP!backendVars
<1>6. ASSUME U!Reboot \/ U!PowerLoss
      PROVE  UP!Next
  BY <1>6 DEF UP!Next,
      U!Reboot, UP!Reboot, U!PowerLoss, UP!PowerLoss, U!Goto, UP!Goto,
      U!Jump, UP!Jump, U!slotVars, UP!slotVars, U!ramVars, UP!ramVars,
      U!backendVars, UP!backendVars, U!Reset, UP!Reset, U!BootSlots,
      UP!BootSlots, U!TestSwap, UP!TestSwap, U!RevertSwap, UP!RevertSwap,
      U!KeepSlots, UP!KeepSlots, U!SwapDue, UP!SwapDue, U!RevertDue,
      UP!RevertDue, U!SwapSlots, UP!SwapSlots, U!Versions, UP!Versions,
      U!Prefix, UP!Prefix, U!Image, UP!Image, U!HeaderVersion,
      UP!HeaderVersion, U!Bootable, UP!Bootable
<1>7. QED
  BY <1>1, <1>2, <1>3, <1>4, <1>5, <1>6 DEF U!Next

\* A behaviour of the one is a behaviour of the other.
LEMMA SameSpec == U!Spec => UP!Spec
<1>1. U!Init => UP!Init
  BY DEF U!Init, UP!Init, U!Versions, UP!Versions
<1>2. U!vars = UP!vars /\ (U!vars)' = (UP!vars)'
  BY DEF U!vars, UP!vars, U!slotVars, UP!slotVars, U!ramVars, UP!ramVars,
         U!backendVars, UP!backendVars
<1>3. [U!Next]_U!vars => [UP!Next]_UP!vars
  BY <1>2, SameNext
<1>4. QED
  BY <1>1, <1>3, PTL DEF U!Spec, UP!Spec

\* On the board as a whole, whatever the link does: an upgrade is requested only for
\* the complete image the backend asked for, the image a trial falls back to stays
\* whole, and the backend is told no version that a revert may take away.
THEOREM BoardSafe ==
  Spec => [](U!StagedExactly /\ U!FallbackIntact /\ U!ReportedNotOnTrial)
<1>1. Spec => UP!Spec
  <2>1. Spec => U!Spec
    BY ImplementsUpdater
  <2>2. QED
    BY <2>1, SameSpec, PTL
<1>2. UP!Spec => [](UP!StagedExactly /\ UP!FallbackIntact /\ UP!ReportedNotOnTrial)
  <2>1. UP!Spec => []UP!StagedExactly
    BY UP!StagedSafe, NrfAssumption
  <2>2. UP!Spec => []UP!FallbackIntact
    BY UP!FallbackSafe, NrfAssumption
  <2>3. UP!Spec => []UP!ReportedNotOnTrial
    BY UP!ReportSafe, NrfAssumption
  <2>4. QED
    BY <2>1, <2>2, <2>3, PTL
<1>3. UP!StagedExactly /\ UP!FallbackIntact /\ UP!ReportedNotOnTrial
        => U!StagedExactly /\ U!FallbackIntact /\ U!ReportedNotOnTrial
  BY DEF U!StagedExactly, UP!StagedExactly, U!FallbackIntact,
         UP!FallbackIntact, U!ReportedNotOnTrial, UP!ReportedNotOnTrial,
         U!SafeVersion, UP!SafeVersion,
         U!FallbackVersion, UP!FallbackVersion, U!Bootable, UP!Bootable,
         U!HeaderVersion, UP!HeaderVersion, U!Image, UP!Image, U!Prefix,
         UP!Prefix
<1>4. QED
  BY <1>1, <1>2, <1>3, PTL

\* On the board as well, the version it is sure of and the one the backend knows
\* never go down.
THEOREM BoardForward == Spec => U!OnlyForward
<1>1. Spec => UP!OnlyForward
  <2>1. Spec => U!Spec
    BY ImplementsUpdater
  <2>2. UP!Spec => UP!OnlyForward
    BY UP!ForwardSafe, NrfAssumption
  <2>3. QED
    BY <2>1, <2>2, SameSpec, PTL
<1>2. U!vars = UP!vars /\ (U!vars)' = (UP!vars)'
  BY DEF U!vars, UP!vars, U!slotVars, UP!slotVars, U!ramVars, UP!ramVars,
         U!backendVars, UP!backendVars
<1>3. [UP!SafeVersion' >= UP!SafeVersion /\ reported' >= reported]_UP!vars
        => [U!SafeVersion' >= U!SafeVersion /\ reported' >= reported]_U!vars
  BY <1>2 DEF U!SafeVersion, UP!SafeVersion, U!FallbackVersion, UP!FallbackVersion,
       U!Bootable, UP!Bootable, U!HeaderVersion, UP!HeaderVersion
<1>4. QED
  BY <1>1, <1>3, PTL DEF U!OnlyForward, UP!OnlyForward

----------------------------------------------------------------------------
(* The updater and the central keep together                               *)

Connecting == {"connect", "scan", "waitReady"}
InSession  == {"session", "write", "waitAnswer", "crashed"}
Updating   == {"update", "erased", "download", "finish", "request"}

\* Where the thread is in the central, for each place in the updater.
PlaceInv == /\ upc = "boot" => /\ bpc = IF confirmed THEN "idle" ELSE "connect"
                               /\ ~scanning /\ link = "down"
            /\ upc \in {"report", "check"} => bpc \in Connecting \cup InSession
            /\ upc \in Updating => bpc \in InSession
            /\ upc = "idle" => bpc \notin Connecting \cup {"session", "write", "waitAnswer"}
            /\ bpc \in {"write", "waitAnswer"} => Asking
            /\ upc \in {"boot", "report", "idle", "check", "halted", "rebooting"} \cup Updating

\* The steps of the central that are no steps of the updater.
LEMMA PlaceCentral ==
  ASSUME PlaceInv, UNCHANGED updaterVars,
         \/ UNCHANGED <<bpc, scanning, link>>
         \/ upc # "boot" /\ bpc' \in {bpc, "crashed"}
         \/ B!TakeReady \/ B!StartScan
         \/ B!SendWrite \/ B!SendAsserts
         \/ B!KeepLink \/ B!SeeLink \/ B!Disconnect \/ B!DisconnectAsserts
         \/ Connect
         \/ Asking /\ B!SendPrepare
         \/ MoreExchanges
  PROVE  PlaceInv'
<1>1. UNCHANGED <<upc, confirmed, got, Asking>>
  BY DEF updaterVars, Asking, U!CachedTarget
<1> USE <1>1 DEF PlaceInv, Connecting, InSession, Updating, B!Goto, B!Jump
<1>2. CASE UNCHANGED <<bpc, scanning, link>> \/ (upc # "boot" /\ bpc' \in {bpc, "crashed"})
  BY <1>2
<1>3. CASE B!TakeReady \/ B!StartScan
  BY <1>3 DEF B!TakeReady, B!StartScan
<1>4. CASE B!SendWrite \/ B!SendAsserts
  BY <1>4 DEF B!SendWrite, B!SendAsserts
<1>5. CASE B!KeepLink \/ B!SeeLink \/ B!Disconnect \/ B!DisconnectAsserts
  BY <1>5 DEF B!KeepLink, B!SeeLink, B!Disconnect, B!DisconnectAsserts
<1>6. CASE Connect
  BY <1>6 DEF Connect, InCentral, B!AlreadyConnected, B!NotConnected
<1>7. CASE Asking /\ B!SendPrepare
  BY <1>7 DEF B!SendPrepare
<1>8. CASE MoreExchanges
  BY <1>8 DEF MoreExchanges, InCentral, B!TakeAnswer
<1>9. QED
  BY <1>2, <1>3, <1>4, <1>5, <1>6, <1>7, <1>8

\* What goes on beside the thread does not move it; it can only stop the board.
LEMMA BesideThread ==
  ASSUME Callback \/ TransportFault \/ Press
  PROVE  bpc' \in {bpc, "crashed"}
BY DEF Callback, TransportFault, Press, InCentral, B!Callback, B!PressButton,
   B!ScanFound, B!ScanFoundBusy, B!Connected, B!Discovered, B!Disconnected,
   B!NotifyAnswer, B!NotifyLate, B!LinkDown, B!CreateFails, B!ConnectFailed,
   B!DiscoveryFails, B!SubscribeRefused, B!LinkLost, B!AnswerLost, B!appVars

\* Every step keeps them together.
LEMMA PlaceStep ==
  ASSUME PlaceInv, [Next]_vars
  PROVE  PlaceInv'
<1>1. CASE Start \/ StartFails
  BY <1>1 DEF Start, StartFails, InUpdater, centralVars, PlaceInv, Connecting, InSession, Updating,
       U!InitializeConfirmed, U!ConfirmImage, U!InitializeFails, U!ConfirmFails, U!Goto, U!Jump,
       U!slotVars
<1>2. CASE StartCheck
  BY <1>2 DEF StartCheck, B!StartCheck, U!PressButton, U!Goto, U!Jump,
       PlaceInv, Connecting, InSession, Updating
<1>3. CASE Callback \/ TransportFault \/ Press
  <2>1. UNCHANGED updaterVars
    BY <1>3 DEF Callback, TransportFault, Press, InCentral
  <2>2. bpc' \in {bpc, "crashed"}
    BY <1>3, BesideThread
  <2>3. CASE upc # "boot"
    BY <2>1, <2>2, <2>3, PlaceCentral
  <2>4. CASE upc = "boot"
    <3>1. ~scanning /\ link = "down"
      BY <2>4 DEF PlaceInv
    <3>2. UNCHANGED <<bpc, scanning, link>>
      BY <1>3, <2>4, <3>1 DEF Callback, TransportFault, Press, InCentral, B!Callback, B!PressButton,
         B!ScanFound, B!ScanFoundBusy, B!Connected, B!Discovered, B!Disconnected,
         B!NotifyAnswer, B!NotifyLate, B!LinkDown, B!CreateFails, B!ConnectFailed,
         B!DiscoveryFails, B!SubscribeRefused, B!LinkLost, B!AnswerLost, B!appVars, B!connVars
    <3>3. QED
      BY <2>1, <3>2, PlaceCentral
  <2>5. QED
    BY <2>3, <2>4
<1>4. CASE Connect \/ Scan \/ HangUp
  BY <1>4, PlaceCentral DEF Connect, Scan, HangUp, InCentral
<1>5. CASE Send \/ MoreExchanges
  BY <1>5, PlaceCentral DEF Send, MoreExchanges, InCentral
<1>6. CASE ScanEndsInVain \/ ConnectFails
  <2>1. bpc' = "idle" /\ upc' = "idle"
    BY <1>6 DEF ScanEndsInVain, ConnectFails, NoConnection, U!ConnectFails, U!InformLost,
       U!Goto, U!Jump, B!ScanRefused, B!ScanFails, B!ScanNotStarted, B!ReadyTimeout,
       B!ReadyTimeoutEarly, B!GiveUpReady, B!Goto
  <2>2. QED
    BY <2>1 DEF PlaceInv, Connecting, InSession, Updating
<1>7. CASE Answered
  <2>1. /\ upc' \in {"update", "idle", "download", "request"}
        /\ bpc' = IF upc' = "idle" THEN "hangup" ELSE "session"
    BY <1>7 DEF Answered, Succeeds, U!InformBackend, U!FetchTarget, U!DownloadInit,
       U!GetChunk, U!DownloadFinish, U!Goto, U!Jump
  <2>2. QED
    BY <2>1 DEF PlaceInv, Connecting, InSession, Updating
<1>8. CASE AnswerRefused \/ NotAnswered \/ NotSent \/ SendFails
  <2>1. bpc' = "hangup"
    BY <1>8 DEF AnswerRefused, NotAnswered, NotSent, SendFails, B!AnswerTimeout,
       B!SendNotConnected, B!SendWriteClosing, B!SendWriteFails, B!Goto, B!Jump
  <2>2. upc' = "idle"
    BY <1>8 DEF AnswerRefused, NotAnswered, NotSent, SendFails, GivesUp, U!InformBackend,
       U!InformLost, U!FetchFails, U!DownloadInitFails, U!DownloadFinishFails,
       U!GetChunkFails, U!Goto, U!Jump
  <2>3. QED
    BY <2>1, <2>2 DEF PlaceInv, Connecting, InSession, Updating
<1>9. CASE Flash \/ RequestFails
  BY <1>9 DEF Flash, RequestFails, InUpdater, centralVars, PlaceInv, Connecting, InSession, Updating,
       U!UseCachedTarget, U!EraseSlot, U!FlushSlot, U!RequestUpgrade, U!RequestUpgradeFails,
       U!Goto, U!Jump
<1>10. CASE NothingToDo \/ FlashFails
  <2>1. bpc' = "hangup" /\ upc' = "idle"
    BY <1>10 DEF NothingToDo, FlashFails, B!SessionEnds, B!Goto, B!Jump, U!NotRequired,
       U!EraseSlotFails, U!FlushFails, U!Goto, U!Jump
  <2>2. QED
    BY <2>1 DEF PlaceInv, Connecting, InSession, Updating
<1>11. CASE Reboot \/ PowerLoss
  BY <1>11 DEF Reboot, PowerLoss, Restart, U!Reboot, U!PowerLoss, U!Reset,
       PlaceInv, Connecting, InSession, Updating
<1>12. CASE SetTarget
  <2>1. UNCHANGED <<bpc, scanning, link, upc, confirmed, Asking>>
    BY <1>12 DEF SetTarget, InUpdater, centralVars, U!SetTarget, U!slotVars, U!ramVars,
       Asking, U!CachedTarget
  <2>2. QED
    BY <2>1 DEF PlaceInv
<1>13. CASE UNCHANGED vars
  BY <1>13, PlaceCentral DEF vars, centralVars
<1>14. QED
  BY <1>1, <1>2, <1>3, <1>4, <1>5, <1>6, <1>7, <1>8, <1>9, <1>10, <1>11, <1>12, <1>13
  DEF Next, Thread, Fault

\* An update never outlives its session and never waits for a request that nobody
\* sent: in every interleaving of the thread with the callbacks, whatever fails.
THEOREM UpdateSafe == Spec => []UpdateInSession
<1>1. Init => PlaceInv
  BY DEF Init, U!Init, B!Init, PlaceInv, Connecting, InSession, Updating
<1>2. PlaceInv /\ [Next]_vars => PlaceInv'
  BY PlaceStep
<1>3. PlaceInv => UpdateInSession
  BY DEF PlaceInv, UpdateInSession, Connecting, InSession, Updating
<1>4. QED
  BY <1>1, <1>2, <1>3, PTL DEF Spec

----------------------------------------------------------------------------
(* The board implements its central, boot after boot                       *)

\* The central again, now with its theorems.
BP == INSTANCE BleCentralProofs WITH pc <- bpc, LateAnswers <- FALSE, MaxLate <- 1

\* A step of the one is a step of the other.
LEMMA SameCentral == B!Next => BP!Next
<1>1. ASSUME B!StartCheck \/ B!AlreadyConnected \/ B!NotConnected \/ B!StartScan \/
          B!ScanRefused \/ B!TakeReady \/ B!ReadyTimeout
      PROVE  BP!Next
  BY <1>1 DEF BP!Next, BP!App,
      B!StartCheck, BP!StartCheck, B!AlreadyConnected, BP!AlreadyConnected,
      B!NotConnected, BP!NotConnected, B!StartScan, BP!StartScan,
      B!ScanRefused, BP!ScanRefused, B!TakeReady, BP!TakeReady,
      B!ReadyTimeout, BP!ReadyTimeout, B!ScanNotStarted, BP!ScanNotStarted,
      B!GiveUpReady, BP!GiveUpReady, B!ConnectUnderway, BP!ConnectUnderway,
      B!Jump, BP!Jump, B!Goto, BP!Goto, B!appVars, BP!appVars,
      B!connVars, BP!connVars, B!gattVars, BP!gattVars, B!respVars, BP!respVars
<1>2. ASSUME B!SendNotConnected \/ B!SendPrepare \/ B!SendWrite \/
          B!SendWriteClosing \/ B!SendAsserts \/ B!TakeAnswer \/ B!AnswerTimeout
      PROVE  BP!Next
  BY <1>2 DEF BP!Next, BP!App,
      B!SendNotConnected, BP!SendNotConnected, B!SendPrepare, BP!SendPrepare,
      B!SendWrite, BP!SendWrite, B!SendWriteClosing, BP!SendWriteClosing,
      B!SendAsserts, BP!SendAsserts, B!TakeAnswer, BP!TakeAnswer,
      B!AnswerTimeout, BP!AnswerTimeout, B!GiveUpAnswer, BP!GiveUpAnswer,
      B!Jump, BP!Jump, B!Goto, BP!Goto, B!appVars, BP!appVars,
      B!connVars, BP!connVars, B!gattVars, BP!gattVars, B!respVars, BP!respVars
<1>3. ASSUME B!KeepLink \/ B!SeeLink \/ B!Disconnect \/ B!DisconnectAsserts \/
          B!PressButton
      PROVE  BP!Next
  BY <1>3 DEF BP!Next, BP!App,
      B!KeepLink, BP!KeepLink, B!SeeLink, BP!SeeLink, B!Disconnect, BP!Disconnect,
      B!DisconnectAsserts, BP!DisconnectAsserts, B!PressButton, BP!PressButton,
      B!Settled, BP!Settled, B!Jump, BP!Jump, B!Goto, BP!Goto, B!appVars, BP!appVars,
      B!connVars, BP!connVars, B!gattVars, BP!gattVars, B!respVars, BP!respVars
<1>4. ASSUME bpc # "crashed",
             B!ScanFound \/ B!ScanFoundBusy \/ B!Connected \/ B!Discovered \/
          B!Disconnected \/ B!NotifyAnswer \/ B!NotifyLate
      PROVE  BP!Next
  BY <1>4 DEF BP!Next, BP!Callback,
      B!ScanFound, BP!ScanFound, B!ScanFoundBusy, BP!ScanFoundBusy,
      B!Connected, BP!Connected, B!Discovered, BP!Discovered,
      B!Disconnected, BP!Disconnected, B!NotifyAnswer, BP!NotifyAnswer,
      B!NotifyLate, BP!NotifyLate, B!LinkDown, BP!LinkDown, B!Jump, BP!Jump,
      B!Goto, BP!Goto, B!appVars, BP!appVars, B!connVars, BP!connVars,
      B!gattVars, BP!gattVars, B!respVars, BP!respVars
<1>5. ASSUME bpc # "crashed",
             B!ReadyTimeoutEarly \/ B!SendWriteFails \/ B!AnswerOverdue \/
          B!ScanFails \/ B!CreateFails
      PROVE  BP!Next
  BY <1>5 DEF BP!Next, BP!Fault,
      B!ReadyTimeoutEarly, BP!ReadyTimeoutEarly, B!SendWriteFails, BP!SendWriteFails,
      B!AnswerOverdue, BP!AnswerOverdue, B!ScanFails, BP!ScanFails,
      B!CreateFails, BP!CreateFails, B!GiveUpReady, BP!GiveUpReady,
      B!ConnectUnderway, BP!ConnectUnderway, B!GiveUpAnswer, BP!GiveUpAnswer,
      B!ScanNotStarted, BP!ScanNotStarted, B!Jump, BP!Jump, B!Goto, BP!Goto,
      B!appVars, BP!appVars, B!connVars, BP!connVars, B!gattVars, BP!gattVars,
      B!respVars, BP!respVars
<1>6. ASSUME bpc # "crashed",
             B!ConnectFailed \/ B!DiscoveryFails \/ B!SubscribeRefused \/ B!LinkLost \/
          B!AnswerLost \/ B!SessionEnds
      PROVE  BP!Next
  BY <1>6 DEF BP!Next, BP!Fault,
      B!ConnectFailed, BP!ConnectFailed, B!DiscoveryFails, BP!DiscoveryFails,
      B!SubscribeRefused, BP!SubscribeRefused, B!LinkLost, BP!LinkLost,
      B!AnswerLost, BP!AnswerLost,
      B!SessionEnds, BP!SessionEnds, B!LinkDown, BP!LinkDown, B!Jump, BP!Jump,
      B!Goto, BP!Goto, B!appVars, BP!appVars, B!connVars, BP!connVars,
      B!gattVars, BP!gattVars, B!respVars, BP!respVars
<1>7. QED
  BY <1>1, <1>2, <1>3, <1>4, <1>5, <1>6 DEF B!Next, B!App, B!Callback, B!Fault

\* Each step of the board is a step of the central, leaves it alone or is a reset,
\* after which the central is as at a start.
LEMMA StepImplementsCentral ==
  ASSUME [Next]_vars
  PROVE  [B!Next]_centralVars \/ Restart
<1> USE DEF InUpdater, InCentral, B!Next, B!App, B!Fault
<1>1. CASE Start \/ StartFails \/ Flash \/ RequestFails \/ SetTarget
  BY <1>1 DEF Start, StartFails, Flash, RequestFails, SetTarget
<1>2. CASE StartCheck \/ Connect \/ Scan \/ HangUp
  BY <1>2 DEF StartCheck, Connect, Scan, HangUp
<1>3. CASE Callback \/ TransportFault \/ Press
  BY <1>3 DEF Callback, TransportFault, Press
<1>4. CASE ScanEndsInVain \/ ConnectFails
  <2>1. bpc # "crashed"
    BY <1>4 DEF ScanEndsInVain, ConnectFails, B!ScanRefused, B!ReadyTimeout, B!ScanFails,
       B!ScanNotStarted, B!ReadyTimeoutEarly, B!GiveUpReady, B!Goto
  <2>2. QED
    BY <1>4, <2>1 DEF ScanEndsInVain, ConnectFails
<1>5. CASE Send \/ Answered \/ AnswerRefused \/ MoreExchanges \/ NotAnswered
  BY <1>5 DEF Send, Answered, AnswerRefused, MoreExchanges, NotAnswered
<1>6. CASE NotSent \/ SendFails \/ NothingToDo \/ FlashFails
  <2>1. bpc # "crashed"
    BY <1>6 DEF NotSent, SendFails, NothingToDo, FlashFails, B!SendNotConnected,
       B!SendWriteClosing, B!SendWriteFails, B!SessionEnds, B!Jump, B!Goto
  <2>2. QED
    BY <1>6, <2>1 DEF NotSent, SendFails, NothingToDo, FlashFails
<1>7. CASE Reboot \/ PowerLoss
  BY <1>7 DEF Reboot, PowerLoss
<1>8. CASE UNCHANGED vars
  BY <1>8 DEF vars
<1>9. QED
  BY <1>1, <1>2, <1>3, <1>4, <1>5, <1>6, <1>7, <1>8 DEF Next, Thread, Fault

\* What the theorems about the central rest on.
CentralInv == BP!TypeOK /\ BP!RefsInv /\ BP!AnswerInv

\* A start and a reset establish it.
LEMMA CentralFresh ==
  /\ Init => CentralInv
  /\ Restart => CentralInv'
<1> USE DEF CentralInv, BP!RefsInv, BP!RefsBalanced, BP!AnswerInv, BP!TypeOK
<1>1. Init => CentralInv
  <2>1. Init => BP!FlagsOK
    BY Zenon DEF Init, B!Init, BP!FlagsOK
  <2>2. QED
    BY <2>1 DEF Init, B!Init
<1>2. Restart => CentralInv'
  <2>1. Restart => BP!FlagsOK'
    BY Zenon DEF Restart, BP!FlagsOK
  <2>2. QED
    BY <2>1 DEF Restart
<1>3. QED
  BY <1>1, <1>2

\* Every step of the board keeps it.
LEMMA CentralKept ==
  ASSUME CentralInv, [Next]_vars
  PROVE  CentralInv'
<1>1. CASE Restart
  BY <1>1, CentralFresh
<1>2. CASE [B!Next]_centralVars
  <2>1. [BP!Next]_BP!vars
    BY <1>2, SameCentral DEF centralVars, BP!vars, BP!appVars, BP!connVars, BP!gattVars,
       BP!respVars
  <2>2. {FALSE, LinkFaults, ConnectFaults, EagerPress} \subseteq BOOLEAN /\ 1 \in Nat \ {0}
    BY NrfAssumption
  <2>3. BP!TypeOK'
    BY <2>1, <2>2, BP!TypeStep DEF CentralInv
  <2>4. BP!RefsInv' /\ BP!AnswerInv'
    BY <2>1, <2>2, BP!RefsStep, BP!AnswerStep DEF CentralInv
  <2>5. QED
    BY <2>3, <2>4 DEF CentralInv
<1>3. QED
  BY <1>1, <1>2, StepImplementsCentral

\* It holds in every state of the board.
LEMMA CentralAlways == Spec => []CentralInv
<1>1. Init => CentralInv
  BY CentralFresh
<1>2. CentralInv /\ [Next]_vars => CentralInv'
  BY CentralKept
<1>3. QED
  BY <1>1, <1>2, PTL DEF Spec

\* On the board, whatever the updater does with the session and whenever it resets: the
\* references balance, and a request that succeeds has got its own answer, as long as no
\* answer is overdue (NrfDevice has none).
THEOREM BoardTransportSafe == Spec => [](B!RefsBalanced /\ B!RightAnswer)
<1>1. CentralInv => B!RefsBalanced /\ B!RightAnswer
  BY DEF CentralInv, BP!RefsInv, BP!RefsBalanced, B!RefsBalanced, BP!AnswerInv, B!RightAnswer
<1>2. QED
  BY <1>1, CentralAlways, PTL

\* The board, with resets at any time, is stopped by a failed assertion of the Bluetooth
\* host only in one of the four moments of Gentle: a check that starts on a link that
\* is still changing, a link that breaks between two reads of ble_conn, a discovery that
\* fails without the characteristic, an attempt to connect that fails.  Nothing the
\* updater does, and no reset, opens another one.
THEOREM BoardCrashWindows ==
  Spec /\ [][BP!Gentle]_vars => [](bpc # "crashed")
<1>1. Init => BP!WindowInv
  BY DEF Init, B!Init, BP!WindowInv, BP!Settled
<1>2. ASSUME CentralInv, BP!WindowInv, [Next]_vars, [BP!Gentle]_vars
      PROVE  BP!WindowInv'
  <2>1. CASE Restart
    BY <2>1 DEF Restart, BP!WindowInv, BP!Settled
  <2>2. CASE UNCHANGED vars
    BY <1>2, <2>2 DEF vars, centralVars, BP!WindowInv, BP!Settled
  <2>3. CASE BP!Gentle /\ [B!Next]_centralVars
    <3>1. [BP!Next]_BP!vars
      BY <2>3, SameCentral DEF centralVars, BP!vars, BP!appVars, BP!connVars,
         BP!gattVars, BP!respVars
    <3>2. {FALSE, LinkFaults, ConnectFaults, EagerPress} \subseteq BOOLEAN /\ 1 \in Nat \ {0}
      BY NrfAssumption
    <3>3. QED
      BY <1>2, <2>3, <3>1, <3>2, BP!WindowStep DEF CentralInv
  <2>4. QED
    BY <1>2, <2>1, <2>2, <2>3, StepImplementsCentral
<1>3. BP!WindowInv => bpc # "crashed"
  BY DEF BP!WindowInv
<1>4. QED
  BY <1>1, <1>2, <1>3, CentralAlways, PTL DEF Spec

----------------------------------------------------------------------------
(* A check ends on the board                                               *)

\* How many steps of the thread the place in the central leaves at most.
CentralRank == CASE bpc = "connect"    -> 8
                 [] bpc = "scan"       -> 7
                 [] bpc = "waitReady"  -> 6
                 [] bpc = "session"    -> 5
                 [] bpc = "write"      -> 4
                 [] bpc = "waitAnswer" -> 3
                 [] bpc = "hangup"     -> 2
                 [] bpc = "disconnect" -> 1
                 [] OTHER              -> 0

\* A step of the updater is worth a whole exchange.
BoardRank == 9 * UP!Rank + CentralRank

\* So it weighs more than what the central loses with it.
LEMMA Outweighs ==
  ASSUME NEW p \in Nat, NEW q \in Nat, NEW c \in 0..8, NEW d \in 0..8,
         q < p \/ (q = p /\ d < c)
  PROVE  9 * q + d < 9 * p + c
OBVIOUS

\* And what the central loses alone makes nothing heavier.
LEMMA NoHeavier ==
  ASSUME NEW p \in Nat, NEW q \in Nat, NEW c \in 0..8, NEW d \in 0..8,
         q = p /\ d <= c
  PROVE  9 * q + d <= 9 * p + c
OBVIOUS

\* Steps of the updater, other than a press, a reset and the owner's, bring it on.
LEMMA UpdaterMoves ==
  ASSUME UP!TypeOK,
         \/ U!InitializeConfirmed \/ U!InitializeFails \/ U!ConfirmImage \/ U!ConfirmFails
         \/ U!InformBackend \/ U!InformLost \/ U!ConnectFails
         \/ U!UseCachedTarget \/ U!FetchTarget \/ U!FetchFails
         \/ U!NotRequired \/ U!EraseSlot \/ U!EraseSlotFails
         \/ U!DownloadInit \/ U!DownloadInitFails \/ U!GetChunk \/ U!GetChunkFails
         \/ U!FlushSlot \/ U!FlushFails \/ U!DownloadFinish \/ U!DownloadFinishFails
         \/ U!RequestUpgrade \/ U!RequestUpgradeFails
  PROVE  UP!Rank' < UP!Rank
<1>1. UP!Next
  BY SameNext DEF U!Next
<1>2. upc # "idle" /\ upc' # "boot"
  <2>1. CASE U!InitializeConfirmed \/ U!InitializeFails \/ U!ConfirmImage \/ U!ConfirmFails
             \/ U!InformBackend \/ U!InformLost \/ U!ConnectFails
    BY <2>1 DEF U!InitializeConfirmed, U!InitializeFails, U!ConfirmImage, U!ConfirmFails,
       U!InformBackend, U!InformLost, U!ConnectFails, U!Goto, U!Jump
  <2>2. CASE U!UseCachedTarget \/ U!FetchTarget \/ U!FetchFails
             \/ U!NotRequired \/ U!EraseSlot \/ U!EraseSlotFails
    BY <2>2 DEF U!UseCachedTarget, U!FetchTarget, U!FetchFails, U!NotRequired, U!EraseSlot,
       U!EraseSlotFails, U!Goto, U!Jump
  <2>3. CASE U!DownloadInit \/ U!DownloadInitFails \/ U!GetChunk \/ U!GetChunkFails
             \/ U!FlushSlot \/ U!FlushFails \/ U!DownloadFinish \/ U!DownloadFinishFails
             \/ U!RequestUpgrade \/ U!RequestUpgradeFails
    BY <2>3 DEF U!DownloadInit, U!DownloadInitFails, U!GetChunk, U!GetChunkFails, U!FlushSlot,
       U!FlushFails, U!DownloadFinish, U!DownloadFinishFails, U!RequestUpgrade,
       U!RequestUpgradeFails, U!Goto, U!Jump
  <2>4. QED
    BY <2>1, <2>2, <2>3
<1>3. upc' # upc \/ got' # got
  <2>1. CASE U!InitializeConfirmed \/ U!InitializeFails \/ U!ConfirmImage \/ U!ConfirmFails
             \/ U!InformBackend \/ U!InformLost \/ U!ConnectFails
    BY <2>1 DEF U!InitializeConfirmed, U!InitializeFails, U!ConfirmImage, U!ConfirmFails,
       U!InformBackend, U!InformLost, U!ConnectFails, U!Goto, U!Jump
  <2>2. CASE U!UseCachedTarget \/ U!FetchTarget \/ U!FetchFails
             \/ U!NotRequired \/ U!EraseSlot \/ U!EraseSlotFails
    BY <2>2 DEF U!UseCachedTarget, U!FetchTarget, U!FetchFails, U!NotRequired, U!EraseSlot,
       U!EraseSlotFails, U!Goto, U!Jump
  <2>3. CASE U!DownloadInit \/ U!DownloadInitFails \/ U!GetChunkFails
             \/ U!FlushSlot \/ U!FlushFails \/ U!DownloadFinish \/ U!DownloadFinishFails
             \/ U!RequestUpgrade \/ U!RequestUpgradeFails
    BY <2>3 DEF U!DownloadInit, U!DownloadInitFails, U!GetChunkFails, U!FlushSlot,
       U!FlushFails, U!DownloadFinish, U!DownloadFinishFails, U!RequestUpgrade,
       U!RequestUpgradeFails, U!Goto, U!Jump
  <2>4. CASE U!GetChunk
    <3>1. got \in Nat
      BY NrfAssumption DEF UP!TypeOK
    <3>2. QED
      BY <2>4, <3>1 DEF U!GetChunk
  <2>5. QED
    BY <2>1, <2>2, <2>3, <2>4
<1>4. ~UP!PressButton /\ ~UP!Reset /\ ~UP!SetTarget /\ ~UNCHANGED UP!vars
  BY <1>2, <1>3 DEF UP!PressButton, UP!Jump, UP!Goto, UP!Reset, UP!SetTarget, UP!vars, UP!ramVars
<1>5. QED
  BY <1>1, <1>4, UP!RankStep, NrfAssumption

\* What a check of the updater and its central count to.
BoardRanks == UP!Rank \in 0..(NumChunks + 6) /\ CentralRank \in 0..8

\* A step of the thread that is not the last: it brings the updater on, or the central
\* while the updater waits.
LEMMA BoardMoves ==
  ASSUME UP!TypeOK,
         Thread \/ Fault,
         ~StartCheck, ~MoreExchanges, ~Reboot, ~PowerLoss, ~TransportFault
  PROVE  UP!Rank' < UP!Rank \/ (UP!Rank' = UP!Rank /\ CentralRank' < CentralRank)
<1>1. CASE Start \/ StartFails \/ Flash \/ RequestFails
  BY <1>1, UpdaterMoves DEF Start, StartFails, Flash, RequestFails, InUpdater
<1>2. CASE ScanEndsInVain \/ ConnectFails
  BY <1>2, UpdaterMoves DEF ScanEndsInVain, ConnectFails, NoConnection
<1>3. CASE Answered
  BY <1>3, UpdaterMoves DEF Answered, Succeeds
<1>4. CASE AnswerRefused \/ NotAnswered \/ NotSent \/ SendFails
  BY <1>4, UpdaterMoves DEF AnswerRefused, NotAnswered, NotSent, SendFails, GivesUp
<1>5. CASE NothingToDo \/ FlashFails
  BY <1>5, UpdaterMoves DEF NothingToDo, FlashFails
<1>6. CASE Connect \/ Scan \/ Send \/ HangUp
  <2>1. UNCHANGED UP!Rank
    BY <1>6 DEF Connect, Scan, Send, HangUp, InCentral, updaterVars, UP!Rank
  <2>2. CASE Connect \/ Scan
    BY <2>1, <2>2 DEF Connect, Scan, InCentral, B!AlreadyConnected, B!NotConnected, B!StartScan,
       B!TakeReady, B!Goto, B!Jump, CentralRank
  <2>3. CASE Send
    BY <2>1, <2>3 DEF Send, InCentral, B!SendPrepare, B!SendWrite, B!SendAsserts, B!Goto, B!Jump,
       CentralRank
  <2>4. CASE HangUp
    BY <2>1, <2>4 DEF HangUp, InCentral, B!KeepLink, B!SeeLink, B!Disconnect, B!DisconnectAsserts,
       B!Goto, B!Jump, CentralRank
  <2>5. QED
    BY <1>6, <2>2, <2>3, <2>4
<1>7. QED
  BY <1>1, <1>2, <1>3, <1>4, <1>5, <1>6 DEF Thread, Fault

\* The callbacks, the link, the finger and the owner leave the thread where it is, or a
\* failed assertion stops the board.
LEMMA BoardStays ==
  ASSUME Callback \/ TransportFault \/ Press \/ SetTarget
  PROVE  /\ UNCHANGED UP!Rank
         /\ CentralRank' \in {CentralRank, 0}
<1>1. UNCHANGED <<upc, got>> /\ bpc' \in {bpc, "crashed"}
  <2>1. CASE Callback \/ TransportFault \/ Press
    BY <2>1, BesideThread DEF Callback, TransportFault, Press, InCentral, updaterVars
  <2>2. CASE SetTarget
    BY <2>2 DEF SetTarget, InUpdater, centralVars, U!SetTarget, U!ramVars
  <2>3. QED
    BY <2>1, <2>2
<1>2. QED
  BY <1>1 DEF UP!Rank, CentralRank

\* A check, the connection and every exchange included, is over after a bounded number
\* of steps of its thread, for images of every size, unless the SDK itself goes on
\* asking in one call: no failure leads back to where the check has been, and nothing
\* that happens beside the thread takes it back.
THEOREM BoardCheckEnds ==
  Spec => /\ [](BoardRank \in 0..(9 * NumChunks + 62))
          /\ [][\/ StartCheck \/ MoreExchanges \/ Reboot \/ PowerLoss
                \/ (Callback \/ TransportFault \/ Press \/ SetTarget) /\ BoardRank' <= BoardRank
                \/ BoardRank' < BoardRank]_vars
<1>1. ASSUME UP!TypeOK
      PROVE  BoardRanks
  <2>1. got \in 0..NumChunks
    BY <1>1 DEF UP!TypeOK
  <2>2. NumChunks - got \in 0..NumChunks
    BY <2>1, NrfAssumption
  <2>3. UP!Rank \in 0..(NumChunks + 6)
    BY <2>2, NrfAssumption DEF UP!Rank
  <2>4. CentralRank \in 0..8
    BY DEF CentralRank
  <2>5. QED
    BY <2>3, <2>4 DEF BoardRanks
<1>2. BoardRanks => BoardRank \in 0..(9 * NumChunks + 62)
  BY NrfAssumption DEF BoardRanks, BoardRank
<1>3. ASSUME UP!TypeOK, BoardRanks, BoardRanks', [Next]_vars, ~UNCHANGED vars
      PROVE  \/ StartCheck \/ MoreExchanges \/ Reboot \/ PowerLoss
             \/ (Callback \/ TransportFault \/ Press \/ SetTarget) /\ BoardRank' <= BoardRank
             \/ BoardRank' < BoardRank
  <2>1. CASE StartCheck \/ MoreExchanges \/ Reboot \/ PowerLoss
    BY <2>1
  <2>2. CASE Callback \/ TransportFault \/ Press \/ SetTarget
    <3>1. UP!Rank \in Nat /\ CentralRank \in 0..8
      BY <1>3, NrfAssumption DEF BoardRanks
    <3>2. UP!Rank' = UP!Rank /\ CentralRank' \in {CentralRank, 0}
      BY <2>2, BoardStays
    <3>3. BoardRank' <= BoardRank
      <4>1. UP!Rank' \in Nat /\ CentralRank' \in 0..8 /\ CentralRank' <= CentralRank
        BY <3>1, <3>2
      <4>2. QED
        BY <3>1, <3>2, <4>1, NoHeavier DEF BoardRank
    <3>4. QED
      BY <2>2, <3>3
  <2>3. CASE /\ Thread \/ Fault
             /\ ~StartCheck /\ ~MoreExchanges /\ ~Reboot /\ ~PowerLoss /\ ~TransportFault
    <3>1. /\ UP!Rank \in Nat /\ CentralRank \in 0..8
          /\ UP!Rank' \in Nat /\ CentralRank' \in 0..8
      BY <1>3, NrfAssumption DEF BoardRanks
    <3>2. UP!Rank' < UP!Rank \/ (UP!Rank' = UP!Rank /\ CentralRank' < CentralRank)
      BY <1>3, <2>3, BoardMoves
    <3>3. BoardRank' < BoardRank
      BY <3>1, <3>2, Outweighs DEF BoardRank
    <3>4. QED
      BY <3>3
  <2>4. QED
    BY <1>3, <2>1, <2>2, <2>3 DEF Next
<1>4. Spec => []UP!TypeOK
  <2>1. Spec => U!Spec
    BY ImplementsUpdater
  <2>2. UP!Spec => []UP!TypeOK
    BY UP!TypeCorrect, NrfAssumption
  <2>3. QED
    BY <2>1, <2>2, SameSpec, PTL
<1>5. QED
  BY <1>1, <1>2, <1>3, <1>4, PTL DEF Spec
=============================================================================
