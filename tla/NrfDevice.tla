------------------------------ MODULE NrfDevice ------------------------------
(***************************************************************************)
(* The nrf5340dk board as a whole: the updater of StreamUpdater (U) over   *)
(* the Bluetooth central of BleCentral (B).                                *)
(*                                                                         *)
(* One thread is in both.  It is in the updater while the central has a    *)
(* session, and in the central while the updater waits for a connection or *)
(* for the SDK to return from an exchange with the backend.  So a step of  *)
(* the thread is a step of one of them, or the step of both in which       *)
(* scan_and_connect or a call of the SDK returns to the updater.  The SDK  *)
(* is outside the repository: a call of it that needs the backend is one   *)
(* exchange, or several (MoreExchanges).                                   *)
(*                                                                         *)
(* Overdue answers are left out: the board does not recover from them, see *)
(* Recovers in BleCentral.                                                 *)
(***************************************************************************)
EXTENDS Naturals

CONSTANTS
  MaxVersion, NumChunks,                  (* of StreamUpdater              *)
  LinkFaults, ConnectFaults, EagerPress   (* of BleCentral                 *)

ASSUME NrfAssumption == /\ MaxVersion \in Nat \ {0}
                        /\ NumChunks  \in Nat \ {0}
                        /\ {LinkFaults, ConnectFaults, EagerPress} \subseteq BOOLEAN

VARIABLES
  primary, confirmed, pending, slot1,         (* U: the slots               *)
  desired, got, buf,                          (* U: RAM of the updater      *)
  upc,                                        (* U: where the thread is     *)
  target, reported,                           (* U: the backend             *)
  bpc, job, pressed,                          (* B: the thread, the button  *)
  scanning, link, closing, bleConn, refs,     (* B: the connection          *)
  discovery, handle, subscribed, refused,     (* B: GATT                    *)
  ready, token, inbuf, answer, late           (* B: semaphores and buffers  *)

updaterVars == <<primary, confirmed, pending, slot1, desired, got, buf, upc, target, reported>>
centralVars == <<bpc, job, pressed, scanning, link, closing, bleConn, refs, discovery,
                 handle, subscribed, refused, ready, token, inbuf, answer, late>>
vars == <<updaterVars, centralVars>>

U == INSTANCE StreamUpdater WITH pc <- upc
B == INSTANCE BleCentral WITH pc <- bpc, LateAnswers <- FALSE, MaxLate <- 1

Init == U!Init /\ B!Init /\ job = "check"

InUpdater(A) == A /\ UNCHANGED centralVars
InCentral(A) == A /\ UNCHANGED updaterVars

----------------------------------------------------------------------------
(* Start                                                                   *)

\* The button is armed when firmware_updater_initialize has returned.
Press == upc \notin {"boot", "halted"} /\ InCentral(B!PressButton)

Start == InUpdater(U!InitializeConfirmed \/ U!ConfirmImage)

StartFails == InUpdater(U!InitializeFails \/ U!ConfirmFails)

\* firmware_check begins.
StartCheck == B!StartCheck /\ U!PressButton

----------------------------------------------------------------------------
(* Connect                                                                 *)

\* firmware_updater_initialize and firmware_check call scan_and_connect.
Connect == /\ upc \in {"report", "check"}
           /\ InCentral(B!AlreadyConnected \/ B!NotConnected)

Scan == InCentral(B!StartScan \/ B!TakeReady)

\* Mutant: the result of scan_and_connect is not looked at.
NoConnectionIgnored == UNCHANGED updaterVars

\* It returned false.
NoConnection == U!ConnectFails \/ U!InformLost

ScanEndsInVain == (B!ScanRefused \/ B!ReadyTimeout) /\ NoConnection
ConnectFails == (B!ScanFails \/ B!ReadyTimeoutEarly) /\ NoConnection

----------------------------------------------------------------------------
(* Exchanges with the backend                                              *)

\* The updater is in a call of the SDK that needs the backend.
Asking == \/ upc \in {"report", "erased", "finish"}
          \/ upc = "check" /\ ~U!CachedTarget
          \/ upc = "download" /\ got < NumChunks

Send == \/ Asking /\ InCentral(B!SendPrepare)
        \/ InCentral(B!SendWrite \/ B!SendAsserts)

\* The call returns; when the update or the report ends with it, so does the session.
Succeeds == /\ U!InformBackend \/ U!FetchTarget \/ U!DownloadInit \/ U!GetChunk \/ U!DownloadFinish
            /\ bpc' = IF upc' = "idle" THEN "hangup" ELSE "session"

\* The call returns an error.
GivesUp == \/ U!InformLost \/ U!FetchFails \/ U!DownloadInitFails \/ U!DownloadFinishFails
           \/ U!GetChunkFails

Answered == B!TakeAnswer /\ Succeeds

\* The SDK does not accept what came, or slot1 does not take the chunk.
AnswerRefused == B!TakeAnswer /\ bpc' = "hangup" /\ GivesUp

\* The SDK asks again before it returns, or it delivers a chunk of size 0.
MoreExchanges == bpc' = "session" /\ InCentral(B!TakeAnswer)

\* No answer within 5 s; a report may have reached the backend all the same.
NotAnswered == B!AnswerTimeout /\ (GivesUp \/ U!InformBackend)

NotSent == /\ \/ Asking /\ B!SendNotConnected
              \/ B!SendWriteClosing
           /\ GivesUp

SendFails == B!SendWriteFails /\ GivesUp

----------------------------------------------------------------------------
(* What the updater does between exchanges, and the end of the session     *)

Flash == /\ bpc = "session"
         /\ InUpdater(U!UseCachedTarget \/ U!EraseSlot \/ U!FlushSlot \/ U!RequestUpgrade)

RequestFails == bpc = "session" /\ InUpdater(U!RequestUpgradeFails)

NothingToDo == B!SessionEnds /\ U!NotRequired
FlashFails == B!SessionEnds /\ (U!EraseSlotFails \/ U!FlushFails)

HangUp == InCentral(B!KeepLink \/ B!SeeLink \/ B!Disconnect \/ B!DisconnectAsserts)

----------------------------------------------------------------------------
(* The rest of the world                                                   *)

Callback == InCentral(B!Callback)

TransportFault == /\ bpc # "crashed"
                  /\ InCentral(\/ B!CreateFails \/ B!ConnectFailed
                               \/ B!DiscoveryFails \/ B!SubscribeRefused
                               \/ B!LinkLost \/ B!AnswerLost)

\* Nothing of the central survives a reset.  A board on trial is going to report.
Restart == /\ bpc' = (IF confirmed' THEN "idle" ELSE "connect")
           /\ job' = (IF confirmed' THEN "check" ELSE "report")
           /\ pressed' = 0 /\ scanning' = FALSE
           /\ link' = "down" /\ closing' = FALSE /\ bleConn' = FALSE /\ refs' = 0
           /\ discovery' = FALSE /\ handle' = FALSE
           /\ subscribed' = FALSE /\ refused' = FALSE
           /\ ready' = 0 /\ token' = 0 /\ inbuf' = "empty"
           /\ answer' = FALSE /\ late' = 0

Reboot == bpc # "crashed" /\ U!Reboot /\ Restart
PowerLoss == U!PowerLoss /\ Restart

SetTarget == InUpdater(U!SetTarget)

----------------------------------------------------------------------------
Thread == \/ Start \/ StartCheck \/ Connect \/ Scan \/ ScanEndsInVain
          \/ Send \/ Answered \/ NotAnswered \/ NotSent
          \/ Flash \/ NothingToDo \/ HangUp \/ Reboot

Fault == \/ StartFails \/ ConnectFails \/ AnswerRefused \/ MoreExchanges \/ SendFails
         \/ RequestFails \/ FlashFails \/ TransportFault \/ PowerLoss

Next == Thread \/ Callback \/ Fault \/ Press \/ SetTarget

Spec == Init /\ [][Next]_vars

\* The thread of the check and the Bluetooth receive thread run when they can, and
\* the button is pressed again and again.
FairSpec == Spec /\ WF_vars(Thread) /\ WF_vars(Callback) /\ WF_vars(Press)

----------------------------------------------------------------------------
(* Properties                                                              *)

\* An update lives and dies with its session: when the thread is back at the
\* button or hangs up, no update is half-way, and a request that is on its way is
\* one the updater waits for.
UpdateInSession ==
  /\ upc \in {"report", "check"} => bpc \notin {"idle", "hangup", "disconnect"}
  /\ upc \in {"update", "erased", "download", "finish", "request"}
       => bpc \in {"session", "write", "waitAnswer", "crashed"}
  /\ bpc \in {"write", "waitAnswer"} => Asking

\* Links that broke, attempts that failed, resets and failed updates leave nothing
\* behind, in RAM, in slot1 or in the Bluetooth host, that keeps the board from the
\* version its owner wants, if the owner only goes forward.
Forward == target = 0 \/ target >= primary
Stopped == upc = "halted" \/ bpc = "crashed"
Converges == \A v \in 1..MaxVersion :
               []Forward /\ <>[](target = v) /\ <>[][~Fault]_vars
                 => <>(primary = v \/ Stopped)
==============================================================================
