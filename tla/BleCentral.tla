----------------------------- MODULE BleCentral ------------------------------
(***************************************************************************)
(* The Bluetooth transport of the nrf5340dk board: a central that looks    *)
(* for the FIRMUPS gateway, sends a request by a GATT write and waits for  *)
(* the answer, a notification.                                             *)
(*                                                                         *)
(* Two threads share the file's static variables and two semaphores: the   *)
(* thread that runs firmware_check (button_action_thread, or main() for    *)
(* the report after an update) and the Bluetooth receive thread, which     *)
(* runs the callbacks.  The latter has the higher priority: a callback is  *)
(* one step, and it may come between any two steps of the former.          *)
(*                                                                         *)
(* The Bluetooth host is external.  It holds a reference on a connection   *)
(* object from bt_conn_le_create until it has told that the connection     *)
(* failed or ended.  It asserts what it is given (prj.conf has             *)
(* CONFIG_ASSERT=y): a NULL connection, a zero handle, or a reference that *)
(* is dropped although nobody holds it, stops the board ("crashed").       *)
(***************************************************************************)
EXTENDS Integers

CONSTANTS
  LateAnswers,    (* an answer may come after the 5 s the central waits    *)
  LinkFaults,     (* the link or the discovery may fail by themselves      *)
  ConnectFaults,  (* a scan or a connection attempt may fail               *)
  EagerPress,     (* the button is pressed while the link changes          *)
  MaxLate         (* overdue answers tracked at the same time              *)

ASSUME BleAssumption == /\ {LateAnswers, LinkFaults, ConnectFaults, EagerPress} \subseteq BOOLEAN
                        /\ MaxLate \in Nat \ {0}

VARIABLES
  pc,         (* where the thread that runs the check is                   *)
  job,        (* "report" from main(), or "check" from the button          *)
  pressed,    (* button_action_sem: 0 or 1                                 *)
  scanning,   (* the controller scans                                      *)
  link,       (* "down", "creating" or "up"                                *)
  closing,    (* bt_conn_disconnect was called, the link is still up       *)
  bleConn,    (* ble_conn is not NULL                                      *)
  refs,       (* reference count of the connection object                  *)
  discovery,  (* MTU exchange and GATT discovery run                       *)
  handle,     (* msg_char_handle is not 0                                  *)
  subscribed, (* bt_gatt_subscribe has asked for notifications on this link*)
  refused,    (* ... and the gateway has refused them                      *)
  ready,      (* ble_ready_sem: 0 or 1                                     *)
  token,      (* response_sem: 0 or 1                                      *)
  inbuf,      (* what g_response_buf holds for the current request         *)
  answer,     (* the gateway will answer the current request               *)
  late        (* answers to requests that are given up, still to come      *)

appVars  == <<pc, job, pressed>>
connVars == <<link, closing, bleConn, refs>>
gattVars == <<discovery, handle, subscribed, refused>>
respVars == <<token, inbuf, answer, late>>
vars == <<appVars, scanning, connVars, gattVars, ready, respVars>>

Goto(from, to) == pc = from /\ pc' = to /\ UNCHANGED <<job, pressed>>

\* A step of the check that touches none of what the callbacks touch.
Jump(from, to) == /\ Goto(from, to)
                  /\ UNCHANGED <<scanning, connVars, gattVars, ready, respVars>>

\* A board that just confirmed an update reports it, any other one waits.
Init == /\ \/ pc = "connect" /\ job = "report"
           \/ pc = "idle" /\ job = "check"
        /\ pressed = 0 /\ scanning = FALSE
        /\ link = "down" /\ closing = FALSE /\ bleConn = FALSE /\ refs = 0
        /\ discovery = FALSE /\ handle = FALSE /\ subscribed = FALSE /\ refused = FALSE
        /\ ready = 0 /\ token = 0 /\ inbuf = "empty"
        /\ answer = FALSE /\ late = 0

----------------------------------------------------------------------------
(* The button                                                              *)

Settled == ~closing /\ ~discovery /\ link # "creating"

\* The debounced press gives a semaphore that counts no further than 1; main()
\* arms the button after its report.
PressButton == /\ pc # "crashed"
               /\ EagerPress \/ (pc = "idle" /\ Settled)
               /\ job = "check" \/ pc = "idle"
               /\ pressed' = 1
               /\ UNCHANGED <<pc, job, scanning, connVars, gattVars, ready, respVars>>

StartCheck == /\ pc = "idle"
              /\ pressed = 1
              /\ pressed' = 0
              /\ pc' = "connect"
              /\ job' = "check"
              /\ UNCHANGED <<scanning, connVars, gattVars, ready, respVars>>

----------------------------------------------------------------------------
(* scan_and_connect                                                        *)

AlreadyConnected == bleConn /\ Jump("connect", "session")
NotConnected == ~bleConn /\ Jump("connect", "scan")

\* Mutant: a token that an earlier connection left is not thrown away.
ScanKeepsToken == /\ ~scanning
                  /\ Goto("scan", "waitReady")
                  /\ scanning' = TRUE
                  /\ UNCHANGED <<connVars, gattVars, ready, respVars>>

\* k_sem_reset and bt_le_scan_start, which refuses a second scan.
StartScan == /\ ~scanning
             /\ Goto("scan", "waitReady")
             /\ ready' = 0
             /\ scanning' = TRUE
             /\ UNCHANGED <<connVars, gattVars, respVars>>

\* The scan is not started: firmware_check returns without a disconnect.
ScanNotStarted == /\ Goto("scan", "idle")
                  /\ ready' = 0
                  /\ UNCHANGED <<scanning, connVars, gattVars, respVars>>

ScanRefused == scanning /\ ScanNotStarted
ScanFails == ConnectFaults /\ ~scanning /\ ScanNotStarted

TakeReady == /\ ready = 1
             /\ Goto("waitReady", "session")
             /\ ready' = 0
             /\ UNCHANGED <<scanning, connVars, gattVars, respVars>>

\* 5 s without ble_ready_sem: the scan stops.
GiveUpReady == /\ ready = 0
               /\ Goto("waitReady", "idle")
               /\ scanning' = FALSE
               /\ UNCHANGED <<connVars, gattVars, ready, respVars>>

ConnectUnderway == (scanning /\ ~bleConn) \/ link = "creating" \/ discovery

ReadyTimeout == ~ConnectUnderway /\ GiveUpReady

\* The same while the gateway is about to be found, connected or discovered.
ReadyTimeoutEarly == ConnectUnderway /\ GiveUpReady

----------------------------------------------------------------------------
(* ble_send_data and firmware_updater_disconnect                           *)

\* ble_conn was NULL: communication failure, the SDK gives up.
SendNotConnected == ~bleConn /\ Jump("session", "hangup")

\* The check needs no request, or no other one: the version is known, or the
\* flash refused something.
SessionEnds == Jump("session", "hangup")

\* ble_conn was not NULL: the response buffer is now the one of this request.
SendPrepare == /\ bleConn
               /\ Goto("session", "write")
               /\ inbuf' = "empty"
               /\ UNCHANGED <<scanning, connVars, gattVars, ready, token, answer, late>>

\* bt_gatt_write_without_response: ble_conn and msg_char_handle are read again.
SendWrite == /\ bleConn /\ handle /\ ~closing
             /\ Goto("write", "waitAnswer")
             /\ answer' = (subscribed /\ ~refused)
             /\ UNCHANGED <<scanning, connVars, gattVars, ready, token, inbuf, late>>

\* A link that is being closed takes no write, another one may refuse it too.
SendWriteClosing == bleConn /\ handle /\ closing /\ Jump("write", "hangup")
SendWriteFails == bleConn /\ handle /\ ~closing /\ Jump("write", "hangup")

SendAsserts == ~(bleConn /\ handle) /\ Jump("write", "crashed")

GiveUpAnswer == /\ answer' = FALSE
                /\ late' = IF answer /\ late < MaxLate THEN late + 1 ELSE late

\* k_sem_take succeeds.  The SDK accepts the right answer and asks for more or
\* is done; it refuses any other.
TakeAnswer == /\ token = 1
              /\ pc = "waitAnswer"
              /\ pc' \in IF inbuf = "right" THEN {"session", "hangup"} ELSE {"hangup"}
              /\ token' = 0
              /\ GiveUpAnswer
              /\ UNCHANGED <<job, pressed, scanning, connVars, gattVars, ready, inbuf>>

\* 5 s without response_sem: no answer comes, or it is overdue from now on.
AnswerTimeout == ~answer /\ token = 0 /\ Jump("waitAnswer", "hangup")

AnswerOverdue == /\ LateAnswers /\ answer
                 /\ token = 0
                 /\ Goto("waitAnswer", "hangup")
                 /\ GiveUpAnswer
                 /\ UNCHANGED <<scanning, connVars, gattVars, ready, token, inbuf>>

\* initialize does not disconnect; firmware_check does, if ble_conn is set.
KeepLink == (job = "report" \/ ~bleConn) /\ Jump("hangup", "idle")
SeeLink == job = "check" /\ bleConn /\ Jump("hangup", "disconnect")

\* ble_conn is read again for bt_conn_disconnect.
Disconnect == /\ bleConn
              /\ Goto("disconnect", "idle")
              /\ closing' = TRUE
              /\ UNCHANGED <<scanning, link, bleConn, refs, gattVars, ready, respVars>>

DisconnectAsserts == ~bleConn /\ Jump("disconnect", "crashed")

----------------------------------------------------------------------------
(* The callbacks                                                           *)

\* Mutant: the scan is not stopped.
ScanFoundKeepsScan == /\ scanning /\ ~bleConn /\ link = "down"
                      /\ link' = "creating"
                      /\ refs' = 1
                      /\ UNCHANGED <<appVars, scanning, closing, bleConn, gattVars, ready, respVars>>

\* scan_cb finds the gateway and stops the scan; the reference of
\* bt_conn_le_create is dropped at once, so the host's is the only one.
ScanFound == /\ scanning /\ ~bleConn /\ link = "down"
             /\ scanning' = FALSE
             /\ link' = "creating"
             /\ refs' = 1
             /\ UNCHANGED <<appVars, closing, bleConn, gattVars, ready, respVars>>

\* bt_conn_le_create returns an error: an attempt is under way, or another.
ScanFoundBusy == /\ scanning /\ ~bleConn /\ link = "creating"
                 /\ scanning' = FALSE
                 /\ UNCHANGED <<appVars, connVars, gattVars, ready, respVars>>

CreateFails == /\ ConnectFaults
               /\ scanning /\ ~bleConn /\ link = "down"
               /\ scanning' = FALSE
               /\ UNCHANGED <<appVars, connVars, gattVars, ready, respVars>>

\* Mutant: the waiting thread is told before the discovery.
ConnectedTellsEarly == /\ link = "creating"
                       /\ link' = "up"
                       /\ bleConn' = TRUE
                       /\ refs' = refs + 1
                       /\ discovery' = TRUE
                       /\ ready' = 1
                       /\ UNCHANGED <<appVars, scanning, closing, handle, subscribed, refused, respVars>>

\* connected_cb takes a reference and goes on to mtu_exchange_cb and
\* start_discovery, whether the MTU exchange works or not.
Connected == /\ link = "creating"
             /\ link' = "up"
             /\ bleConn' = TRUE
             /\ refs' = refs + 1
             /\ discovery' = TRUE
             /\ UNCHANGED <<appVars, scanning, closing, handle, subscribed, refused, ready, respVars>>

\* connected_cb with an error drops the reference the host holds; then the host drops
\* its own, asserting that there is one.
ConnectFailed == /\ ConnectFaults
                 /\ link = "creating"
                 /\ link' = "down"
                 /\ bleConn' = FALSE
                 /\ refs' = refs - 2
                 /\ pc' = "crashed"
                 /\ UNCHANGED <<job, pressed, scanning, closing, gattVars, ready, respVars>>

\* Mutant: the semaphore has no limit of 1.
DiscoveredUnlimited == /\ discovery /\ ~closing
                       /\ discovery' = FALSE
                       /\ handle' = TRUE
                       /\ subscribed' = TRUE
                       /\ ready' = ready + 1
                       /\ UNCHANGED <<appVars, scanning, connVars, refused, respVars>>

\* The last discover_cb: both characteristics are known; bt_gatt_subscribe sends its
\* request, and the waiting thread is told before that is answered.
Discovered == /\ discovery /\ ~closing
              /\ discovery' = FALSE
              /\ handle' = TRUE
              /\ subscribed' = TRUE
              /\ ready' = 1
              /\ UNCHANGED <<appVars, scanning, connVars, refused, respVars>>

\* Discovery fails, or the subscription is not sent: it is logged, the link stays.
DiscoveryFails == /\ LinkFaults
                  /\ discovery /\ ~closing
                  /\ discovery' = FALSE
                  /\ handle' \in {handle, TRUE}
                  /\ UNCHANGED <<appVars, scanning, connVars, subscribed, refused, ready, respVars>>

\* notify_cb without data: the gateway refuses the subscription.  The callback returns,
\* the link stays, and nothing the gateway has to say will come.
SubscribeRefused == /\ LinkFaults
                    /\ subscribed /\ ~refused
                    /\ refused' = TRUE
                    /\ answer' = FALSE
                    /\ late' = 0
                    /\ UNCHANGED <<appVars, scanning, connVars, discovery, handle, subscribed,
                                   ready, token, inbuf>>

\* Mutants: the reference is not dropped; the pointer is not cleared.
LinkDownLeaks == /\ link = "up"
                 /\ link' = "down"
                 /\ refs' = refs - 1
                 /\ closing' = FALSE /\ bleConn' = FALSE /\ discovery' = FALSE
                 /\ subscribed' = FALSE /\ refused' = FALSE /\ answer' = FALSE
                 /\ late' = 0
                 /\ UNCHANGED <<appVars, scanning, handle, ready, token, inbuf>>

LinkDownKeepsPointer == /\ link = "up"
                        /\ link' = "down"
                        /\ refs' = refs - 2
                        /\ closing' = FALSE /\ discovery' = FALSE
                        /\ subscribed' = FALSE /\ refused' = FALSE /\ answer' = FALSE
                        /\ late' = 0
                        /\ UNCHANGED <<appVars, scanning, bleConn, handle, ready, token, inbuf>>

\* disconnected_cb drops the reference of connected_cb, the host its own; what
\* was on its way is lost.
LinkDown == /\ link = "up"
            /\ link' = "down"
            /\ closing' = FALSE
            /\ bleConn' = FALSE
            /\ refs' = refs - 2
            /\ discovery' = FALSE
            /\ subscribed' = FALSE
            /\ refused' = FALSE
            /\ answer' = FALSE
            /\ late' = 0
            /\ UNCHANGED <<appVars, scanning, handle, ready, token, inbuf>>

Disconnected == closing /\ LinkDown
LinkLost == LinkFaults /\ ~closing /\ LinkDown

\* Mutant: the semaphore is given before the answer is copied.
NotifyBeforeCopy == /\ subscribed /\ answer
                    /\ answer' = FALSE
                    /\ token' = 1
                    /\ UNCHANGED <<appVars, scanning, connVars, gattVars, ready, inbuf, late>>

\* notify_cb with the answer to the current request.
NotifyAnswer == /\ subscribed /\ answer
                /\ answer' = FALSE
                /\ inbuf' = "right"
                /\ token' = 1
                /\ UNCHANGED <<appVars, scanning, connVars, gattVars, ready, late>>

\* notify_cb with an overdue one: it goes where the buffer pointer points now.
NotifyLate == /\ subscribed /\ late > 0
              /\ late' = late - 1
              /\ inbuf' = "wrong"
              /\ token' = 1
              /\ UNCHANGED <<appVars, scanning, connVars, gattVars, ready, answer>>

\* The gateway or its server has no answer.
AnswerLost == /\ answer
              /\ answer' = FALSE
              /\ UNCHANGED <<appVars, scanning, connVars, gattVars, ready, token, inbuf, late>>

----------------------------------------------------------------------------
App == \/ StartCheck
       \/ AlreadyConnected \/ NotConnected \/ StartScan \/ ScanRefused
       \/ TakeReady \/ ReadyTimeout
       \/ SendNotConnected \/ SendPrepare \/ SendWrite \/ SendWriteClosing \/ SendAsserts
       \/ TakeAnswer \/ AnswerTimeout
       \/ KeepLink \/ SeeLink \/ Disconnect \/ DisconnectAsserts

\* No callback comes on a board that a failed assertion has stopped.
Callback == /\ pc # "crashed"
            /\ \/ ScanFound \/ ScanFoundBusy \/ Connected \/ Discovered
               \/ Disconnected \/ NotifyAnswer \/ NotifyLate

\* What goes wrong outside the two threads, and a check that asks for nothing.
Fault == /\ pc # "crashed"
         /\ \/ ReadyTimeoutEarly \/ SendWriteFails \/ AnswerOverdue
            \/ ScanFails \/ CreateFails \/ ConnectFailed
            \/ DiscoveryFails \/ SubscribeRefused \/ LinkLost
            \/ AnswerLost \/ SessionEnds

Next == App \/ Callback \/ Fault \/ PressButton

Spec == Init /\ [][Next]_vars

\* Four moments when the environment must hold still: a check starts when the link has
\* settled; the link does not break between the two reads of ble_conn in ble_send_data,
\* nor between those in firmware_updater_disconnect; a discovery that fails has found
\* the characteristic that is written; an attempt to connect does not fail.
Gentle == /\ StartCheck => Settled
          /\ LinkLost => pc \notin {"write", "disconnect"}
          /\ DiscoveryFails => handle'
          /\ ~ConnectFailed

\* An environment that holds still then and does what it likes at any other time.
GentleSpec == Init /\ [][Next /\ Gentle]_vars

\* Both threads run when they can, a semaphore that is not given times out, a
\* link that is closed goes down, and the button is pressed again and again.
FairSpec == Spec /\ WF_vars(App) /\ WF_vars(Callback) /\ WF_vars(PressButton)

----------------------------------------------------------------------------
(* Properties                                                              *)

FlagsOK == /\ scanning \in BOOLEAN /\ closing \in BOOLEAN /\ bleConn \in BOOLEAN
           /\ discovery \in BOOLEAN /\ handle \in BOOLEAN /\ subscribed \in BOOLEAN
           /\ refused \in BOOLEAN /\ answer \in BOOLEAN

\* Types of the variables; the semaphores count no further than 1.
TypeOK == /\ FlagsOK
          /\ pc \in {"idle", "connect", "scan", "waitReady", "session", "write",
                     "waitAnswer", "hangup", "disconnect", "crashed"}
          /\ job \in {"report", "check"}
          /\ link \in {"down", "creating", "up"}
          /\ pressed \in {0, 1} /\ ready \in {0, 1} /\ token \in {0, 1}
          /\ refs \in Int
          /\ inbuf \in {"empty", "right", "wrong"}
          /\ late \in 0..MaxLate

\* While the board runs every reference is owned: one by the host while it knows the
\* connection, one by ble_conn.  So the object ble_conn points to is never recycled
\* under the thread that uses it, and once the link is down nothing holds it any more.
RefsBalanced == /\ bleConn => link = "up"
                /\ pc # "crashed" => refs = (IF link = "down" THEN 0 ELSE 1)
                                           + (IF bleConn THEN 1 ELSE 0)

\* The comment in scan_cb says that connected_cb takes over the reference: then
\* nothing the callbacks do can drop one that nobody holds.
RefsOwned == refs >= 0

\* Whenever ble_send_data can return success, the buffer of the SDK holds the
\* answer to the request it just sent, not to an earlier one.
RightAnswer == pc = "waitAnswer" /\ token = 1 => inbuf = "right"

\* A connect that waited and is on a link ends with one whose gateway was asked to
\* notify: no token of an earlier connection passes for this one's.
ReadyMeansSubscribed == pc = "waitReady" /\ ready = 1 /\ bleConn => subscribed

\* scan_and_connect returned true: "BLE gateway ready".  The characteristic
\* that is written next is known, also after a discovery that came too late for
\* the check that began it or that broke off half-way.
WriteHasHandle == pc = "write" => handle

\* A session whose link breaks stays without one until its check is over: no scan and
\* no attempt that it or an earlier check left puts it, between two requests of the
\* same download, on a link that is not discovered.
OneLinkPerSession == [][Connected => pc \notin {"session", "write", "waitAnswer"}]_vars

\* No assertion of the host stops the board.
NeverCrashes == pc # "crashed"

\* Once nothing goes wrong any more, requests get their answers again, whatever
\* state of link, scan, semaphores and buffers the faults left.
Served == pc = "waitAnswer" /\ token = 1 /\ inbuf = "right"
Recovers == <>[][~Fault]_vars => []<>(Served \/ pc = "crashed")
==============================================================================
