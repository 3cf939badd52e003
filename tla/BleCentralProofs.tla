-------------------------- MODULE BleCentralProofs ---------------------------
(***************************************************************************)
(* Theorems about BleCentral, for every MaxLate and, each with the faults  *)
(* it needs excluded, every combination of the other constants.            *)
(*                                                                         *)
(* Most steps leave most variables alone.  Each invariant comes with a     *)
(* lemma that names the steps that touch what it speaks about (Touch...);  *)
(* only these are looked at in the proof that it is kept.                  *)
(***************************************************************************)
EXTENDS BleCentral, TLAPS

\* Flags stay Boolean.
LEMMA FlagsStep ==
  ASSUME FlagsOK, [Next]_vars
  PROVE  FlagsOK'
<1> USE DEF FlagsOK, Jump, Goto, appVars, connVars, gattVars, respVars
<1>1. CASE App
  <2>1. CASE StartCheck \/ AlreadyConnected \/ NotConnected \/ StartScan
    BY <2>1, Zenon DEF StartCheck, AlreadyConnected, NotConnected, StartScan
  <2>2. CASE ScanRefused \/ TakeReady \/ ReadyTimeout
    BY <2>2, Zenon DEF ScanRefused, ScanNotStarted, TakeReady, ReadyTimeout, GiveUpReady
  <2>3. CASE SendNotConnected \/ SendPrepare \/ SendWrite \/ SendWriteClosing \/ SendAsserts
    BY <2>3, Zenon DEF SendNotConnected, SendPrepare, SendWrite, SendWriteClosing, SendAsserts
  <2>4. CASE TakeAnswer \/ AnswerTimeout
    BY <2>4, Zenon DEF TakeAnswer, AnswerTimeout, GiveUpAnswer
  <2>5. CASE KeepLink \/ SeeLink \/ Disconnect \/ DisconnectAsserts
    BY <2>5, Zenon DEF KeepLink, SeeLink, Disconnect, DisconnectAsserts
  <2>6. QED
    BY <1>1, <2>1, <2>2, <2>3, <2>4, <2>5 DEF App
<1>2. CASE Callback
  BY <1>2, Zenon
  DEF Callback, ScanFound, ScanFoundBusy, Connected, Discovered, Disconnected,
      LinkDown, NotifyAnswer, NotifyLate
<1>3. CASE Fault
  BY <1>3, Zenon
  DEF Fault, ReadyTimeoutEarly, GiveUpReady, SendWriteFails, AnswerOverdue, GiveUpAnswer,
      ScanFails, ScanNotStarted, CreateFails, ConnectFailed, DiscoveryFails,
      SubscribeRefused, LinkLost, LinkDown, AnswerLost, SessionEnds
<1>4. CASE PressButton
  BY <1>4, Zenon DEF PressButton
<1>5. CASE UNCHANGED vars
  BY <1>5, Zenon DEF vars
<1>6. QED
  BY <1>1, <1>2, <1>3, <1>4, <1>5 DEF Next

\* The other types are kept too.
LEMMA TypeStep ==
  ASSUME TypeOK, [Next]_vars
  PROVE  TypeOK'
<1> USE BleAssumption DEF TypeOK, Jump, Goto, appVars, connVars, gattVars, respVars
<1>0. FlagsOK'
  BY FlagsStep
<1>1. CASE App
  BY <1>0, <1>1
  DEF App, StartCheck, AlreadyConnected, NotConnected, StartScan, ScanRefused,
      ScanNotStarted, TakeReady, ReadyTimeout, GiveUpReady, SendNotConnected,
      SendPrepare, SendWrite, SendWriteClosing, SendAsserts, TakeAnswer, GiveUpAnswer,
      AnswerTimeout, KeepLink, SeeLink, Disconnect, DisconnectAsserts
<1>2. CASE Callback
  BY <1>0, <1>2
  DEF Callback, ScanFound, ScanFoundBusy, Connected, Discovered, Disconnected,
      LinkDown, NotifyAnswer, NotifyLate
<1>3. CASE Fault
  <2>1. CASE AnswerOverdue
    BY <1>0, <2>1 DEF AnswerOverdue, GiveUpAnswer
  <2>2. CASE ReadyTimeoutEarly \/ ScanFails
    BY <1>0, <2>2 DEF ReadyTimeoutEarly, GiveUpReady, ScanFails, ScanNotStarted
  <2>3. CASE SendWriteFails \/ AnswerLost \/ SessionEnds
    BY <1>0, <2>3 DEF SendWriteFails, AnswerLost, SessionEnds
  <2>4. CASE CreateFails \/ ConnectFailed
    BY <1>0, <2>4 DEF CreateFails, ConnectFailed
  <2>5. CASE DiscoveryFails
    BY <1>0, <2>5 DEF DiscoveryFails
  <2>6. CASE SubscribeRefused
    <3>1. late' = 0 /\ UNCHANGED <<pc, job, pressed, link, refs, ready, token, inbuf>>
      BY <2>6, Zenon DEF SubscribeRefused
    <3>2. QED
      BY <1>0, <3>1
  <2>7. CASE LinkLost
    BY <1>0, <2>7 DEF LinkLost, LinkDown
  <2>8. QED
    BY <1>3, <2>1, <2>2, <2>3, <2>4, <2>5, <2>6, <2>7 DEF Fault
<1>4. CASE PressButton
  BY <1>0, <1>4 DEF PressButton
<1>5. CASE UNCHANGED vars
  BY <1>0, <1>5 DEF vars
<1>6. QED
  BY <1>1, <1>2, <1>3, <1>4, <1>5 DEF Next

\* Type correctness; in particular no semaphore counts further than 1.
THEOREM TypeCorrect == Spec => []TypeOK
<1>1. Init => TypeOK
  <2>1. Init => FlagsOK
    BY Zenon DEF Init, FlagsOK
  <2>2. QED
    BY <2>1, BleAssumption DEF Init, TypeOK
<1>2. TypeOK /\ [Next]_vars => TypeOK'
  BY TypeStep
<1>3. QED
  BY <1>1, <1>2, PTL DEF Spec

----------------------------------------------------------------------------
(* References on the connection object                                     *)

\* The steps that change the connection.
LEMMA TouchConnection ==
  ASSUME [Next]_vars
  PROVE  \/ UNCHANGED connVars
         \/ Disconnect \/ ScanFound \/ Connected \/ ConnectFailed \/ LinkDown
BY Zenon
DEF Next, App, Callback, Fault, vars, Jump, connVars,
    PressButton, StartCheck, AlreadyConnected, NotConnected, StartScan, ScanRefused,
    ScanFails, ScanNotStarted, TakeReady, ReadyTimeout, ReadyTimeoutEarly, GiveUpReady,
    SendNotConnected, SessionEnds, SendPrepare, SendWrite, SendWriteClosing,
    SendWriteFails, SendAsserts, TakeAnswer, AnswerTimeout, AnswerOverdue, KeepLink, SeeLink,
    DisconnectAsserts, ScanFoundBusy, CreateFails, Discovered, DiscoveryFails,
    SubscribeRefused, Disconnected, LinkLost, NotifyAnswer, NotifyLate, AnswerLost

\* A stopped board takes no step any more.
LEMMA CrashStays ==
  ASSUME [Next]_vars, pc = "crashed"
  PROVE  UNCHANGED vars
BY DEF Next, App, Callback, Fault, Jump, Goto, PressButton, StartCheck, AlreadyConnected,
    NotConnected, StartScan, ScanRefused, ScanNotStarted, TakeReady, ReadyTimeout,
    GiveUpReady, SendNotConnected, SendPrepare, SendWrite, SendWriteClosing, SendAsserts,
    TakeAnswer, AnswerTimeout, KeepLink, SeeLink, Disconnect, DisconnectAsserts

\* ble_conn is set exactly while the link is up.
RefsInv == /\ RefsBalanced
           /\ link = "up" => bleConn

\* Every step keeps that.
LEMMA RefsStep ==
  ASSUME TypeOK, RefsInv, [Next]_vars
  PROVE  RefsInv'
<1> USE DEF TypeOK, FlagsOK, RefsInv, RefsBalanced
<1>1. CASE pc = "crashed"
  BY <1>1, CrashStays DEF vars, appVars, connVars
<1>2. CASE pc # "crashed" /\ UNCHANGED connVars
  BY <1>2 DEF connVars
<1>3. CASE Disconnect
  BY <1>3 DEF Disconnect, Goto
<1>4. CASE pc # "crashed" /\ ScanFound
  BY <1>4 DEF ScanFound
<1>5. CASE pc # "crashed" /\ Connected
  BY <1>5 DEF Connected
<1>6. CASE ConnectFailed
  BY <1>6 DEF ConnectFailed
<1>7. CASE pc # "crashed" /\ LinkDown
  BY <1>7 DEF LinkDown
<1>8. QED
  BY <1>1, <1>2, <1>3, <1>4, <1>5, <1>6, <1>7, TouchConnection

\* A connection object that is in use is referenced by exactly those who use it, as long
\* as the board runs, in every interleaving of the check with the callbacks and whatever
\* happens to the link.
THEOREM RefsSafe == Spec => []RefsBalanced
<1>1. Init => RefsInv
  BY DEF Init, RefsInv, RefsBalanced
<1>2. TypeOK /\ RefsInv /\ [Next]_vars => RefsInv'
  BY RefsStep
<1>3. RefsInv => RefsBalanced
  BY DEF RefsInv
<1>4. QED
  BY <1>1, <1>2, <1>3, TypeCorrect, PTL DEF Spec

\* When no attempt to connect fails, the callbacks drop no reference that nobody
\* holds: the failed attempt is the only step that does.
THEOREM RefsOwnedSafe ==
  ASSUME ConnectFaults = FALSE
  PROVE  Spec => []RefsOwned
<1> DEFINE Owned == RefsInv /\ RefsOwned
<1>1. Init => Owned
  BY DEF Init, RefsInv, RefsBalanced, RefsOwned
<1>2. ASSUME TypeOK, Owned, [Next]_vars
      PROVE  Owned'
  <2>1. RefsInv'
    BY <1>2, RefsStep
  <2>2. ~ConnectFailed
    BY DEF ConnectFailed
  <2>3. RefsOwned'
    <3> USE <1>2 DEF RefsInv, RefsBalanced, RefsOwned, TypeOK, FlagsOK
    <3>1. CASE UNCHANGED connVars \/ Disconnect
      BY <3>1 DEF connVars, Disconnect
    <3>2. CASE ScanFound \/ Connected
      BY <3>2 DEF ScanFound, Connected
    <3>3. CASE LinkDown /\ pc # "crashed"
      BY <3>3 DEF LinkDown
    <3>4. CASE pc = "crashed"
      BY <3>4, CrashStays DEF vars, connVars
    <3>5. QED
      BY <2>2, <3>1, <3>2, <3>3, <3>4, TouchConnection
  <2>4. QED
    BY <2>1, <2>3
<1>3. QED
  BY <1>1, <1>2, TypeCorrect, PTL DEF Spec

----------------------------------------------------------------------------
(* The answer belongs to the request                                       *)

\* The steps that change what is on its way, or stop waiting for it.
LEMMA TouchAnswer ==
  ASSUME [Next]_vars
  PROVE  \/ UNCHANGED respVars /\ (pc' \in {pc, "crashed"} \/ pc \notin {"waitAnswer", "crashed"})
         \/ SendPrepare \/ SendWrite \/ TakeAnswer \/ AnswerTimeout \/ AnswerOverdue
         \/ LinkDown \/ NotifyAnswer \/ NotifyLate \/ AnswerLost \/ SubscribeRefused
BY DEF Next, App, Callback, Fault, vars, Jump, Goto, appVars, respVars,
    PressButton, StartCheck, AlreadyConnected, NotConnected, StartScan, ScanRefused,
    ScanFails, ScanNotStarted, TakeReady, ReadyTimeout, ReadyTimeoutEarly, GiveUpReady,
    SendNotConnected, SessionEnds, SendWriteClosing, SendWriteFails, SendAsserts,
    KeepLink, SeeLink, Disconnect, DisconnectAsserts, ScanFound, ScanFoundBusy,
    CreateFails, Connected, ConnectFailed, Discovered, DiscoveryFails,
    Disconnected, LinkLost

\* The response semaphore is only ever given to the thread that waits for this
\* very answer, and nothing is on its way at any other time; a board may be stopped
\* while it waits.
AnswerInv == /\ late = 0
             /\ token = 1 => pc \in {"waitAnswer", "crashed"} /\ inbuf = "right" /\ ~answer
             /\ answer => pc \in {"waitAnswer", "crashed"}

\* Every step keeps that, when no answer is overdue.
LEMMA AnswerStep ==
  ASSUME LateAnswers = FALSE, TypeOK, AnswerInv, [Next]_vars
  PROVE  AnswerInv'
<1> USE DEF TypeOK, FlagsOK, AnswerInv, Jump, Goto, appVars, respVars
<1>1. CASE UNCHANGED respVars /\ (pc' \in {pc, "crashed"} \/ pc \notin {"waitAnswer", "crashed"})
  BY <1>1
<1>2. CASE SendPrepare
  BY <1>2 DEF SendPrepare
<1>3. CASE SendWrite
  BY <1>3 DEF SendWrite
<1>4. CASE TakeAnswer
  BY <1>4 DEF TakeAnswer, GiveUpAnswer
<1>5. CASE AnswerTimeout
  BY <1>5 DEF AnswerTimeout
<1>6. CASE AnswerOverdue
  BY <1>6 DEF AnswerOverdue
<1>7. CASE LinkDown
  BY <1>7 DEF LinkDown
<1>8. CASE NotifyAnswer
  BY <1>8 DEF NotifyAnswer
<1>9. CASE NotifyLate
  BY <1>9 DEF NotifyLate
<1>10. CASE AnswerLost
  BY <1>10 DEF AnswerLost
<1>11. CASE SubscribeRefused
  BY <1>11 DEF SubscribeRefused
<1>12. QED
  BY <1>1, <1>2, <1>3, <1>4, <1>5, <1>6, <1>7, <1>8, <1>9, <1>10, <1>11, TouchAnswer

\* When no answer is overdue, a request that succeeds has got its own answer,
\* however often the link, the discovery and the attempts to connect fail.
THEOREM AnswerSafe ==
  ASSUME LateAnswers = FALSE
  PROVE  Spec => []RightAnswer
<1>1. Init => AnswerInv
  BY DEF Init, AnswerInv
<1>2. TypeOK /\ AnswerInv /\ [Next]_vars => AnswerInv'
  BY AnswerStep
<1>3. AnswerInv => RightAnswer
  BY DEF AnswerInv, RightAnswer
<1>4. QED
  BY <1>1, <1>2, <1>3, TypeCorrect, PTL DEF Spec

----------------------------------------------------------------------------
(* The ready semaphore belongs to the connection                           *)

\* The steps that change the semaphore or the link, or start to wait.
LEMMA TouchReady ==
  ASSUME [Next]_vars
  PROVE  \/ /\ UNCHANGED <<ready, subscribed, closing, link, bleConn>>
            /\ pc' = pc \/ pc' \notin {"scan", "waitReady"}
         \/ NotConnected \/ StartScan \/ ScanRefused \/ ScanFails \/ TakeReady
         \/ Disconnect \/ ScanFound \/ Connected \/ ConnectFailed
         \/ Discovered \/ Disconnected \/ LinkLost
BY DEF Next, App, Callback, Fault, vars, Jump, Goto, appVars, connVars, gattVars,
    PressButton, StartCheck, AlreadyConnected, ReadyTimeout, ReadyTimeoutEarly,
    GiveUpReady, SendNotConnected, SessionEnds, SendPrepare, SendWrite, SendWriteClosing,
    SendWriteFails, SendAsserts, TakeAnswer, AnswerTimeout, AnswerOverdue, KeepLink,
    SeeLink, DisconnectAsserts, ScanFoundBusy, CreateFails, DiscoveryFails, SubscribeRefused,
    NotifyAnswer, NotifyLate, AnswerLost

\* A thread that looks for the gateway is not waiting for its own disconnect:
\* it saw ble_conn cleared, and only it asks for one.
ReadyInv == /\ pc = "waitReady" /\ ready = 1 => subscribed
            /\ closing => bleConn /\ pc \notin {"scan", "waitReady"}
            /\ link = "up" <=> bleConn

\* Every step keeps that, unless the link breaks while the thread waits.
LEMMA ReadyStep ==
  ASSUME LinkLost => pc # "waitReady", TypeOK, ReadyInv, [Next]_vars
  PROVE  ReadyInv'
<1> USE DEF TypeOK, FlagsOK, ReadyInv, Jump, Goto,
            appVars, connVars, gattVars
<1>1. CASE /\ UNCHANGED <<ready, subscribed, closing, link, bleConn>>
           /\ pc' = pc \/ pc' \notin {"scan", "waitReady"}
  BY <1>1
<1>2. CASE NotConnected
  BY <1>2 DEF NotConnected
<1>3. CASE StartScan
  BY <1>3 DEF StartScan
<1>4. CASE ScanRefused \/ ScanFails
  BY <1>4 DEF ScanRefused, ScanFails, ScanNotStarted
<1>5. CASE TakeReady
  BY <1>5 DEF TakeReady
<1>6. CASE Disconnect
  BY <1>6 DEF Disconnect
<1>7. CASE ScanFound
  BY <1>7 DEF ScanFound
<1>8. CASE Connected
  BY <1>8 DEF Connected
<1>9. CASE ConnectFailed
  BY <1>9 DEF ConnectFailed
<1>10. CASE Discovered
  BY <1>10 DEF Discovered
<1>11. CASE Disconnected
  BY <1>11 DEF Disconnected, LinkDown
<1>12. CASE LinkLost
  BY <1>12 DEF LinkLost, LinkDown
<1>13. QED
  BY <1>1, <1>2, <1>3, <1>4, <1>5, <1>6, <1>7, <1>8, <1>9, <1>10, <1>11, <1>12, TouchReady

\* However often discoveries and attempts to connect fail, links break and the button
\* is pressed, a connect that waited for the gateway is on a link that was
\* subscribed, unless the link broke in this very wait.
THEOREM ReadyWindow ==
  Spec /\ [][LinkLost => pc # "waitReady"]_vars => []ReadyMeansSubscribed
<1>1. Init => ReadyInv
  BY DEF Init, ReadyInv
<1>2. ASSUME TypeOK, ReadyInv, [Next]_vars, [LinkLost => pc # "waitReady"]_vars
      PROVE  ReadyInv'
  <2>1. CASE UNCHANGED vars
    BY <1>2, <2>1 DEF vars, appVars, connVars, gattVars, ReadyInv
  <2>2. CASE LinkLost => pc # "waitReady"
    BY <1>2, <2>2, ReadyStep
  <2>3. QED
    BY <1>2, <2>1, <2>2
<1>3. ReadyInv => ReadyMeansSubscribed
  BY DEF ReadyInv, ReadyMeansSubscribed
<1>4. QED
  BY <1>1, <1>2, <1>3, TypeCorrect, PTL DEF Spec

\* On a link that does not fail by itself that is so without exception, also after
\* an attempt that took longer than its 5 s and gave the semaphore to nobody.
THEOREM ReadySafe ==
  ASSUME LinkFaults = FALSE
  PROVE  Spec => []ReadyMeansSubscribed
<1>1. [Next]_vars => [LinkLost => pc # "waitReady"]_vars
  BY DEF LinkLost
<1>2. QED
  BY <1>1, ReadyWindow, PTL DEF Spec

----------------------------------------------------------------------------
(* The host is given neither NULL nor a zero handle                        *)

\* Where the link can be while the thread is where it is.  A thread that was told that
\* the gateway is ready is on a link that nobody else changes any more: it can only
\* break, and then it stays down.
WindowInv == /\ pc # "crashed"
             /\ link = "up" <=> bleConn
             /\ discovery => bleConn
             /\ closing => pc = "idle" /\ bleConn
             /\ bleConn /\ ~discovery => handle
             /\ scanning => pc = "waitReady" /\ link = "down"
             /\ pc \in {"connect", "scan", "session", "write", "waitAnswer", "hangup", "disconnect"}
                  => Settled
             /\ pc = "scan" => ~bleConn
             /\ pc = "waitReady" /\ ready = 1 => Settled /\ ~scanning
             /\ pc \in {"write", "disconnect"} => bleConn

\* Every step keeps that, if the four moments are calm.
LEMMA WindowStep ==
  ASSUME Gentle, TypeOK, WindowInv, [Next]_vars
  PROVE  WindowInv'
<1> USE DEF Gentle, TypeOK, FlagsOK, WindowInv, Settled, Jump, Goto, appVars, connVars, gattVars
<1>1. CASE PressButton \/ StartCheck
  BY <1>1 DEF PressButton, StartCheck
<1>2. CASE AlreadyConnected \/ NotConnected \/ StartScan
  BY <1>2 DEF AlreadyConnected, NotConnected, StartScan
<1>3. CASE ScanRefused \/ ScanFails
  BY <1>3 DEF ScanRefused, ScanFails, ScanNotStarted
<1>4. CASE TakeReady \/ ReadyTimeout \/ ReadyTimeoutEarly
  BY <1>4 DEF TakeReady, ReadyTimeout, ReadyTimeoutEarly, GiveUpReady
<1>5. CASE SendNotConnected \/ SessionEnds \/ SendPrepare
  BY <1>5 DEF SendNotConnected, SessionEnds, SendPrepare
<1>6. CASE SendWrite \/ SendWriteClosing \/ SendWriteFails \/ SendAsserts
  BY <1>6 DEF SendWrite, SendWriteClosing, SendWriteFails, SendAsserts
<1>7. CASE TakeAnswer \/ AnswerTimeout \/ AnswerOverdue
  BY <1>7 DEF TakeAnswer, AnswerTimeout, AnswerOverdue
<1>8. CASE KeepLink \/ SeeLink
  BY <1>8 DEF KeepLink, SeeLink
<1>9. CASE Disconnect \/ DisconnectAsserts
  BY <1>9 DEF Disconnect, DisconnectAsserts
<1>10. CASE ScanFound \/ ScanFoundBusy \/ CreateFails
  BY <1>10 DEF ScanFound, ScanFoundBusy, CreateFails
<1>11. CASE Connected \/ ConnectFailed
  BY <1>11 DEF Connected, ConnectFailed
<1>12. CASE Discovered \/ DiscoveryFails
  <2>1. discovery /\ bleConn /\ link = "up" /\ pc \in {"idle", "waitReady"} /\ ~scanning
    BY <1>12 DEF Discovered, DiscoveryFails
  <2>2. discovery' = FALSE /\ handle'
    BY <1>12 DEF Discovered, DiscoveryFails
  <2>3. UNCHANGED <<pc, job, pressed, scanning, link, closing, bleConn, refs>>
    BY <1>12 DEF Discovered, DiscoveryFails
  <2>4. ~closing
    BY <1>12 DEF Discovered, DiscoveryFails
  <2>5. QED
    BY <2>1, <2>2, <2>3, <2>4
<1>13. CASE Disconnected \/ LinkLost
  BY <1>13 DEF Disconnected, LinkLost, LinkDown
<1>14. CASE NotifyAnswer \/ NotifyLate \/ AnswerLost \/ SubscribeRefused
  BY <1>14 DEF NotifyAnswer, NotifyLate, AnswerLost, SubscribeRefused
<1>15. CASE UNCHANGED vars
  BY <1>15 DEF vars
<1>16. QED
  BY <1>1, <1>2, <1>3, <1>4, <1>5, <1>6, <1>7, <1>8, <1>9, <1>10, <1>11, <1>12,
     <1>13, <1>14, <1>15
  DEF Next, App, Callback, Fault

\* A board is not where it starts from in one of the bad places.
LEMMA WindowInit == Init => WindowInv
BY DEF Init, WindowInv, Settled

\* Outside of the bad places the host gets what it asserts.
LEMMA WindowSafe == TypeOK /\ WindowInv => NeverCrashes /\ WriteHasHandle
BY DEF TypeOK, FlagsOK, WindowInv, Settled, NeverCrashes, WriteHasHandle

\* Every step of a gentle environment keeps that.
LEMMA GentleStep ==
  ASSUME TypeOK, WindowInv, [Next /\ Gentle]_vars
  PROVE  WindowInv'
<1>1. CASE UNCHANGED vars
  BY <1>1 DEF vars, appVars, connVars, gattVars, WindowInv, Settled
<1>2. CASE Next /\ Gentle
  BY <1>2, WindowStep
<1>3. QED
  BY <1>1, <1>2

\* A gentle environment is one of those Spec allows.
LEMMA GentleIsSpec == GentleSpec => Spec
<1>1. [Next /\ Gentle]_vars => [Next]_vars
  OBVIOUS
<1>2. QED
  BY <1>1, PTL DEF GentleSpec, Spec

\* The only moments in which an assertion of the host can stop the board are the four:
\* a NULL connection, a zero handle or a reference too many come of nothing else,
\* whatever fails, is overdue, breaks or is pressed at any other time.
THEOREM CrashWindows == GentleSpec => [](NeverCrashes /\ WriteHasHandle)
<1>1. GentleSpec => []TypeOK
  BY GentleIsSpec, TypeCorrect, PTL
<1>2. QED
  BY <1>1, WindowInit, GentleStep, WindowSafe, PTL DEF GentleSpec

\* Then a link that breaks leaves its session without one, also if an earlier check
\* left a scan, an attempt to connect or a discovery behind: nothing puts the session
\* on another link.
THEOREM SessionKeepsLink == GentleSpec => OneLinkPerSession
<1>1. GentleSpec => []TypeOK
  BY GentleIsSpec, TypeCorrect, PTL
<1>2. WindowInv => [Connected => pc \notin {"session", "write", "waitAnswer"}]_vars
  BY DEF WindowInv, Settled, Connected
<1>3. QED
  BY <1>1, <1>2, WindowInit, GentleStep, PTL DEF GentleSpec, OneLinkPerSession

\* And a connect that waited is on a link that was subscribed, also if the link breaks
\* in this very wait: no token survives to pass for another link's.
THEOREM ReadyGentle == GentleSpec => []ReadyMeansSubscribed
<1>1. GentleSpec => []TypeOK
  BY GentleIsSpec, TypeCorrect, PTL
<1>2. Init => ReadyMeansSubscribed
  BY DEF Init, ReadyMeansSubscribed
<1>3. ASSUME TypeOK, WindowInv, ReadyMeansSubscribed, [Next]_vars
      PROVE  ReadyMeansSubscribed'
  <2> USE <1>3 DEF TypeOK, FlagsOK, WindowInv, Settled, ReadyMeansSubscribed, Jump, Goto,
                   appVars, connVars, gattVars
  <2>1. CASE /\ UNCHANGED <<ready, subscribed, closing, link, bleConn>>
             /\ pc' = pc \/ pc' \notin {"scan", "waitReady"}
    BY <2>1
  <2>2. CASE NotConnected \/ ScanRefused \/ ScanFails \/ TakeReady
    BY <2>2 DEF NotConnected, ScanRefused, ScanFails, ScanNotStarted, TakeReady
  <2>3. CASE StartScan
    BY <2>3 DEF StartScan
  <2>4. CASE Disconnect \/ ScanFound
    BY <2>4 DEF Disconnect, ScanFound
  <2>5. CASE Connected
    BY <2>5 DEF Connected
  <2>6. CASE ConnectFailed
    BY <2>6 DEF ConnectFailed
  <2>7. CASE Discovered
    BY <2>7 DEF Discovered
  <2>8. CASE Disconnected \/ LinkLost
    BY <2>8 DEF Disconnected, LinkLost, LinkDown
  <2>9. QED
    BY <2>1, <2>2, <2>3, <2>4, <2>5, <2>6, <2>7, <2>8, TouchReady
<1>4. [Next /\ Gentle]_vars => [Next]_vars
  OBVIOUS
<1>5. QED
  BY <1>1, <1>2, <1>3, <1>4, WindowInit, GentleStep, PTL DEF GentleSpec
==============================================================================
