------------------------------ MODULE SimProofs ------------------------------
(***************************************************************************)
(* Theorems about SimUpdater and its transport, for any number of ports,   *)
(* versions and chunks.                                                    *)
(***************************************************************************)
EXTENDS SimUpdater, TLAPS

Ending == Return \/ NoAnswer \/ SendToFails

\* A step, as the transport sees it: a move of udp_send_data or of the network.
LEMMA TransportSteps ==
  ASSUME [Next]_vars
  PROVE  \/ Socket \/ SocketFails \/ SendTo(Says) \/ Receive \/ Ending
         \/ Discard \/ Lose \/ ServeRequest \/ Restart \/ UNCHANGED udpVars
<1>1. CASE Thread
  BY <1>1 DEF Thread, Start, UseCachedTarget, Local, Ask, Udp, Answered, NotAnswered, Timeout, Ending
<1>2. CASE Network
  BY <1>2 DEF Network, Udp
<1>3. CASE Fault
  BY <1>3 DEF Fault, StartFails, Local, ExchangeFails, TimeoutEarly, MoreExchanges, Udp, Ending
<1>4. CASE PressButton \/ SetTarget \/ UNCHANGED vars
  BY <1>4 DEF PressButton, Local, SetTarget, vars
<1>5. QED
  BY <1>1, <1>2, <1>3, <1>4 DEF Next
----------------------------------------------------------------------------
(* Sockets                                                                 *)

\* Every way out of udp_send_data closes the socket, and only once, whatever
\* the network does and wherever the simulator is stopped.
THEOREM SocketSafe == Spec => []NoSocketLeak
<1>1. Init => NoSocketLeak
  BY DEF Init, UdpInit, NoSocketLeak
<1>2. ASSUME NoSocketLeak, [Next]_vars
      PROVE  NoSocketLeak'
  <2> USE <1>2 DEF NoSocketLeak
  <2>1. CASE Socket \/ SocketFails \/ SendTo(Says) \/ Receive
    BY <2>1 DEF Socket, SocketFails, SendTo, Receive
  <2>2. CASE Ending
    BY <2>2 DEF Ending, Return, NoAnswer, SendToFails, Close
  <2>3. CASE Discard \/ Lose \/ ServeRequest
    BY <2>3 DEF Discard, Lose, ServeRequest, Serve
  <2>4. CASE Restart \/ UNCHANGED udpVars
    BY <2>4 DEF Restart, udpVars
  <2>5. QED
    BY <2>1, <2>2, <2>3, <2>4, TransportSteps
<1>3. QED
  BY <1>1, <1>2, PTL DEF Spec
----------------------------------------------------------------------------
(* Types                                                                   *)

\* The types of the transport; how often a socket is closed is SocketSafe's matter.
NetType == /\ call \in {"none", "bound", "wait", "answered"}
           /\ port \in Ports
           /\ got \in {"now", "old"}
           /\ net \subseteq Datagram(SUBSET Versions)

\* The types of the updater: it downloads what is newer than the version it
\* runs, and asks for a chunk only while one is left.
SimType == /\ pc \in {"boot", "halted", "idle", "check", "begin", "download", "finish", "tell"}
           /\ version \in Versions /\ desired \in 0..MaxVersion /\ target \in Versions
           /\ chunks \in 0..NumChunks
           /\ told \subseteq Versions
           /\ pc \in {"begin", "download", "finish", "tell"} => version < desired
           /\ pc = "download" => chunks < NumChunks

\* What ages stays a datagram for the same port, with the same content.
LEMMA AgedType ==
  ASSUME net \subseteq Datagram(SUBSET Versions), NEW d \in Aged
  PROVE  /\ d \in Datagram(SUBSET Versions) /\ d.of = "old"
         /\ \E e \in net : d.kind = e.kind /\ d.port = e.port /\ d.says = e.says
<1>1. PICK e \in net : d = [e EXCEPT !.of = "old"]
  BY DEF Aged
<1>2. e \in Datagram(SUBSET Versions)
  OBVIOUS
<1>3. QED
  BY <1>1, <1>2 DEF Datagram

\* The updater's types hold after every step.
LEMMA SimTypeStep ==
  ASSUME SimType, NetType, [Next]_vars
  PROVE  SimType'
<1> USE SimAssumption DEF SimType, Versions, Goto
<1>1. CASE Start \/ StartFails \/ PressButton
  BY <1>1 DEF Start, StartFails, PressButton, Local
<1>2. CASE UseCachedTarget
  BY <1>2 DEF UseCachedTarget, CachedTarget, Local
<1>3. CASE FetchTarget
  BY <1>3 DEF FetchTarget
<1>4. CASE DownloadInit
  BY <1>4 DEF DownloadInit
<1>5. CASE GetChunk
  BY <1>5 DEF GetChunk
<1>6a. CASE DownloadFinish
  BY <1>6a DEF DownloadFinish
<1>6b. CASE AssumeVersion
  BY <1>6b DEF AssumeVersion
<1>7. CASE GivesUp
  BY <1>7 DEF GivesUp
<1>8. CASE ServeRequest
  <2>1. PICK d \in net : told' = told \cup d.says /\ UNCHANGED <<pc, version, desired, chunks, target>>
    BY <1>8 DEF ServeRequest
  <2>2. d.says \subseteq Versions
    BY DEF NetType, Datagram
  <2>3. QED
    BY <2>1, <2>2
<1>9a. CASE Restart
  BY <1>9a DEF Restart
<1>9b. CASE SetTarget
  BY <1>9b DEF SetTarget
<1>10. CASE UNCHANGED simVars
  BY <1>10 DEF simVars
<1>11. QED
  BY <1>1, <1>2, <1>3, <1>4, <1>5, <1>6a, <1>6b, <1>7, <1>8, <1>9a, <1>9b, <1>10
  DEF Next, Thread, Network, Fault, Ask, Udp, Answered, Succeeds, NotAnswered, ExchangeFails,
      MoreExchanges, vars

\* The transport's types hold after every step.
LEMMA NetTypeStep ==
  ASSUME NetType, SimType, [Next]_vars
  PROVE  NetType'
<1> USE DEF NetType
<1>1. Says \in SUBSET Versions
  BY SimAssumption DEF Says, SimType, Versions
<1>2. CASE Socket \/ SocketFails
  <2>1. Aged \subseteq Datagram(SUBSET Versions)
    BY AgedType
  <2>2. QED
    BY <1>2, <2>1 DEF Socket, SocketFails
<1>3. CASE SendTo(Says)
  BY <1>1, <1>3 DEF SendTo, Datagram
<1>4. CASE Receive
  <2>1. PICK d \in net : got' = d.of /\ net' \in {net, net \ {d}}
    BY <1>4 DEF Receive
  <2>2. d.of \in {"now", "old"}
    BY DEF Datagram
  <2>3. QED
    BY <1>4, <2>1, <2>2 DEF Receive
<1>5. CASE Ending
  BY <1>5 DEF Ending, Return, NoAnswer, SendToFails
<1>6. CASE Discard \/ Lose
  BY <1>6 DEF Discard, Lose
<1>7. CASE ServeRequest
  <2>1. PICK d \in net : Serve(d)
    BY <1>7 DEF ServeRequest
  <2>2. [d EXCEPT !.kind = "answer"] \in Datagram(SUBSET Versions)
    BY DEF Datagram
  <2>3. net' \subseteq Datagram(SUBSET Versions)
    BY <2>1, <2>2 DEF Serve
  <2>4. QED
    BY <2>1, <2>3 DEF Serve
<1>8. CASE Restart \/ UNCHANGED udpVars
  BY <1>8 DEF Restart, udpVars
<1>9. QED
  BY <1>2, <1>3, <1>4, <1>5, <1>6, <1>7, <1>8, TransportSteps

\* Both hold in every state.
LEMMA Types == Spec => [](NetType /\ SimType)
<1>1. Init => NetType /\ SimType
  BY SimAssumption DEF Init, UdpInit, NetType, SimType, Versions
<1>2. NetType /\ SimType /\ [Next]_vars => (NetType /\ SimType)'
  BY NetTypeStep, SimTypeStep
<1>3. QED
  BY <1>1, <1>2, PTL DEF Spec

\* Type correctness; no socket is closed more often than it was opened, and no
\* chunk is asked for beyond the last.
THEOREM TypeCorrect == Spec => []TypeOK
<1>1. NoSocketLeak => open \in Nat
  BY DEF NoSocketLeak
<1>2. NetType /\ SimType /\ open \in Nat => TypeOK
  BY Zenon DEF NetType, SimType, TypeOK
<1>3. QED
  BY <1>1, <1>2, Types, SocketSafe, PTL
----------------------------------------------------------------------------
(* Whose answer a call receives                                            *)

\* While a call goes on, every datagram for its port is its own: the port is
\* new, and what is under way for other ports never changes its port.
PortInv == /\ call # "none" => \A d \in net : d.port = port => d.of = "now"
           /\ OwnAnswer

\* Every step keeps that.
LEMMA PortStep ==
  ASSUME NetType, PortInv, [Next]_vars
  PROVE  PortInv'
<1> USE DEF PortInv, OwnAnswer
<1>1. CASE Socket
  <2>1. call' = "bound" /\ net' = Aged /\ \A d \in net : d.port # port'
    BY <1>1 DEF Socket
  <2>2. \A d \in Aged : d.port # port'
    BY <2>1, AgedType DEF NetType
  <2>3. QED
    BY <2>1, <2>2
<1>2. CASE SocketFails
  BY <1>2 DEF SocketFails
<1>3. CASE SendTo(Says)
  BY <1>3 DEF SendTo
<1>4. CASE Receive
  BY <1>4 DEF Receive
<1>5. CASE Ending
  BY <1>5 DEF Ending, Return, NoAnswer, SendToFails
<1>6. CASE Discard \/ Lose
  BY <1>6 DEF Discard, Lose
<1>7. CASE ServeRequest
  <2>1. PICK d \in net : Serve(d)
    BY <1>7 DEF ServeRequest
  <2>2. LET a == [d EXCEPT !.kind = "answer"] IN a.port = d.port /\ a.of = d.of
    BY DEF NetType, Datagram
  <2>3. QED
    BY <2>1, <2>2 DEF Serve
<1>8. CASE Restart \/ UNCHANGED udpVars
  BY <1>8 DEF Restart, udpVars
<1>9. QED
  BY <1>1, <1>2, <1>3, <1>4, <1>5, <1>6, <1>7, <1>8, TransportSteps

\* A call that returns success returns the answer to its own request, however
\* late, doubled or reordered the answers to earlier ones are.
THEOREM OwnAnswerSafe == Spec => []OwnAnswer
<1>1. Init => PortInv
  BY DEF Init, UdpInit, PortInv, OwnAnswer
<1>2. NetType /\ PortInv /\ [Next]_vars => PortInv'
  BY PortStep
<1>3. PortInv => OwnAnswer
  BY DEF PortInv
<1>4. QED
  BY <1>1, <1>2, <1>3, Types, PTL DEF Spec
----------------------------------------------------------------------------
(* What the backend was told                                               *)

\* What the updater would say now is said by every datagram of the call, and an
\* answer proves that the backend was told.
SaidInv == /\ call # "none" => \A d \in net : d.of = "now" => call # "bound" /\ d.says = Says
           /\ \A d \in net : d.kind = "answer" => d.says \subseteq told
           /\ call = "answered" => Says \subseteq told
           /\ ToldFirst

\* In the middle of a call the updater stands still, and so does what it says.
LEMMA Still ==
  ASSUME [Next]_vars, call # "none"
  PROVE  Says' = Says \/ call' = "none"
<1>1. CASE Thread
  BY <1>1 DEF Thread, Start, UseCachedTarget, Local, Ask, Udp, simVars, Says, Answered, NotAnswered,
              Timeout, NoAnswer, Return
<1>2. CASE Network
  BY <1>2 DEF Network, ServeRequest, Udp, simVars, Says
<1>3. CASE Fault
  BY <1>3 DEF Fault, StartFails, Local, ExchangeFails, TimeoutEarly, NoAnswer, MoreExchanges, Udp,
              Return, SocketFails, SendToFails, simVars, Says, Restart
<1>4. CASE PressButton \/ SetTarget \/ UNCHANGED vars
  BY <1>4 DEF PressButton, Local, SetTarget, vars, simVars, Says
<1>5. QED
  BY <1>1, <1>2, <1>3, <1>4 DEF Next

\* A device takes a version for its own only with the answer to its report.
LEMMA ToldStep ==
  ASSUME ToldFirst, call = "answered" => Says \subseteq told, [Next]_vars
  PROVE  ToldFirst' /\ told \subseteq told'
<1> USE DEF ToldFirst, Goto
<1>1. CASE Start \/ StartFails \/ PressButton \/ UseCachedTarget
  BY <1>1 DEF Start, StartFails, PressButton, UseCachedTarget, Local
<1>2. CASE AssumeVersion /\ Return
  BY <1>2 DEF AssumeVersion, Return, Says
<1>3. CASE FetchTarget \/ DownloadInit \/ GetChunk \/ DownloadFinish
  BY <1>3 DEF FetchTarget, DownloadInit, GetChunk, DownloadFinish
<1>4. CASE GivesUp
  BY <1>4 DEF GivesUp
<1>5. CASE ServeRequest
  BY <1>5 DEF ServeRequest
<1>6. CASE Restart \/ SetTarget
  BY <1>6 DEF Restart, SetTarget
<1>7. CASE UNCHANGED simVars
  BY <1>7 DEF simVars
<1>8. QED
  BY <1>1, <1>2, <1>3, <1>4, <1>5, <1>6, <1>7
  DEF Next, Thread, Network, Fault, Ask, Udp, Answered, Succeeds, NotAnswered, ExchangeFails,
      MoreExchanges, vars

\* Every step keeps SaidInv.
LEMMA SaidStep ==
  ASSUME NetType, PortInv, SaidInv, [Next]_vars
  PROVE  SaidInv'
<1>1. ToldFirst' /\ told \subseteq told'
  BY ToldStep DEF SaidInv
<1> USE <1>1, Still DEF SaidInv
<1>2. CASE Socket \/ SocketFails
  <2>1. \A d \in Aged : d.of = "old" /\ (d.kind = "answer" => d.says \subseteq told)
    BY AgedType DEF NetType
  <2>2. QED
    BY <1>2, <2>1 DEF Socket, SocketFails
<1>3. CASE SendTo(Says)
  BY <1>3 DEF SendTo
<1>4. CASE Receive
  <2>1. PICK d \in net : d.kind = "answer" /\ d.port = port
    BY <1>4 DEF Receive
  <2>2. d.says = Says /\ d.says \subseteq told
    BY <1>4, <2>1 DEF PortInv, Receive
  <2>3. QED
    BY <1>4, <2>2 DEF Receive
<1>5. CASE Ending
  BY <1>5 DEF Ending, Return, NoAnswer, SendToFails
<1>6. CASE Discard \/ Lose
  BY <1>6 DEF Discard, Lose
<1>7. CASE ServeRequest
  <2>1. PICK d \in net : Serve(d) /\ told' = told \cup d.says
    BY <1>7 DEF ServeRequest
  <2>2. LET a == [d EXCEPT !.kind = "answer"] IN a.of = d.of /\ a.says = d.says
    BY DEF NetType, Datagram
  <2>3. QED
    BY <2>1, <2>2 DEF Serve
<1>8. CASE Restart \/ UNCHANGED udpVars
  BY <1>8 DEF Restart, udpVars
<1>9. QED
  BY <1>2, <1>3, <1>4, <1>5, <1>6, <1>7, <1>8, TransportSteps

\* A device that runs another version than it was compiled with has told the
\* backend: a late answer to another request never passes for the report's.
THEOREM ToldSafe == Spec => []ToldFirst
<1>1. Init => PortInv /\ SaidInv
  BY DEF Init, UdpInit, PortInv, SaidInv, OwnAnswer, ToldFirst
<1>2. NetType /\ PortInv /\ SaidInv /\ [Next]_vars => (PortInv /\ SaidInv)'
  BY PortStep, SaidStep
<1>3. SaidInv => ToldFirst
  BY DEF SaidInv
<1>4. QED
  BY <1>1, <1>2, <1>3, Types, PTL DEF Spec
----------------------------------------------------------------------------
(* Versions go up, and a check comes to its end                            *)

\* The version the board calls its own goes down only when it is started again,
\* whatever the owner chooses and however late the answers are.
THEOREM ForwardSafe == Spec => [][version' >= version \/ Restart]_vars
<1>1. ASSUME SimType, [Next]_vars
      PROVE  version' >= version \/ Restart
  <2> USE <1>1 DEF SimType, Versions
  <2>1. CASE AssumeVersion
    BY <2>1 DEF AssumeVersion, Goto
  <2>2. CASE UNCHANGED version \/ Restart
    BY <2>2
  <2>3. AssumeVersion \/ UNCHANGED version \/ Restart
    BY DEF Next, Thread, Network, Fault, Start, StartFails, PressButton, UseCachedTarget, Local,
       Ask, Udp, Answered, Succeeds, FetchTarget, DownloadInit, GetChunk, DownloadFinish,
       NotAnswered, ExchangeFails, GivesUp, MoreExchanges, ServeRequest, SetTarget, simVars, vars
  <2>4. QED
    BY <2>1, <2>2, <2>3
<1>2. QED
  BY <1>1, Types, PTL DEF Spec

\* Datagrams are exchanged only in a check.
CallInv == call # "none" => pc \notin {"boot", "halted", "idle"}

\* Every step keeps that.
LEMMA CallStep ==
  ASSUME CallInv, [Next]_vars
  PROVE  CallInv'
<1> USE DEF CallInv
<1>1. CASE Start \/ StartFails \/ PressButton \/ UseCachedTarget
  BY <1>1 DEF Start, StartFails, PressButton, UseCachedTarget, Local, udpVars
<1>2. CASE Asking /\ Udp(Socket)
  BY <1>2 DEF Asking, Udp, simVars
<1>3. CASE Udp(SendTo(Says)) \/ Udp(Receive)
  BY <1>3 DEF Udp, simVars, SendTo, Receive
<1>4. CASE Answered \/ NotAnswered \/ ExchangeFails \/ MoreExchanges
  BY <1>4 DEF Answered, NotAnswered, ExchangeFails, MoreExchanges, Udp, Return, Timeout,
     TimeoutEarly, NoAnswer, SendToFails, SocketFails, Asking
<1>5. CASE Udp(Discard) \/ Udp(Lose)
  BY <1>5 DEF Udp, simVars, Discard, Lose
<1>6. CASE ServeRequest \/ SetTarget
  BY <1>6 DEF ServeRequest, Serve, SetTarget, udpVars
<1>7. CASE Restart \/ UNCHANGED vars
  BY <1>7 DEF Restart, vars, simVars, udpVars
<1>8. QED
  BY <1>1, <1>2, <1>3, <1>4, <1>5, <1>6, <1>7 DEF Next, Thread, Network, Fault, Ask

\* How many calls of the SDK the check has left at most, and how many steps the one
\* that runs.
PlaceRank == CASE pc = "check"    -> NumChunks + 5
               [] pc = "begin"    -> NumChunks + 4
               [] pc = "download" -> 3 + (NumChunks - chunks)
               [] pc = "finish"   -> 2
               [] pc = "tell"     -> 1
               [] pc = "boot"     -> 1
               [] OTHER           -> 0
CallRank == CASE call = "none"  -> 3
              [] call = "bound" -> 2
              [] call = "wait"  -> 1
              [] OTHER          -> 0
Rank == 4 * PlaceRank + CallRank

\* What the two count to.
Ranks == PlaceRank \in 0..(NumChunks + 5) /\ CallRank \in 0..3

\* They do so in every state.
LEMMA RankType ==
  ASSUME SimType
  PROVE  Ranks
<1>1. NumChunks - chunks \in 0..NumChunks
  BY SimAssumption DEF SimType
<1>2. QED
  BY <1>1, SimAssumption DEF Ranks, PlaceRank, CallRank

\* A call less outweighs every step within one.
LEMMA Weighed ==
  ASSUME NEW p \in Nat, NEW q \in Nat, NEW c \in 0..3, NEW d \in 0..3,
         q < p \/ (q = p /\ d < c)
  PROVE  4 * q + d < 4 * p + c
OBVIOUS

\* For images of every size a check is over after a bounded number of steps of its
\* thread, unless the SDK itself asks once more in the same call: no failure leads back
\* to where the check has been, and no datagram, late or doubled, takes it back.
THEOREM CheckEnds ==
  Spec => /\ [](Rank \in 0..(4 * NumChunks + 23))
          /\ [][\/ PressButton \/ MoreExchanges \/ Restart
                \/ (Network \/ Udp(Lose) \/ SetTarget) /\ UNCHANGED Rank
                \/ Rank' < Rank]_vars
<1>1. ASSUME SimType, CallInv, Ranks, Ranks', Thread \/ ExchangeFails \/ StartFails
      PROVE  Rank' < Rank
  <2>0. /\ PlaceRank \in Nat /\ CallRank \in 0..3
        /\ PlaceRank' \in Nat /\ CallRank' \in 0..3
    BY <1>1, SimAssumption DEF Ranks
  <2>1. CASE PlaceRank' < PlaceRank
    BY <2>0, <2>1, Weighed DEF Rank
  <2>2. CASE PlaceRank' = PlaceRank /\ CallRank' < CallRank
    BY <2>0, <2>2, Weighed DEF Rank
  <2>3. ASSUME GivesUp, pc \notin {"boot", "halted", "idle"}
        PROVE  PlaceRank' < PlaceRank
    BY <1>1, <2>3, SimAssumption DEF GivesUp, PlaceRank, SimType
  <2>4. CASE Start \/ StartFails \/ UseCachedTarget
    <3>1. PlaceRank' < PlaceRank
      BY <2>4, SimAssumption DEF Start, StartFails, UseCachedTarget, Local, Goto, PlaceRank
    <3>2. QED
      BY <2>1, <3>1
  <2>5. CASE Ask
    <3>1. UNCHANGED PlaceRank
      BY <2>5 DEF Ask, Udp, simVars, PlaceRank
    <3>2. CallRank' < CallRank
      BY <2>5 DEF Ask, Udp, Socket, SendTo, Receive, CallRank
    <3>3. QED
      BY <2>2, <3>1, <3>2
  <2>6. CASE Answered
    <3>1. Succeeds
      BY <2>6 DEF Answered
    <3>2. PlaceRank' < PlaceRank
      BY <1>1, <3>1, SimAssumption
      DEF Succeeds, FetchTarget, DownloadInit, GetChunk, DownloadFinish, AssumeVersion, Goto,
          PlaceRank, SimType
    <3>3. QED
      BY <2>1, <3>2
  <2>7. CASE NotAnswered \/ ExchangeFails
    <3>1. GivesUp /\ pc \notin {"boot", "halted", "idle"}
      BY <1>1, <2>7 DEF NotAnswered, ExchangeFails, CallInv, Asking, Return, Timeout, TimeoutEarly,
         NoAnswer, SendToFails
    <3>2. QED
      BY <2>1, <2>3, <3>1
  <2>8. QED
    BY <1>1, <2>4, <2>5, <2>6, <2>7 DEF Thread
<1>2. Init => CallInv
  BY DEF Init, UdpInit, CallInv
<1>3. CallInv /\ [Next]_vars => CallInv'
  BY CallStep
<1>4. SimType => Ranks
  BY RankType
<1>5. Ranks => Rank \in 0..(4 * NumChunks + 23)
  BY SimAssumption DEF Ranks, Rank
<1>6. ASSUME Network \/ Udp(Lose) \/ SetTarget
      PROVE  UNCHANGED Rank
  <2>1. UNCHANGED <<pc, chunks, call>>
    BY <1>6 DEF Network, ServeRequest, Serve, Udp, Discard, Lose, SetTarget, simVars, udpVars
  <2>2. UNCHANGED <<PlaceRank, CallRank>>
    BY <2>1 DEF PlaceRank, CallRank
  <2>3. QED
    BY <2>2 DEF Rank
<1>7. ASSUME SimType, CallInv, Ranks, Ranks', [Next]_vars, ~UNCHANGED vars
      PROVE  \/ PressButton \/ MoreExchanges \/ Restart
             \/ (Network \/ Udp(Lose) \/ SetTarget) /\ UNCHANGED Rank
             \/ Rank' < Rank
  BY <1>1, <1>6, <1>7 DEF Next, Fault
<1>8. QED
  BY <1>2, <1>3, <1>4, <1>5, <1>7, Types, PTL DEF Spec

----------------------------------------------------------------------------
(* The cached answer to a rollback                                         *)

\* The backend asked for an older version than the one that runs.
Stuck == desired # 0 /\ desired < version

\* Then nothing is under way for the updater.
SilentInv == Stuck => call = "none" /\ pc \in {"idle", "check"}

\* After a rollback was asked for and fetched, the simulated board opens no socket and
\* sends no request any more, whatever is chosen at the backend, until it is started
\* again.
THEOREM RollbackSilences ==
  Spec => []SilentInv /\ [][Stuck => Restart \/ Stuck']_vars
<1>1. Init => SilentInv
  BY DEF Init, SilentInv, Stuck
<1>2. ASSUME SimType, SilentInv, [Next]_vars
      PROVE  SilentInv' /\ (Stuck => Restart \/ Stuck')
  <2> USE <1>2 DEF SimType, Versions, SilentInv, Stuck, Goto
  <2>1. CASE Start \/ StartFails \/ PressButton
    BY <2>1 DEF Start, StartFails, PressButton, Local, udpVars
  <2>2. CASE UseCachedTarget
    BY <2>2 DEF UseCachedTarget, CachedTarget, Local, udpVars
  <2>3. CASE Ask
    BY <2>3 DEF Ask, Asking, CachedTarget, Udp, simVars, SendTo, Receive
  <2>4. CASE Answered
    <3>1. call = "answered" /\ call' = "none" /\ Succeeds
      BY <2>4 DEF Answered, Return
    <3>2. QED
      BY <3>1 DEF Succeeds, FetchTarget, DownloadInit, GetChunk, DownloadFinish, AssumeVersion
  <2>5. CASE NotAnswered \/ ExchangeFails
    <3>1. GivesUp /\ call' = "none"
      BY <2>5 DEF NotAnswered, ExchangeFails, Return, Timeout, TimeoutEarly, NoAnswer, SendToFails,
         SocketFails
    <3>2. QED
      BY <3>1 DEF GivesUp
  <2>6. CASE MoreExchanges
    BY <2>6 DEF MoreExchanges, Udp, simVars, Return
  <2>7. CASE Udp(Discard) \/ Udp(Lose)
    BY <2>7 DEF Udp, simVars, Discard, Lose
  <2>8. CASE ServeRequest \/ SetTarget
    BY <2>8 DEF ServeRequest, Serve, SetTarget, udpVars
  <2>9. CASE Restart
    BY <2>9 DEF Restart
  <2>10. CASE UNCHANGED vars
    BY <2>10 DEF vars, simVars, udpVars
  <2>11. QED
    BY <2>1, <2>2, <2>3, <2>4, <2>5, <2>6, <2>7, <2>8, <2>9, <2>10 DEF Next, Thread, Network, Fault
<1>3. QED
  BY <1>1, <1>2, Types, PTL DEF Spec
============================================================================
