----------------------------- MODULE SimUpdater ------------------------------
(***************************************************************************)
(* The board that is simulated on a PC (native_sim): the updater has       *)
(* neither slots nor a bootloader.  It downloads the image over UDP, tells *)
(* the backend that it runs the new version, and takes that version for    *)
(* its own until it is started again.                                      *)
(*                                                                         *)
(* One call of the SDK is one exchange over UdpClient, or several.  The    *)
(* file the image goes to is written and never read: an append works or    *)
(* fails, see FileAppend.                                                  *)
(***************************************************************************)
EXTENDS UdpClient

CONSTANTS
  MaxVersion,  (* versions are 1..MaxVersion; main.c is compiled with 1    *)
  NumChunks    (* chunks of an image                                       *)

ASSUME SimAssumption == MaxVersion \in Nat \ {0} /\ NumChunks \in Nat \ {0}

VARIABLES
  pc,       (* where the thread is                                         *)
  version,  (* context->firmware_version                                   *)
  desired,  (* context->desired_firmware_version                           *)
  chunks,   (* chunks of this download                                     *)
  target,   (* version the backend wants on the device                     *)
  told      (* versions the backend was ever told                          *)

simVars == <<pc, version, desired, chunks, target, told>>
vars == <<simVars, udpVars>>

Versions == 1..MaxVersion

Goto(from, to) == pc = from /\ pc' = to

Init == /\ UdpInit
        /\ pc = "boot"
        /\ version = 1 /\ desired = 0 /\ chunks = 0
        /\ target \in Versions
        /\ told = {}

\* A step of the updater alone, between two exchanges; a step of the transport alone.
Local(from, to) == Goto(from, to) /\ call = "none" /\ UNCHANGED udpVars
Udp(A) == A /\ UNCHANGED simVars

----------------------------------------------------------------------------
(* main(), the shell command and what needs no backend                     *)

Start == Local("boot", "idle") /\ UNCHANGED <<version, desired, chunks, target, told>>
StartFails == Local("boot", "halted") /\ UNCHANGED <<version, desired, chunks, target, told>>

\* "button press" in the shell, which runs firmware_check in its own thread.
PressButton == Local("idle", "check") /\ UNCHANGED <<version, desired, chunks, target, told>>

CachedTarget == version # desired /\ desired # 0

UseCachedTarget == /\ CachedTarget
                   /\ Local("check", IF version < desired THEN "begin" ELSE "idle")
                   /\ UNCHANGED <<version, desired, chunks, target, told>>

----------------------------------------------------------------------------
(* Exchanges                                                               *)

\* The places at which a call of the SDK needs the backend.
Asking == pc \in {"begin", "download", "finish", "tell"} \/ (pc = "check" /\ ~CachedTarget)

\* What the request tells the backend: a version, or nothing.
Says == IF pc = "tell" THEN {desired} ELSE {}

FetchTarget == /\ Goto("check", IF version < target THEN "begin" ELSE "idle")
               /\ desired' = target
               /\ UNCHANGED <<version, chunks, target, told>>

DownloadInit == /\ Goto("begin", "download")
                /\ chunks' = 0
                /\ UNCHANGED <<version, desired, target, told>>

GetChunk == /\ Goto("download", IF chunks + 1 = NumChunks THEN "finish" ELSE "download")
            /\ chunks' = chunks + 1
            /\ UNCHANGED <<version, desired, target, told>>

\* Mutant: the version is assumed before the backend is told.
FinishAssumes == /\ Goto("finish", "tell")
                 /\ version' = desired
                 /\ UNCHANGED <<desired, chunks, target, told>>

DownloadFinish == /\ Goto("finish", "tell")
                  /\ UNCHANGED <<version, desired, chunks, target, told>>

AssumeVersion == /\ Goto("tell", "idle")
                 /\ version' = desired
                 /\ UNCHANGED <<desired, chunks, target, told>>

Succeeds == FetchTarget \/ DownloadInit \/ GetChunk \/ DownloadFinish \/ AssumeVersion

\* The call of the SDK, or the append after it, fails: firmware_check returns.
GivesUp == /\ pc' = "idle"
           /\ UNCHANGED <<version, desired, chunks, target, told>>

Ask == \/ Asking /\ Udp(Socket)
       \/ Udp(SendTo(Says))
       \/ Udp(Receive)

Answered == Return /\ Succeeds

NotAnswered == Timeout /\ GivesUp

\* Refused by the SDK, not written to the file, or the socket fails.
ExchangeFails == \/ Return /\ GivesUp
                 \/ Asking /\ SocketFails /\ GivesUp
                 \/ SendToFails /\ GivesUp
                 \/ TimeoutEarly /\ GivesUp

\* The SDK asks again before it returns.
MoreExchanges == Udp(Return)

----------------------------------------------------------------------------
(* The rest of the world                                                   *)

\* The server handles a request, the one of this call or an earlier one.
ServeRequest == \E d \in net : /\ Serve(d)
                               /\ told' = told \cup d.says
                               /\ UNCHANGED <<pc, version, desired, chunks, target>>

\* The simulator is stopped and started again; datagrams stay under way.
Restart == /\ pc' = "boot"
           /\ version' = 1 /\ desired' = 0 /\ chunks' = 0
           /\ call' = "none" /\ open' = 0
           /\ UNCHANGED <<port, got, net, target, told>>

SetTarget == /\ target' \in Versions
             /\ UNCHANGED <<pc, version, desired, chunks, told, udpVars>>

----------------------------------------------------------------------------
Thread == Start \/ UseCachedTarget \/ Ask \/ Answered \/ NotAnswered
Network == ServeRequest \/ Udp(Discard)
Fault == StartFails \/ ExchangeFails \/ MoreExchanges \/ Udp(Lose) \/ Restart

Next == Thread \/ Network \/ Fault \/ PressButton \/ SetTarget

Spec == Init /\ [][Next]_vars

\* The thread runs, what is under way arrives, "button press" is typed again and again.
FairSpec == Spec /\ WF_vars(Thread) /\ WF_vars(Network) /\ WF_vars(PressButton)

----------------------------------------------------------------------------
(* Properties                                                              *)

\* Types of the variables; sockets are closed no more often than opened.
TypeOK == /\ call \in {"none", "bound", "wait", "answered"}
          /\ port \in Ports
          /\ open \in Nat
          /\ got \in {"now", "old"}
          /\ net \subseteq Datagram(SUBSET Versions)
          /\ pc \in {"boot", "halted", "idle", "check", "begin", "download", "finish", "tell"}
          /\ version \in Versions /\ desired \in 0..MaxVersion /\ target \in Versions
          /\ chunks \in 0..NumChunks
          /\ told \subseteq Versions

\* udp_send_data returns success only with the answer to its own request, although
\* answers to earlier ones are late, doubled and out of order.
OwnAnswer == call = "answered" => got = "now"

\* Every way out of udp_send_data closes the socket, and only once.
NoSocketLeak == open = IF call = "none" THEN 0 ELSE 1

\* A device that runs a version has told the backend so before: an answer to
\* another request is never taken for the one to the report.
ToldFirst == version = 1 \/ version \in told

\* Once datagrams arrive, the device gets the version it is asked for and the backend
\* has heard of it: an exchange that failed, the report included, is made again.
Converges == \A v \in Versions :
               [](target >= version) /\ <>[](target = v) /\ <>[][~Fault]_vars
                 => <>(pc = "halted" \/ (version = v /\ (v = 1 \/ v \in told)))
==============================================================================
