------------------------------ MODULE UdpClient ------------------------------
(***************************************************************************)
(* The UDP transport: udp_send_data opens a socket, sends the request,     *)
(* waits 5 s for one datagram, and closes the socket on every way out.     *)
(*                                                                         *)
(* The network is external: a datagram may be lost, arrive late, more than *)
(* once and in any order, also after the call that it belongs to.  What    *)
(* keeps the calls apart is the ephemeral port, which is drawn anew for    *)
(* each socket; here it is not drawn again while a datagram for it is      *)
(* under way.  SERVER_ADDR is a valid address, so net_addr_pton works.     *)
(***************************************************************************)
EXTENDS Naturals

CONSTANT Ports   (* ephemeral ports                                         *)

VARIABLES
  call,   (* where udp_send_data is: "none", "bound", "wait" or "answered"  *)
  port,   (* port of its socket                                            *)
  open,   (* sockets that are open                                         *)
  got,    (* what was received belongs to this call ("now") or to an       *)
          (* earlier one ("old")                                           *)
  net     (* datagrams under way                                           *)

udpVars == <<call, port, open, got, net>>

\* A request, or the answer to it.  "says" is what the request tells the backend.
Datagram(says) == [kind : {"request", "answer"}, port : Ports, of : {"now", "old"}, says : says]

UdpInit == /\ call = "none"
           /\ port \in Ports
           /\ open = 0
           /\ got = "now"
           /\ net = {}

\* What is under way when a call begins belongs to earlier ones.
Aged == {[d EXCEPT !.of = "old"] : d \in net}

Close == open' = open - 1

----------------------------------------------------------------------------
(* udp_send_data                                                           *)

\* Mutant: one socket, and so one port, for all calls.
SocketKept == /\ call = "none"
              /\ call' = "bound"
              /\ open' = open + 1
              /\ net' = Aged
              /\ UNCHANGED <<port, got>>

Socket == /\ call = "none"
          /\ call' = "bound"
          /\ port' \in {p \in Ports : \A d \in net : d.port # p}
          /\ open' = open + 1
          /\ net' = Aged
          /\ UNCHANGED got

SocketFails == call = "none" /\ net' = Aged /\ UNCHANGED <<call, port, open, got>>

SendTo(says) == /\ call = "bound"
                /\ call' = "wait"
                /\ net' = net \cup {[kind |-> "request", port |-> port, of |-> "now", says |-> says]}
                /\ UNCHANGED <<port, open, got>>

\* Mutant: the socket is closed by the failing call already.
SendToClosesTwice == /\ call = "bound"
                     /\ call' = "none"
                     /\ open' = open - 2
                     /\ UNCHANGED <<port, got, net>>

SendToFails == /\ call = "bound"
               /\ call' = "none"
               /\ Close
               /\ UNCHANGED <<port, got, net>>

\* poll and recv; a duplicate may follow.
Receive == /\ call = "wait"
           /\ \E d \in net : /\ d.kind = "answer" /\ d.port = port
                             /\ got' = d.of
                             /\ net' \in {net, net \ {d}}
           /\ call' = "answered"
           /\ UNCHANGED <<port, open>>

Return == /\ call = "answered"
          /\ call' = "none"
          /\ Close
          /\ UNCHANGED <<port, got, net>>

\* poll returns 0 or an error, recv nothing or an error.
NoAnswer == /\ call = "wait"
            /\ call' = "none"
            /\ Close
            /\ UNCHANGED <<port, got, net>>

Underway == \E d \in net : d.of = "now"

\* Mutants: recv without a limit; a way out that keeps the socket.
TimeoutNever == FALSE
TimeoutLeaks == /\ call = "wait" /\ ~Underway
                /\ call' = "none"
                /\ UNCHANGED <<port, open, got, net>>

\* The request or its answer was lost, or it takes more than 5 s.
Timeout == ~Underway /\ NoAnswer
TimeoutEarly == Underway /\ NoAnswer

----------------------------------------------------------------------------
(* The network                                                             *)

\* A request reaches the server, and perhaps once more later on.
Serve(d) == /\ d \in net /\ d.kind = "request"
            /\ net' \in {n \cup {[d EXCEPT !.kind = "answer"]} : n \in {net, net \ {d}}}
            /\ UNCHANGED <<call, port, open, got>>

\* An answer reaches a port where nobody waits for it any more.
Discard == /\ \E d \in net : /\ d.kind = "answer"
                             /\ d.port # port \/ call = "none"
                             /\ net' = net \ {d}
           /\ UNCHANGED <<call, port, open, got>>

Lose == /\ \E d \in net : net' = net \ {d}
        /\ UNCHANGED <<call, port, open, got>>
==============================================================================
