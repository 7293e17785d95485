------------------------------ MODULE Traffic -------------------------------
(***************************************************************************)
(* The network workloads: run_network and connect_peer on the device, and  *)
(* traffic_peer of the CLI, over one TCP connection.  The peer is the one  *)
(* the README tells to start: sink for NET_TX, source for NET_RX, echo for *)
(* NET_BIDIRECTIONAL.                                                      *)
(*                                                                         *)
(* TCP is external: each direction holds at most Buffer units in the       *)
(* buffers of both ends; a closed end answers what still arrives with a    *)
(* reset; closing with unread data resets at once; and the link can go     *)
(* down for good, after which nothing arrives and nobody is told.          *)
(***************************************************************************)
EXTENDS BodyLoop

CONSTANT Buffer   \* units in flight, sent and not yet read

ASSUME TrafficAssumption == Buffer \in Nat \ {0}

VARIABLES
  link,       \* the network works
  up, down,   \* units on their way to the peer, and to the device
  left,       \* units of the block the device is sending
  deviceEnd,  \* "none" before the connection, "open", or how it was closed
  peerEnd,
  peer,       \* traffic_peer: where it is, its sendall, bytes_tx and bytes_rx
  peer_late   \* the peer's own deadline has passed

wires == <<up, down>>
trafficVars == <<link, wires, left, deviceEnd, peerEnd, peer, peer_late>>

\* listen(1) lets a device connect to a peer that still serves another one.
TrafficInit ==
  /\ link = TRUE /\ up = 0 /\ down = 0 /\ left = 0
  /\ deviceEnd = "none" /\ peerEnd = "none"
  /\ \E at \in {"accept", "busy"} :
       peer = [pc |-> at, left |-> 0, size |-> 0, tx |-> 0, rx |-> 0]
  /\ peer_late = FALSE

Listening == peer.pc \in {"accept", "busy"}

-----------------------------------------------------------------------------
(* The device.                                                             *)

\* getaddrinfo, and the addresses it gives one after the other.
Connect ==
  /\ pc = "body" /\ workload \in NetLoad /\ deviceEnd = "none"
  /\ \/ /\ link /\ Listening
        /\ deviceEnd' = "open" /\ peerEnd' = "open" /\ GoTo("turn")
     \/ /\ pc' = "verdict" /\ ok' = FALSE
        /\ UNCHANGED <<workload, a, b, flags, result, deviceEnd, peerEnd>>
  /\ UNCHANGED <<link, wires, left, peer, peer_late>>

\* The delay for rate_bps lets time pass and changes nothing.
Turn ==
  /\ pc = "turn"
  /\ IF Going
     THEN /\ MayGo
          /\ left' = IF workload = "NET_RX" THEN 0 ELSE IO_BLOCK
          /\ GoTo(IF workload = "NET_RX" THEN "recv" ELSE "send")
     ELSE GoTo("close") /\ UNCHANGED left
  /\ UNCHANGED <<link, wires, deviceEnd, peerEnd, peer, peer_late>>

\* send returns when the whole block is queued, and only then is it counted.
Queue ==
  /\ left' = left - 1
  /\ IF left = 1
     THEN /\ a' = a + IO_BLOCK
          /\ pc' = IF workload = "NET_TX" THEN "turn" ELSE "recv"
          /\ UNCHANGED <<workload, ok, b, flags, result>>
     ELSE UNCHANGED loopVars

Send ==
  /\ pc = "send"
  /\ \/ peerEnd = "open" /\ up < Buffer /\ up' = up + 1 /\ UNCHANGED peerEnd
     \/ link /\ peerEnd = "fin" /\ peerEnd' \in {"fin", "rst"} /\ UNCHANGED up
  /\ Queue
  /\ UNCHANGED <<link, down, deviceEnd, peer, peer_late>>

Broken == link /\ peerEnd = "rst"

\* An error, the end of the peer's data, or the retransmissions of a lost link.
TransferFails ==
  /\ \/ pc = "send" /\ (Broken \/ ~link)
     \/ pc = "recv" /\ (Broken \/ (link /\ peerEnd = "fin" /\ down = 0))
  /\ pc' = "close" /\ ok' = FALSE
  /\ UNCHANGED <<workload, a, b, flags, result, trafficVars>>

Smaller(m, n) == IF m < n THEN m ELSE n

Recv ==
  /\ pc = "recv" /\ link
  /\ \E n \in 1..Smaller(down, IO_BLOCK) :
       down' = down - n /\ b' = b + n
  /\ pc' = "turn"
  /\ UNCHANGED <<workload, ok, a, flags, result>>
  /\ UNCHANGED <<link, up, left, deviceEnd, peerEnd, peer, peer_late>>

\* lwIP resets a connection that is closed with unread data.
Closed(unread) == IF unread > 0 THEN "rst" ELSE "fin"

\* shutdown and close.
Close ==
  /\ pc = "close"
  /\ deviceEnd' = Closed(down)
  /\ Return(ok)
  /\ UNCHANGED <<link, wires, left, peerEnd, peer, peer_late>>

DeviceStep == Connect \/ Turn \/ Send \/ TransferFails \/ Recv \/ Close

-----------------------------------------------------------------------------
(* The peer.                                                               *)

\* Leaving "with conn" closes the connection.
PeerCloses(how) ==
  /\ peer' = [peer EXCEPT !.pc = how]
  /\ peerEnd' = IF peerEnd = "none" THEN "none" ELSE Closed(up)

Accept ==
  /\ peer.pc = "accept" /\ deviceEnd # "none"
  /\ peer' = [peer EXCEPT !.pc = "loop"]
  /\ UNCHANGED peerEnd

\* socket.timeout of accept is not caught.
AcceptTimesOut ==
  /\ peer.pc = "accept" /\ deviceEnd = "none" /\ peer_late
  /\ PeerCloses("crashed")

\* The connection in the backlog is reset when the other one has been served.
BusyEnds ==
  /\ peer.pc = "busy"
  /\ peer' = [peer EXCEPT !.pc = "gone"]
  /\ peerEnd' = IF peerEnd = "none" THEN "none" ELSE "rst"

PeerLoop ==
  /\ peer.pc = "loop"
  /\ \/ peer_late /\ PeerCloses("reported")
     \/ /\ ~peer_late /\ peer.tx < MaxBytes
        /\ peer' = IF workload = "NET_RX"
                   THEN [peer EXCEPT !.pc = "send", !.left = IO_BLOCK, !.size = IO_BLOCK]
                   ELSE [peer EXCEPT !.pc = "recv"]
        /\ UNCHANGED peerEnd

\* Mutant: a short read is counted as a whole block.
Counted_Block(n) == IO_BLOCK
Counted(n) == n

PeerRecv ==
  /\ peer.pc = "recv" /\ link
  /\ \E n \in 1..Smaller(up, IO_BLOCK) :
       /\ up' = up - n
       /\ peer' = [peer EXCEPT !.rx = @ + Counted(n), !.left = n, !.size = n,
                     !.pc = IF workload = "NET_BIDIRECTIONAL" THEN "send" ELSE "loop"]
  /\ UNCHANGED <<down, deviceEnd, peerEnd>>

\* recv returned nothing: the loop is left and the counts are reported.
PeerEof ==
  /\ peer.pc = "recv" /\ link /\ up = 0 /\ deviceEnd = "fin"
  /\ PeerCloses("eof")

\* One more unit of sendall; bytes_tx counts when all of it is queued.
PeerSend ==
  /\ peer.pc = "send"
  /\ \/ deviceEnd = "open" /\ down < Buffer /\ down' = down + 1 /\ UNCHANGED deviceEnd
     \/ link /\ deviceEnd = "fin" /\ deviceEnd' \in {"fin", "rst"} /\ UNCHANGED down
  /\ peer' = IF peer.left = 1
             THEN [peer EXCEPT !.pc = "loop", !.left = 0, !.tx = @ + peer.size]
             ELSE [peer EXCEPT !.left = @ - 1]
  /\ UNCHANGED <<up, peerEnd>>

\* Mutant: the connection has no timeout.
SecondPasses_Never == FALSE
\* conn.settimeout(1.0); a sendall that times out has sent what it has sent.
SecondPasses == peer.pc \in {"recv", "send"}

PeerTimesOut ==
  /\ SecondPasses
  /\ peer' = [peer EXCEPT !.pc = "loop", !.left = 0]
  /\ UNCHANGED peerEnd

\* ConnectionResetError is no socket.timeout: a traceback, and no report.
PeerReset ==
  /\ peer.pc \in {"recv", "send"} /\ link /\ deviceEnd = "rst"
  /\ PeerCloses("crashed")

PeerStep ==
  /\ \/ PeerRecv
     \/ PeerSend
     \/ /\ Accept \/ AcceptTimesOut \/ BusyEnds \/ PeerLoop
           \/ PeerEof \/ PeerTimesOut \/ PeerReset
        /\ UNCHANGED <<wires, deviceEnd>>
  /\ UNCHANGED <<loopVars, link, left, peer_late>>

PeerDeadline ==
  /\ ~peer_late /\ peer_late' = TRUE
  /\ UNCHANGED <<loopVars, link, wires, left, deviceEnd, peerEnd, peer>>

LinkLost ==
  /\ link /\ link' = FALSE
  /\ UNCHANGED <<loopVars, wires, left, deviceEnd, peerEnd, peer, peer_late>>

TrafficStep == DeviceStep \/ PeerStep \/ PeerDeadline \/ LinkLost
=============================================================================
