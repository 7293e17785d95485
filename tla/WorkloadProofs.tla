--------------------------- MODULE WorkloadProofs ---------------------------
(***************************************************************************)
(* Proofs, for partitions, blocks and buffers of any size, that the bodies *)
(* of the workloads do to the flash, to NVS and to their peer what their   *)
(* reports say, and that a run is what was asked for.                      *)
(***************************************************************************)
EXTENDS Workload, FiniteSetTheorems, TLAPS

-----------------------------------------------------------------------------
(* Type correctness.                                                       *)

\* The initial states, the firmware's and the client's, have their types.
LEMMA InitType == Init => TypeOK
<1> SUFFICES ASSUME Init PROVE TypeOK
  OBVIOUS
<1>1. LoopType
  BY DEF Init, LoopType, Known, Place
<1>2. FlashType
  <2>1. flash \in [Area -> [Offset -> Cell]]
    BY DEF Init, FlashInit, Cell
  <2>2. 0 \in 0..Blocks /\ pc = "posted"
    BY FlashAssumption DEF Init
  <2> QED
    BY <2>1, <2>2 DEF Init, FlashInit, FlashType
<1>3. TrafficType
  <2>1. 0 \in 0..Buffer /\ 0 \in 0..IO_BLOCK /\ 0 \in Nat
    BY TrafficAssumption, LoopAssumption
  <2>2. peer \in PeerRecord
    BY <2>1 DEF Init, TrafficInit, PeerPlace, PeerRecord
  <2>3. /\ link = TRUE /\ up = 0 /\ down = 0 /\ left = 0 /\ peer_late = FALSE
        /\ deviceEnd = "none" /\ peerEnd = "none"
    BY DEF Init, TrafficInit
  <2> QED
    BY <2>1, <2>2, <2>3 DEF TrafficType
<1>4. runs \in 0..MaxRuns /\ associated \in BOOLEAN
  <2>1. runs = MaxRuns /\ associated = FALSE
    BY DEF Init
  <2>2. MaxRuns \in 0..MaxRuns
    BY RunsAssumption
  <2> QED
    BY <2>1, <2>2, Zenon
<1> QED
  BY <1>1, <1>2, <1>3, <1>4 DEF TypeOK

\* The ways a body goes on keep the types of what the bodies share.
LEMMA LoopStepType ==
  ASSUME LoopType
  PROVE  /\ \A place \in Place : GoTo(place) => LoopType'
         /\ \A value \in BOOLEAN : Return(value) => LoopType'
         /\ NvsGivesUp => LoopType'
         /\ UNCHANGED loopVars => LoopType'
BY DEF LoopType, GoTo, Return, NvsGivesUp, loopVars, flags, Place

\* Storing a block keeps the flash well typed.
LEMMA PutType ==
  ASSUME FlashType, NEW content \in Cell, Put(content)
  PROVE  flash' \in [Area -> [Offset -> Cell]]
BY DEF FlashType, Put

\* The steps of a body on the flash or in NVS keep the types.
LEMMA FlashStepType ==
  ASSUME TypeOK, InPlace, Flash
  PROVE  TypeOK'
<1> USE DEF flashVars
<1>0. LoopType /\ FlashType
  BY DEF TypeOK
<1>1. TrafficType' /\ runs' \in 0..MaxRuns /\ associated' \in BOOLEAN
  BY DEF Flash, TypeOK, TrafficType, trafficVars, wires, others
<1>p. {"loop", "erase", "write", "verify", "nvs_loop", "nvs_erase", "verdict"}
        \subseteq Place
  BY DEF Place
<1>2. CASE OpenPartition
  <2>1. LoopType'
    BY <1>0, <1>2, <1>p, LoopStepType DEF OpenPartition
  <2>2. FlashType'
    BY <1>0, <1>2, FlashAssumption
    DEF OpenPartition, FlashType, GoTo, Return, Target, Area
  <2> QED
    BY <1>1, <2>1, <2>2 DEF TypeOK
<1>3. CASE CycleLoop
  <2>1. LoopType'
    BY <1>0, <1>3, <1>p, LoopStepType DEF CycleLoop
  <2>2. FlashType'
    BY <1>0, <1>3, FlashAssumption
    DEF CycleLoop, FlashType, GoTo, Return, Wrapped, Offset
  <2> QED
    BY <1>1, <2>1, <2>2 DEF TypeOK
<1>4. CASE OutOfRange
  BY <1>0, <1>4 DEF OutOfRange, FlashType, Offset
<1>5. CASE EraseBlock
  <2>1. flash' \in [Area -> [Offset -> Cell]]
    BY <1>0, <1>5, PutType DEF EraseBlock, Erased, Cell
  <2>2. LoopType'
    BY <1>0, <1>5, <1>p, LoopStepType DEF EraseBlock
  <2>3. FlashType'
    BY <1>0, <1>5, <2>1 DEF EraseBlock, FlashType, GoTo, Return
  <2> QED
    BY <1>1, <2>2, <2>3 DEF TypeOK
<1>6. CASE WriteBlock
  <2>1. flash' \in [Area -> [Offset -> Cell]]
    BY <1>0, <1>6, PutType DEF WriteBlock, Cell
  <2>2. LoopType'
    BY <1>0, <1>6, <1>p, LoopStepType DEF WriteBlock
  <2>3. FlashType'
    BY <1>0, <1>6, <2>1 DEF WriteBlock, FlashType, GoTo, Return
  <2> QED
    BY <1>1, <2>2, <2>3 DEF TypeOK
<1>7. CASE VerifyBlock
  <2>1. LoopType'
    <3>1. CASE Return(FALSE)
      BY <1>0, <3>1, LoopStepType
    <3>2. CASE a' = a + IO_BLOCK /\ pc' = "loop"
               /\ UNCHANGED <<workload, ok, b, flags, result>>
      BY <1>0, <3>2, <1>p, LoopAssumption DEF LoopType, flags
    <3> QED
      BY <1>7, <3>1, <3>2 DEF VerifyBlock
  <2>2. FlashType'
    <3>1. offset' \in 0..Blocks /\ pc' \notin {"erase", "write", "verify"}
      BY <1>0, <1>7, FlashAssumption DEF VerifyBlock, FlashType, Return, Offset
    <3> QED
      BY <1>0, <1>7, <3>1 DEF VerifyBlock, FlashType
  <2> QED
    BY <1>1, <2>1, <2>2 DEF TypeOK
<1>8. CASE OpenNvs
  <2>1. LoopType'
    BY <1>0, <1>8, <1>p, LoopStepType DEF OpenNvs
  <2>2. FlashType'
    BY <1>0, <1>8 DEF OpenNvs, FlashType, GoTo, Return
  <2> QED
    BY <1>1, <2>1, <2>2 DEF TypeOK
<1>9. CASE NvsLoop
  <2>1. LoopType'
    <3>1. CASE NvsGivesUp \/ GoTo("nvs_erase")
      BY <1>0, <1>p, <3>1, LoopStepType
    <3>2. CASE a' = a + IO_BLOCK /\ UNCHANGED <<workload, pc, ok, b, flags, result>>
      BY <1>0, <3>2, LoopAssumption DEF LoopType, flags
    <3> QED
      BY <1>9, <3>1, <3>2 DEF NvsLoop
  <2>2. FlashType'
    BY <1>0, <1>9 DEF NvsLoop, FlashType, GoTo, NvsGivesUp
  <2> QED
    BY <1>1, <2>1, <2>2 DEF TypeOK
<1>10. CASE NvsErase
  <2>1. LoopType'
    BY <1>0, <1>10, LoopStepType DEF NvsErase, LoopType
  <2>2. FlashType'
    BY <1>0, <1>10 DEF NvsErase, FlashType, Return
  <2> QED
    BY <1>1, <2>1, <2>2 DEF TypeOK
<1> QED
  BY <1>2, <1>3, <1>4, <1>5, <1>6, <1>7, <1>8, <1>9, <1>10 DEF Flash, FlashStep

\* A program counter that moves between places keeps the types of the loop.
LEMMA MoveType ==
  ASSUME LoopType, pc' \in Place, ok' \in BOOLEAN, UNCHANGED <<workload, flags, result>>,
         a' \in Nat, b' \in Nat
  PROVE  LoopType'
BY DEF LoopType, flags

\* The steps of the two ends of a connection keep the types.
LEMMA NetStepType ==
  ASSUME TypeOK, InPlace, Net
  PROVE  TypeOK'
<1> USE DEF wires, trafficVars, loopVars
<1>0. LoopType /\ FlashType /\ TrafficType /\ a \in Nat /\ b \in Nat
      /\ ok \in BOOLEAN /\ pc \in Place
  BY DEF TypeOK, LoopType
<1>1. runs' \in 0..MaxRuns /\ associated' \in BOOLEAN
  BY DEF Net, TypeOK, others
<1>p. {"turn", "send", "recv", "close", "verdict"} \subseteq Place
  BY DEF Place
<1>f. (pc' \in {"erase", "write", "verify"} => UNCHANGED pc) => FlashType'
  BY <1>0 DEF Net, flashVars, FlashType
<1>2. CASE Connect
  <2>1. LoopType'
    BY <1>0, <1>2, <1>p, LoopStepType, MoveType DEF Connect
  <2>2. TrafficType'
    BY <1>0, <1>2 DEF Connect, TrafficType
  <2>3. FlashType'
    BY <1>f, <1>2 DEF Connect, GoTo
  <2> QED
    BY <1>1, <2>1, <2>2, <2>3 DEF TypeOK
<1>3. CASE Turn
  <2>1. LoopType'
    BY <1>0, <1>3, <1>p, LoopStepType DEF Turn
  <2>2. TrafficType'
    BY <1>0, <1>3, LoopAssumption DEF Turn, TrafficType
  <2>3. FlashType'
    BY <1>f, <1>3 DEF Turn, GoTo
  <2> QED
    BY <1>1, <2>1, <2>2, <2>3 DEF TypeOK
<1>4. CASE Send
  <2>1. LoopType'
    <3>1. CASE left = 1
      BY <1>0, <1>4, <1>p, <3>1, LoopAssumption, MoveType DEF Send, Queue
    <3>2. CASE left # 1
      BY <1>0, <1>4, <3>2, LoopStepType DEF Send, Queue
    <3> QED
      BY <3>1, <3>2
  <2>2. left' \in 0..IO_BLOCK
    BY <1>0, <1>4, LoopAssumption DEF Send, Queue, InPlace, TrafficType
  <2>3. up' \in 0..Buffer /\ peerEnd' \in {"none", "open", "fin", "rst"}
    BY <1>0, <1>4, TrafficAssumption DEF Send, TrafficType
  <2>4. TrafficType'
    BY <1>0, <1>4, <2>2, <2>3 DEF Send, TrafficType
  <2>5. FlashType'
    BY <1>f, <1>4 DEF Send, Queue
  <2> QED
    BY <1>1, <2>1, <2>4, <2>5 DEF TypeOK
<1>5. CASE TransferFails
  <2>1. LoopType'
    BY <1>0, <1>5, <1>p, MoveType DEF TransferFails
  <2>2. TrafficType'
    BY <1>0, <1>5 DEF TransferFails, TrafficType
  <2>3. FlashType'
    BY <1>f, <1>5 DEF TransferFails
  <2> QED
    BY <1>1, <2>1, <2>2, <2>3 DEF TypeOK
<1>6. CASE Recv
  <2>1. PICK n \in 1..Smaller(down, IO_BLOCK) : down' = down - n /\ b' = b + n
    BY <1>6 DEF Recv
  <2>2. n \in Nat /\ down - n \in 0..Buffer
    BY <1>0, <2>1, TrafficAssumption, LoopAssumption DEF TrafficType, Smaller
  <2>3. LoopType'
    BY <1>0, <1>6, <1>p, <2>1, <2>2, MoveType DEF Recv
  <2>4. TrafficType'
    BY <1>0, <1>6, <2>1, <2>2 DEF Recv, TrafficType
  <2>5. FlashType'
    BY <1>f, <1>6 DEF Recv
  <2> QED
    BY <1>1, <2>3, <2>4, <2>5 DEF TypeOK
<1>7. CASE Close
  <2>1. LoopType'
    BY <1>0, <1>7, LoopStepType DEF Close
  <2>2. TrafficType'
    BY <1>0, <1>7 DEF Close, Closed, TrafficType
  <2>3. FlashType'
    BY <1>f, <1>7 DEF Close, Return
  <2> QED
    BY <1>1, <2>1, <2>2, <2>3 DEF TypeOK
<1>8. CASE PeerStep
  <2>1. LoopType' /\ FlashType' /\ peer_late' \in BOOLEAN /\ link' \in BOOLEAN
        /\ left' \in 0..IO_BLOCK
    BY <1>0, <1>8, <1>f, LoopStepType DEF PeerStep, TrafficType
  <2> DEFINE Rest == /\ up' \in 0..Buffer /\ down' \in 0..Buffer
                     /\ deviceEnd' \in {"none", "open", "fin", "rst"}
                     /\ peerEnd' \in {"none", "open", "fin", "rst"}
                     /\ peer' \in PeerRecord
  <2>2. ASSUME Rest PROVE TypeOK'
    BY <1>1, <2>1, <2>2 DEF TypeOK, TrafficType
  <2>3. /\ up \in 0..Buffer /\ down \in 0..Buffer
        /\ deviceEnd \in {"none", "open", "fin", "rst"}
        /\ peerEnd \in {"none", "open", "fin", "rst"}
        /\ peer \in PeerRecord
    BY <1>0 DEF TrafficType
  <2>4. /\ \A how \in PeerPlace : [peer EXCEPT !.pc = how] \in PeerRecord
        /\ \A how \in PeerPlace, n \in 0..IO_BLOCK :
             [peer EXCEPT !.pc = how, !.left = n] \in PeerRecord
        /\ \A how \in PeerPlace, n \in 0..IO_BLOCK, t \in Nat :
             [peer EXCEPT !.pc = how, !.left = n, !.tx = t] \in PeerRecord
        /\ \A how \in PeerPlace, n \in 0..IO_BLOCK, m \in 0..IO_BLOCK :
             [peer EXCEPT !.pc = how, !.left = n, !.size = m] \in PeerRecord
        /\ \A how \in PeerPlace, n \in 0..IO_BLOCK, m \in 0..IO_BLOCK, r \in Nat :
             [peer EXCEPT !.rx = r, !.left = n, !.size = m, !.pc = how] \in PeerRecord
    BY <2>3 DEF PeerRecord
  <2>z. {0, IO_BLOCK} \subseteq 0..IO_BLOCK
        /\ {"loop", "send", "recv", "reported"} \subseteq PeerPlace
    BY LoopAssumption DEF PeerPlace
  <2>5. Closed(up) \in {"fin", "rst"}
    BY DEF Closed
  <2>6. CASE PeerRecv
    <3>1. PICK n \in 1..Smaller(up, IO_BLOCK) :
            /\ up' = up - n
            /\ peer' = [peer EXCEPT !.rx = @ + Counted(n), !.left = n, !.size = n,
                 !.pc = IF workload = "NET_BIDIRECTIONAL" THEN "send" ELSE "loop"]
      BY <2>6 DEF PeerRecv
    <3>2. n \in Nat /\ n \in 0..IO_BLOCK /\ up - n \in 0..Buffer
      BY <2>3, <3>1, TrafficAssumption, LoopAssumption DEF Smaller
    <3>3. peer' \in PeerRecord
      <4>1. peer.rx + n \in Nat
        BY <2>3, <3>2 DEF PeerRecord
      <4>2. (IF workload = "NET_BIDIRECTIONAL" THEN "send" ELSE "loop") \in PeerPlace
        BY DEF PeerPlace
      <4> QED
        BY <2>4, <3>1, <3>2, <4>1, <4>2 DEF Counted
    <3> QED
      BY <2>2, <2>3, <2>6, <3>1, <3>2, <3>3 DEF PeerRecv
  <2>7. CASE PeerSend
    <3>1. peer.left \in 1..IO_BLOCK
      BY <2>3, <2>7, LoopAssumption DEF PeerSend, InPlace, PeerRecord
    <3>2. peer' \in PeerRecord
      <4>1. peer.tx + peer.size \in Nat /\ 0 \in 0..IO_BLOCK
            /\ {"loop", "send"} \subseteq PeerPlace
        BY <2>3, LoopAssumption DEF PeerRecord, PeerPlace
      <4>2. CASE peer.left = 1
        BY <2>4, <2>7, <4>1, <4>2 DEF PeerSend
      <4>3. CASE peer.left # 1
        <5>1. peer.left - 1 \in 0..IO_BLOCK
          BY <3>1, <4>3, LoopAssumption
        <5>2. peer' = [peer EXCEPT !.left = peer.left - 1]
          BY <2>7, <4>3 DEF PeerSend
        <5> QED
          BY <2>3, <5>1, <5>2 DEF PeerRecord
      <4> QED
        BY <4>2, <4>3
    <3>3. down' \in 0..Buffer
      BY <2>3, <2>7, TrafficAssumption DEF PeerSend
    <3> QED
      BY <2>2, <2>3, <2>7, <3>2, <3>3 DEF PeerSend
  <2>8. CASE /\ Accept \/ AcceptTimesOut \/ BusyEnds \/ PeerLoop
                \/ PeerEof \/ PeerTimesOut \/ PeerReset
             /\ UNCHANGED <<wires, deviceEnd>>
    <3>1. peerEnd' \in {"none", "open", "fin", "rst"}
      BY <2>3, <2>5, <2>8
      DEF Accept, AcceptTimesOut, BusyEnds, PeerLoop, PeerEof, PeerTimesOut, PeerReset,
          PeerCloses
    <3>2. CASE Accept \/ AcceptTimesOut \/ BusyEnds \/ PeerEof \/ PeerReset
      BY <2>2, <2>3, <2>4, <2>8, <3>1, <3>2
      DEF Accept, AcceptTimesOut, BusyEnds, PeerEof, PeerReset, PeerCloses, PeerPlace
    <3>3. CASE PeerLoop
      <4>1. peer' \in PeerRecord
        <5>1. \/ peer' = [peer EXCEPT !.pc = "reported"]
              \/ peer' = [peer EXCEPT !.pc = "send", !.left = IO_BLOCK, !.size = IO_BLOCK]
              \/ peer' = [peer EXCEPT !.pc = "recv"]
          BY <3>3 DEF PeerLoop, PeerCloses
        <5>2. "send" \in PeerPlace /\ IO_BLOCK \in 0..IO_BLOCK
              /\ "reported" \in PeerPlace /\ "recv" \in PeerPlace
          BY <2>z
        <5>3. [peer EXCEPT !.pc = "send", !.left = IO_BLOCK, !.size = IO_BLOCK] \in PeerRecord
          BY <2>3, <5>2 DEF PeerRecord
        <5>4. [peer EXCEPT !.pc = "reported"] \in PeerRecord
              /\ [peer EXCEPT !.pc = "recv"] \in PeerRecord
          BY <2>4, <5>2
        <5> QED
          BY <5>1, <5>3, <5>4
      <4> QED
        BY <2>2, <2>3, <2>8, <3>1, <4>1
    <3>4. CASE PeerTimesOut
      <4>1. peer' \in PeerRecord
        BY <2>4, <2>z, <3>4 DEF PeerTimesOut
      <4> QED
        BY <2>2, <2>3, <2>8, <3>1, <4>1
    <3> QED
      BY <2>8, <3>2, <3>3, <3>4
  <2> QED
    BY <1>8, <2>6, <2>7, <2>8 DEF PeerStep
<1>9. CASE PeerDeadline \/ LinkLost
  <2>1. LoopType' /\ FlashType'
    BY <1>0, <1>9, <1>f, LoopStepType DEF PeerDeadline, LinkLost
  <2>2. TrafficType'
    BY <1>0, <1>9 DEF PeerDeadline, LinkLost, TrafficType
  <2> QED
    BY <1>1, <2>1, <2>2 DEF TypeOK
<1> QED
  BY <1>2, <1>3, <1>4, <1>5, <1>6, <1>7, <1>8, <1>9 DEF Net, TrafficStep, DeviceStep

\* What the other steps leave alone.
Others == RunsPost \/ Begin \/ LookAssociated \/ Wait \/ Cpu \/ Verdict
          \/ Deadline \/ Abort \/ Associate \/ Reset

\* The steps of the other bodies, of the client and of the clock keep the types.
LEMMA OtherStepType ==
  ASSUME TypeOK, Others
  PROVE  TypeOK'
<1>0. LoopType /\ FlashType /\ TrafficType /\ runs \in 0..MaxRuns /\ associated \in BOOLEAN
  BY DEF TypeOK
<1>p. {"accepted", "refused", "idle", "body", "wait", "verdict"} \subseteq Place
  BY DEF Place
<1>1. TrafficType'
  BY <1>0 DEF Others, RunsPost, Begin, LookAssociated, Wait, Cpu, Verdict, Deadline, Abort,
     Associate, Reset, bodyVars, trafficVars, wires, TrafficType
<1>2. FlashType'
  <2>1. UNCHANGED <<running, flash, target, offset, payload>> /\ fault' \in {fault, "none"}
    BY DEF Others, RunsPost, Begin, LookAssociated, Wait, Cpu, Verdict, Deadline, Abort,
       Associate, Reset, bodyVars, flashVars
  <2>2. pc' \in {"erase", "write", "verify"} => UNCHANGED pc
    BY DEF Others, RunsPost, Begin, LookAssociated, Wait, Cpu, Verdict, Deadline, Abort,
       Associate, Reset, GoTo, Return, loopVars
  <2> QED
    BY <1>0, <2>1, <2>2 DEF FlashType
<1>3. LoopType'
  <2>1. CASE RunsPost
    BY <1>0, <1>p, <2>1, LoopStepType DEF RunsPost
  <2>2. CASE Begin
    BY <1>0, <1>p, <2>2 DEF Begin, LoopType
  <2>3. CASE LookAssociated \/ Wait
    BY <1>0, <1>p, <2>3 DEF LookAssociated, Wait, LoopType, flags
  <2>4. CASE Cpu
    <3>1. CASE Return(TRUE)
      BY <1>0, <3>1, LoopStepType
    <3>2. CASE a' = a + IO_BLOCK /\ UNCHANGED <<workload, pc, ok, b, flags, result>>
      BY <1>0, <3>2, LoopAssumption DEF LoopType, flags
    <3> QED
      BY <2>4, <3>1, <3>2 DEF Cpu
  <2>5. CASE Verdict
    BY <1>0, <1>p, <2>5 DEF Verdict, LoopType, flags
  <2>6. CASE Deadline \/ Abort \/ Reset
    BY <1>0, <1>p, <2>6 DEF Deadline, Abort, Reset, LoopType, flags
  <2>7. CASE Associate
    BY <1>0, <2>7, LoopStepType DEF Associate
  <2> QED
    BY <2>1, <2>2, <2>3, <2>4, <2>5, <2>6, <2>7 DEF Others
<1>4. runs' \in 0..MaxRuns /\ associated' \in BOOLEAN
  <2>1. CASE Begin \/ Reset
    BY <1>0, <2>1, RunsAssumption DEF Begin, Reset
  <2>2. CASE Associate
    BY <1>0, <2>2 DEF Associate
  <2>3. CASE UNCHANGED others
    BY <1>0, <2>3 DEF others
  <2> QED
    BY <2>1, <2>2, <2>3
    DEF Others, RunsPost, LookAssociated, Wait, Cpu, Verdict, Deadline, Abort, others
<1> QED
  BY <1>1, <1>2, <1>3, <1>4 DEF TypeOK

\* Every step keeps the types.
LEMMA NextType == TypeOK /\ InPlace /\ [Next]_vars => TypeOK'
<1> SUFFICES ASSUME TypeOK, InPlace, [Next]_vars PROVE TypeOK'
  OBVIOUS
<1>1. CASE UNCHANGED vars
  BY <1>1 DEF vars, loopVars, flags, bodyVars, flashVars, trafficVars, wires, others,
     TypeOK, LoopType, FlashType, TrafficType
<1> QED
  BY <1>1, FlashStepType, NetStepType, OtherStepType DEF Next, Others

-----------------------------------------------------------------------------
(* Each place belongs to the bodies of its workloads.                      *)

\* No run begins in the middle of a body.
LEMMA InitInPlace == Init => InPlace
BY DEF Init, TrafficInit, InPlace, FlashPlace, NetPlace

\* The steps of a body on the flash or in NVS keep InPlace.
LEMMA FlashStepInPlace ==
  ASSUME TypeOK, InPlace, Flash
  PROVE  InPlace'
<1> USE DEF flashVars, FlashPlace, NetPlace
<1>1. /\ UNCHANGED <<link, left, deviceEnd, peerEnd, peer>>
      /\ UNCHANGED <<workload, running>>
  BY DEF Flash, FlashStep, trafficVars, OpenPartition, CycleLoop, OutOfRange, EraseBlock,
     WriteBlock, VerifyBlock, OpenNvs, NvsLoop, NvsErase, GoTo, Return, NvsGivesUp
<1>2. CASE OpenPartition
  <2>1. Target(workload) \subseteq Area \ {running}
    BY DEF Target, Area
  <2>2. workload \in FlashLoad
    BY <1>2 DEF OpenPartition
  <2>3. \/ pc' = "loop" /\ target' \in Target(workload)
        \/ pc' = "verdict"
    BY <1>2 DEF OpenPartition, GoTo, Return
  <2> QED
    BY <1>1, <2>1, <2>2, <2>3 DEF InPlace
<1>3. CASE CycleLoop \/ OutOfRange \/ EraseBlock \/ WriteBlock \/ VerifyBlock
  <2>1. pc \in FlashPlace /\ UNCHANGED target
    BY <1>3 DEF CycleLoop, OutOfRange, EraseBlock, WriteBlock, VerifyBlock
  <2>2. pc' \in FlashPlace \cup {"verdict"}
    BY <1>3 DEF CycleLoop, OutOfRange, EraseBlock, WriteBlock, VerifyBlock, GoTo, Return
  <2> QED
    BY <1>1, <2>1, <2>2 DEF InPlace
<1>4. CASE OpenNvs \/ NvsLoop \/ NvsErase
  <2>1. pc \in {"nvs_loop", "nvs_erase"} \/ workload = "NVS_WRITE"
    BY <1>4 DEF OpenNvs, NvsLoop, NvsErase
  <2>2. pc' \in {"nvs_loop", "nvs_erase", "verdict"}
    BY <1>4 DEF OpenNvs, NvsLoop, NvsErase, GoTo, Return, NvsGivesUp
  <2> QED
    BY <1>1, <2>1, <2>2 DEF InPlace
<1> QED
  BY <1>2, <1>3, <1>4 DEF Flash, FlashStep

\* The steps of the two ends of a connection keep InPlace.
LEMMA NetStepInPlace ==
  ASSUME TypeOK, InPlace, Net
  PROVE  InPlace'
<1> USE DEF NetPlace, FlashPlace, trafficVars, wires, loopVars
<1>1. UNCHANGED <<workload, running, target>>
  BY DEF Net, TrafficStep, DeviceStep, PeerStep, PeerDeadline, LinkLost, flashVars,
     Connect, Turn, Send, Queue, TransferFails, Recv, Close, GoTo, Return
<1>2. CASE DeviceStep
  <2>1. UNCHANGED peer
    BY <1>2 DEF DeviceStep, Connect, Turn, Send, TransferFails, Recv, Close
  <2>2. CASE Connect \/ Close
    <3>1. \/ pc' = "turn" /\ deviceEnd' = "open" /\ workload \in NetLoad
          \/ pc' = "verdict"
      BY <2>2 DEF Connect, Close, GoTo, Return
    <3> QED
      BY <1>1, <2>1, <3>1 DEF InPlace
  <2>3. CASE Turn \/ Send \/ TransferFails \/ Recv
    <3>1. pc \in NetPlace /\ pc' \in NetPlace /\ UNCHANGED deviceEnd
      BY <2>3 DEF Turn, Send, Queue, TransferFails, Recv, GoTo
    <3>2. pc' = "send" => left' # 0
      BY <2>3, LoopAssumption
      DEF Turn, Send, Queue, TransferFails, Recv, GoTo, InPlace, TypeOK, TrafficType
    <3> QED
      BY <1>1, <2>1, <3>1, <3>2 DEF InPlace
  <2> QED
    BY <1>2, <2>2, <2>3 DEF DeviceStep
<1>3. CASE PeerStep
  <2>1. UNCHANGED <<pc, left>>
    BY <1>3 DEF PeerStep
  <2>2. deviceEnd = "open" => deviceEnd' = "open"
    BY <1>3 DEF PeerStep, PeerRecv, PeerSend
  <2>3. peer'.pc = "send" => peer'.left # 0
    <3>0. peer \in PeerRecord /\ IO_BLOCK # 0
      BY LoopAssumption DEF TypeOK, TrafficType
    <3>1. CASE PeerRecv
      <4>1. PICK n \in 1..Smaller(up, IO_BLOCK) :
              peer' = [peer EXCEPT !.rx = @ + Counted(n), !.left = n, !.size = n,
                   !.pc = IF workload = "NET_BIDIRECTIONAL" THEN "send" ELSE "loop"]
        BY <3>1 DEF PeerRecv
      <4>2. peer'.left = n /\ n # 0
        BY <3>0, <4>1 DEF PeerRecord
      <4> QED
        BY <4>2
    <3>2. CASE PeerSend
      <4>1. peer'.left = peer.left - 1 \/ peer'.pc = "loop"
        BY <3>0, <3>2 DEF PeerSend, PeerRecord
      <4>2. peer'.pc = "send" => peer.left # 1 /\ peer'.left = peer.left - 1
        BY <3>0, <3>2, <4>1 DEF PeerSend, PeerRecord
      <4> QED
        BY <3>0, <4>2, LoopAssumption DEF PeerRecord
    <3>3. CASE PeerLoop
      BY <3>0, <3>3 DEF PeerLoop, PeerCloses, PeerRecord
    <3>4. CASE Accept \/ AcceptTimesOut \/ BusyEnds \/ PeerEof \/ PeerTimesOut \/ PeerReset
      BY <3>0, <3>4
      DEF Accept, AcceptTimesOut, BusyEnds, PeerEof, PeerTimesOut, PeerReset, PeerCloses,
          PeerRecord
    <3> QED
      BY <1>3, <3>1, <3>2, <3>3, <3>4 DEF PeerStep
  <2> QED
    BY <1>1, <2>1, <2>2, <2>3 DEF InPlace
<1>4. CASE PeerDeadline \/ LinkLost
  BY <1>1, <1>4 DEF PeerDeadline, LinkLost, InPlace
<1> QED
  BY <1>2, <1>3, <1>4 DEF Net, TrafficStep

\* They touch neither the flash nor NVS nor a connection, and go to no place
\* from where a body would.
LEMMA OthersEffect ==
  ASSUME Others
  PROVE  /\ UNCHANGED <<workload, running, flash, target, offset, payload, trafficVars>>
         /\ \/ UNCHANGED pc
            \/ pc' \in {"refused", "accepted", "idle", "body", "verdict"}
            \/ pc' = "wait" /\ workload = "WIFI_ASSOCIATED_IDLE"
BY DEF Others, RunsPost, Begin, LookAssociated, Wait, Cpu, Verdict, Deadline, Abort,
   Associate, Reset, loopVars, bodyVars, flashVars, GoTo, Return

\* Every step keeps InPlace.
LEMMA NextInPlace == TypeOK /\ InPlace /\ [Next]_vars => InPlace'
<1> SUFFICES ASSUME TypeOK, InPlace, [Next]_vars PROVE InPlace'
  OBVIOUS
<1>1. CASE Others
  BY <1>1, OthersEffect DEF InPlace, FlashPlace, NetPlace, trafficVars
<1>2. CASE UNCHANGED vars
  BY <1>2 DEF vars, loopVars, bodyVars, flashVars, trafficVars, InPlace
<1> QED
  BY <1>1, <1>2, FlashStepInPlace, NetStepInPlace DEF Next, Others

-----------------------------------------------------------------------------
(* The flash and NVS.                                                      *)

\* Counting one more block begins the next lap.
LEMMA LapCounted ==
  ASSUME NEW n \in Nat
  PROVE  /\ (n * IO_BLOCK) \div IO_BLOCK = n
         /\ n * IO_BLOCK + IO_BLOCK = (n + 1) * IO_BLOCK
BY LoopAssumption

\* When every covered block holds what was written, as many do as were counted.
LEMMA CoveredCounted ==
  ASSUME a \in Nat, FlashAssumption, NEW S \in SUBSET Offset,
         \A o \in Offset : Covered(o) => o \in S
  PROVE  Cardinality(S) >= Capped(Laps)
<1>1. Laps \in Nat
  BY LoopAssumption DEF Laps
<1>2. ASSUME NEW n \in 0..Blocks
      PROVE  IsFiniteSet(0..(n - 1)) /\ Cardinality(0..(n - 1)) = n
  <2>1. 0 \in Int /\ n - 1 \in Int
    BY FlashAssumption
  <2> QED
    BY <2>1, FS_Interval
<1>3. IsFiniteSet(S)
  <2>1. Blocks \in 0..Blocks
    BY FlashAssumption
  <2>2. IsFiniteSet(Offset)
    BY <1>2, <2>1 DEF Offset
  <2> QED
    BY <2>2, FS_Subset
<1>4. Capped(Laps) \in 0..Blocks /\ 0..(Capped(Laps) - 1) \subseteq S
  BY <1>1, FlashAssumption DEF Capped, Covered, Offset
<1>5. Cardinality(0..(Capped(Laps) - 1)) <= Cardinality(S)
  BY <1>3, <1>4, FS_Subset
<1>6. Cardinality(S) \in Nat
  BY <1>3, FS_CardinalityType
<1> QED
  BY <1>2, <1>4, <1>5, <1>6

\* A step that leaves the body where it is, or takes it where there is nothing to
\* say of the flash, keeps FlashInv when it does not touch the flash.
LEMMA FlashUntouched ==
  ASSUME FlashInv, UNCHANGED <<workload, running, flash, target, offset, payload>>,
         \/ pc' \notin FlashPlace \cup {"body", "verdict"}
         \/ pc' \notin FlashPlace /\ workload \notin FlashLoad \cup {"NVS_WRITE"}
         \/ pc' = "body" /\ (workload \in FlashLoad => a' = 0)
         \/ /\ UNCHANGED <<pc, ok, a, fault>>
            /\ abort_requested => abort_requested'
  PROVE  FlashInv'
<1>1. RunningImageIntact' /\ ErasedBeforeWritten'
  BY DEF FlashInv, RunningImageIntact, ErasedBeforeWritten
<1>2. BlockInHand'
  BY DEF FlashInv, BlockInHand, FlashPlace
<1>3. LapInv'
  BY DEF FlashInv, LapInv, FlashPlace, Laps, Covered
<1>4. FlashReportTrue'
  BY DEF FlashInv, FlashReportTrue, FlashPlace
<1>5. NvsLeftClean'
  BY DEF FlashInv, NvsLeftClean, FlashPlace
<1> QED
  BY <1>1, <1>2, <1>3, <1>4, <1>5 DEF FlashInv

\* The bodies that do not use the flash, and the client, keep FlashInv.
LEMMA OthersFlashInv ==
  ASSUME TypeOK, InPlace, FlashInv, Others
  PROVE  FlashInv'
<1>1. UNCHANGED <<workload, running, flash, target, offset, payload>>
  BY OthersEffect
<1>2. CASE RunsPost \/ Verdict \/ Reset
  <2>1. pc' \notin FlashPlace \cup {"body", "verdict"}
    BY <1>2 DEF RunsPost, Verdict, Reset, GoTo, FlashPlace
  <2> QED
    BY <1>1, <2>1, FlashUntouched
<1>3. CASE Begin
  <2>1. pc' = "body" /\ a' = 0
    BY <1>3 DEF Begin
  <2> QED
    BY <1>1, <2>1, FlashUntouched
<1>4. CASE LookAssociated \/ Wait \/ Cpu
  <2>1. workload \notin FlashLoad \cup {"NVS_WRITE"}
    BY <1>4 DEF LookAssociated, Wait, Cpu, WaitLoad, FlashLoad
  <2>2. pc' \notin FlashPlace
    BY <1>4 DEF LookAssociated, Wait, Cpu, Return, FlashPlace
  <2> QED
    BY <1>1, <2>1, <2>2, FlashUntouched
<1>5. CASE Deadline \/ Abort \/ Associate
  <2>1. UNCHANGED <<pc, ok, a, fault>> /\ (abort_requested => abort_requested')
    BY <1>5 DEF Deadline, Abort, Associate, loopVars, flags, bodyVars, flashVars
  <2> QED
    BY <1>1, <2>1, FlashUntouched
<1> QED
  BY <1>2, <1>3, <1>4, <1>5 DEF Others

\* So do the two ends of a connection.
LEMMA NetFlashInv ==
  ASSUME TypeOK, InPlace, FlashInv, Net
  PROVE  FlashInv'
<1>1. UNCHANGED <<running, flash, target, offset, payload, fault>>
  BY DEF Net, flashVars
<1>2. CASE DeviceStep
  <2>1. workload \in NetLoad /\ UNCHANGED workload
    BY <1>2 DEF DeviceStep, Connect, Turn, Send, Queue, TransferFails, Recv, Close, GoTo,
       Return, InPlace, NetPlace, loopVars
  <2>2. pc' \notin FlashPlace
    BY <1>2 DEF DeviceStep, Connect, Turn, Send, Queue, TransferFails, Recv, Close, GoTo,
       Return, FlashPlace, loopVars
  <2>3. workload \notin FlashLoad \cup {"NVS_WRITE"}
    BY <2>1 DEF NetLoad, FlashLoad
  <2> QED
    BY <1>1, <2>1, <2>2, <2>3, FlashUntouched
<1>3. CASE PeerStep \/ PeerDeadline \/ LinkLost
  <2>1. UNCHANGED <<workload, pc, ok, a, abort_requested>>
    BY <1>3 DEF PeerStep, PeerDeadline, LinkLost, loopVars, flags
  <2> QED
    BY <1>1, <2>1, FlashUntouched
<1> QED
  BY <1>2, <1>3 DEF Net, TrafficStep

\* What storing a block of the target does to the flash.
LEMMA PutEffect ==
  ASSUME FlashType, target \in Area \ {running}, offset \in Offset,
         NEW content, Put(content)
  PROVE  /\ flash'[target][offset] = content
         /\ \A o \in Offset : o # offset => flash'[target][o] = flash[target][o]
         /\ \A p \in Area : p # target => flash'[p] = flash[p]
BY DEF FlashType, Put

\* A block that is not left mixed keeps the image and the other blocks.
LEMMA PutKeeps ==
  ASSUME FlashType, FlashInv, target \in Area \ {running}, offset \in Offset,
         NEW content, Put(content), content # "mixed", UNCHANGED running
  PROVE  RunningImageIntact' /\ ErasedBeforeWritten'
<1>1. RunningImageIntact'
  <2>1. running \in Area /\ running # target
    BY DEF FlashType, Area
  <2> QED
    BY <2>1, PutEffect DEF FlashInv, RunningImageIntact
<1>2. ErasedBeforeWritten'
  <2> SUFFICES ASSUME NEW p \in Area, NEW o \in Offset PROVE flash'[p][o] # "mixed"
    BY DEF ErasedBeforeWritten
  <2>1. CASE p # target
    BY <2>1, PutEffect DEF FlashInv, ErasedBeforeWritten
  <2>2. CASE p = target /\ o # offset
    BY <2>2, PutEffect DEF FlashInv, ErasedBeforeWritten
  <2>3. CASE p = target /\ o = offset
    BY <2>3, PutEffect
  <2> QED
    BY <2>1, <2>2, <2>3
<1> QED
  BY <1>1, <1>2

\* A run that gives up because of the hardware, or of an abort, reports the truth.
LEMMA GivesUp ==
  ASSUME LoopType, workload \in FlashLoad, Return(FALSE),
         RunningImageIntact', ErasedBeforeWritten',
         fault' # "none" \/ abort_requested
  PROVE  FlashInv'
<1>1. pc' = "verdict" /\ ok' = FALSE /\ UNCHANGED <<workload, abort_requested>>
  BY DEF Return, flags
<1>2. workload' # "NVS_WRITE" /\ pc' \notin FlashPlace \cup {"body"}
  BY <1>1 DEF FlashLoad, FlashPlace
<1>3. BlockInHand' /\ LapInv' /\ NvsLeftClean' /\ FlashReportTrue'
  BY <1>1, <1>2 DEF BlockInHand, LapInv, NvsLeftClean, FlashReportTrue, FlashPlace
<1> QED
  BY <1>3 DEF FlashInv

\* The steps of a body on the flash or in NVS keep FlashInv.
LEMMA FlashStepFlashInv ==
  ASSUME TypeOK, InPlace, FlashInv, Flash
  PROVE  FlashInv'
<1> USE DEF flashVars
<1>0. LoopType /\ FlashType /\ a \in Nat
  BY DEF TypeOK, LoopType
<1>1. UNCHANGED <<workload, running>>
  BY DEF Flash, FlashStep, OpenPartition, CycleLoop, OutOfRange, EraseBlock,
     WriteBlock, VerifyBlock, OpenNvs, NvsLoop, NvsErase, GoTo, Return, NvsGivesUp
<1>t. pc \in FlashPlace => workload \in FlashLoad /\ target \in Area \ {running}
  BY DEF InPlace
<1>i. UNCHANGED flash => RunningImageIntact' /\ ErasedBeforeWritten'
  BY <1>1 DEF FlashInv, RunningImageIntact, ErasedBeforeWritten
<1>2. CASE OpenPartition
  <2>1. workload \in FlashLoad /\ UNCHANGED flash /\ pc = "body"
    BY <1>2 DEF OpenPartition
  <2>2. CASE Return(FALSE) /\ fault' = "open"
    BY <1>0, <1>i, <2>1, <2>2, GivesUp
  <2>3. CASE offset' = 0 /\ GoTo("loop")
    <3>1. a = 0 /\ UNCHANGED a /\ pc' = "loop"
      BY <2>1, <2>3 DEF FlashInv, LapInv, GoTo
    <3>2. a' \div IO_BLOCK = 0 /\ a' = 0 * IO_BLOCK
      BY <3>1, LoopAssumption
    <3>3. LapInv'
      BY <2>3, <3>1, <3>2, FlashAssumption DEF LapInv, Laps, Covered, Offset
    <3>4. BlockInHand' /\ FlashReportTrue' /\ NvsLeftClean'
      BY <3>1 DEF BlockInHand, FlashReportTrue, NvsLeftClean
    <3> QED
      BY <1>i, <2>1, <3>3, <3>4 DEF FlashInv
  <2> QED
    BY <1>2, <2>2, <2>3 DEF OpenPartition
<1>3. CASE CycleLoop
  <2>1. workload \in FlashLoad /\ UNCHANGED <<flash, target>> /\ pc = "loop"
        /\ workload # "NVS_WRITE"
    BY <1>3, <1>t DEF CycleLoop, FlashPlace, FlashLoad
  <2>2. /\ Laps < Blocks => offset = Laps
        /\ \A o \in Offset : Covered(o) => flash[target][o] = "data"
        /\ a = Laps * IO_BLOCK
    BY <2>1 DEF FlashInv, LapInv, FlashPlace
  <2>3. CASE Going
    <3>1. pc' = "erase" /\ offset' = Wrapped(offset) /\ UNCHANGED a
      BY <1>3, <2>3 DEF CycleLoop, GoTo
    <3>2. Laps < Blocks => Wrapped(offset) = Laps
      BY <1>0, <2>2, FlashAssumption DEF Wrapped, FlashType
    <3>3. LapInv'
      BY <2>1, <2>2, <3>1, <3>2 DEF LapInv, Laps, Covered
    <3>4. BlockInHand' /\ FlashReportTrue' /\ NvsLeftClean'
      BY <3>1 DEF BlockInHand, FlashReportTrue, NvsLeftClean
    <3> QED
      BY <1>i, <2>1, <3>3, <3>4 DEF FlashInv
  <2>4. CASE ~Going
    <3>1. /\ pc' = "verdict" /\ (ok' <=> ~abort_requested)
          /\ UNCHANGED <<a, abort_requested>>
      BY <1>3, <2>4 DEF CycleLoop, Return, should_abort, flags
    <3> DEFINE S == {o \in Offset : flash[target][o] = "data"}
    <3>2. Cardinality(S) >= Capped(Laps)
      BY <1>0, <2>2, FlashAssumption, CoveredCounted
    <3>3. FlashReportTrue'
      BY <2>1, <3>1, <3>2 DEF FlashReportTrue, Laps, Capped
    <3>4. BlockInHand' /\ LapInv' /\ NvsLeftClean'
      BY <1>1, <2>1, <3>1 DEF BlockInHand, LapInv, NvsLeftClean, FlashPlace
    <3> QED
      BY <1>i, <2>1, <3>3, <3>4 DEF FlashInv
  <2> QED
    BY <2>3, <2>4
<1>4. CASE OutOfRange
  BY <1>0, <1>4 DEF OutOfRange, FlashType
<1>5. CASE EraseBlock
  <2>1. pc = "erase" /\ offset \in Offset /\ UNCHANGED <<target, offset>>
        /\ workload \in FlashLoad /\ target \in Area \ {running}
    BY <1>5, <1>t DEF EraseBlock, FlashPlace
  <2>2. PICK content \in {"blank", "broken"} : Put(content)
    BY <1>5 DEF EraseBlock, Erased
  <2>3. RunningImageIntact' /\ ErasedBeforeWritten'
    BY <1>0, <1>1, <2>1, <2>2, PutKeeps
  <2>4. CASE Return(FALSE) /\ fault' = "erase"
    BY <1>0, <2>1, <2>3, <2>4, GivesUp
  <2>5. CASE Put(Erased(flash[target][offset])) /\ GoTo("write")
    <3>1. flash'[target][offset] = "blank" /\ pc' = "write" /\ UNCHANGED a
          /\ \A o \in Offset : o # offset => flash'[target][o] = flash[target][o]
      BY <1>0, <2>1, <2>5, PutEffect DEF Erased, GoTo
    <3>2. LapInv'
      BY <2>1, <3>1 DEF FlashInv, LapInv, Laps, Covered, FlashPlace
    <3>3. BlockInHand' /\ FlashReportTrue' /\ NvsLeftClean'
      BY <2>1, <3>1 DEF BlockInHand, FlashReportTrue, NvsLeftClean
    <3> QED
      BY <2>3, <3>2, <3>3 DEF FlashInv
  <2> QED
    BY <1>5, <2>4, <2>5 DEF EraseBlock
<1>6. CASE WriteBlock
  <2>1. pc = "write" /\ offset \in Offset /\ UNCHANGED <<target, offset>>
        /\ workload \in FlashLoad /\ target \in Area \ {running}
        /\ flash[target][offset] = "blank"
    BY <1>6, <1>t DEF WriteBlock, FlashPlace, FlashInv, BlockInHand
  <2>2. PICK content \in {"data", "broken", "blank"} : Put(content)
    BY <1>6, <2>1 DEF WriteBlock
  <2>3. RunningImageIntact' /\ ErasedBeforeWritten'
    BY <1>0, <1>1, <2>1, <2>2, PutKeeps
  <2>4. CASE Return(FALSE) /\ fault' = "write"
    BY <1>0, <2>1, <2>3, <2>4, GivesUp
  <2>5. CASE GoTo("verify") /\ (Put("data") \/ fault' = "worn")
    <3>1. pc' = "verify" /\ UNCHANGED a
          /\ \A o \in Offset : o # offset => flash'[target][o] = flash[target][o]
      BY <1>0, <2>1, <2>2, <2>5, PutEffect DEF GoTo
    <3>2. flash'[target][offset] = "data" \/ fault' = "worn"
      BY <1>0, <2>1, <2>5, PutEffect
    <3>3. LapInv'
      BY <2>1, <3>1 DEF FlashInv, LapInv, Laps, Covered, FlashPlace
    <3>4. BlockInHand' /\ FlashReportTrue' /\ NvsLeftClean'
      BY <2>1, <3>1, <3>2 DEF BlockInHand, FlashReportTrue, NvsLeftClean
    <3> QED
      BY <2>3, <3>3, <3>4 DEF FlashInv
  <2> QED
    BY <1>6, <2>1, <2>4, <2>5 DEF WriteBlock
<1>7. CASE VerifyBlock
  <2>1. pc = "verify" /\ UNCHANGED <<flash, target>> /\ workload \in FlashLoad
        /\ offset \in Offset
    BY <1>0, <1>7, <1>t DEF VerifyBlock, FlashPlace, FlashType
  <2>2. CASE Return(FALSE)
    <3>1. fault' # "none"
      BY <1>7, <2>1, <2>2 DEF VerifyBlock, Verified, FlashInv, BlockInHand, Return
    <3> QED
      BY <1>0, <1>i, <2>1, <2>2, <3>1, GivesUp
  <2>3. CASE Verified /\ a' = a + IO_BLOCK /\ pc' = "loop" /\ offset' = offset + 1
    <3>1. /\ a = Laps * IO_BLOCK /\ Laps \in Nat
          /\ Laps < Blocks => offset = Laps
          /\ \A o \in Offset : Covered(o) /\ o # offset => flash[target][o] = "data"
          /\ flash[target][offset] = "data"
      BY <1>0, <2>1, <2>3, LoopAssumption DEF FlashInv, LapInv, FlashPlace, Verified, Laps
    <3>2. Laps' = Laps + 1 /\ a' = Laps' * IO_BLOCK
      BY <2>3, <3>1, LapCounted DEF Laps
    <3>3. ASSUME NEW o \in Offset, Covered(o)', o # offset PROVE Covered(o)
      BY <2>1, <3>1, <3>2, <3>3, FlashAssumption DEF Covered, Offset
    <3>4. Laps' < Blocks => offset' = Laps'
      BY <2>3, <3>1, <3>2, FlashAssumption
    <3>5. LapInv'
      BY <2>1, <2>3, <3>1, <3>2, <3>3, <3>4 DEF LapInv
    <3>6. BlockInHand' /\ FlashReportTrue' /\ NvsLeftClean'
      BY <2>3 DEF BlockInHand, FlashReportTrue, NvsLeftClean
    <3> QED
      BY <1>i, <2>1, <3>5, <3>6 DEF FlashInv
  <2> QED
    BY <1>7, <2>2, <2>3 DEF VerifyBlock
<1>8. CASE OpenNvs \/ NvsLoop \/ NvsErase
  <2>1. workload = "NVS_WRITE" /\ UNCHANGED flash
    BY <1>8 DEF OpenNvs, NvsLoop, NvsErase, InPlace
  <2>2. pc' \notin FlashPlace \cup {"body"}
        /\ (pc' = "verdict" => fault' \in {"open", "erase"} \/ ~payload')
    BY <1>8 DEF OpenNvs, NvsLoop, NvsErase, GoTo, Return, NvsGivesUp, FlashPlace
  <2>3. BlockInHand' /\ LapInv' /\ FlashReportTrue' /\ NvsLeftClean'
    BY <1>1, <2>1, <2>2
    DEF BlockInHand, LapInv, FlashReportTrue, NvsLeftClean, FlashPlace, FlashLoad
  <2> QED
    BY <1>i, <2>1, <2>3 DEF FlashInv
<1> QED
  BY <1>2, <1>3, <1>4, <1>5, <1>6, <1>7, <1>8 DEF Flash, FlashStep

\* Nothing is written before the first run.
LEMMA InitFlashInv == Init => FlashInv
<1> SUFFICES ASSUME Init PROVE FlashInv
  OBVIOUS
<1>1. pc = "posted" /\ running \in Slot
  BY DEF Init, FlashInit
<1>2. \A p \in Area, o \in Offset : flash[p][o] = IF p = running THEN "image" ELSE "old"
  BY DEF Init, FlashInit
<1>3. RunningImageIntact /\ ErasedBeforeWritten
  BY <1>1, <1>2 DEF RunningImageIntact, ErasedBeforeWritten, Area
<1>4. BlockInHand /\ LapInv /\ FlashReportTrue /\ NvsLeftClean
  BY <1>1 DEF BlockInHand, LapInv, FlashReportTrue, NvsLeftClean, FlashPlace
<1> QED
  BY <1>3, <1>4 DEF FlashInv

\* Every step keeps FlashInv.
LEMMA NextFlashInv == TypeOK /\ InPlace /\ FlashInv /\ [Next]_vars => FlashInv'
<1> SUFFICES ASSUME TypeOK, InPlace, FlashInv, [Next]_vars PROVE FlashInv'
  OBVIOUS
<1>1. CASE UNCHANGED vars
  <2>1. UNCHANGED <<workload, running, flash, target, offset, payload, pc, ok, a, fault,
                    abort_requested>>
    BY <1>1 DEF vars, loopVars, flags, bodyVars, flashVars
  <2> QED
    BY <2>1, FlashUntouched
<1> QED
  BY <1>1, OthersFlashInv, FlashStepFlashInv, NetFlashInv DEF Next, Others

-----------------------------------------------------------------------------
(* The request.                                                            *)

\* The first request is judged once, and runs only when it was accepted.
LEMMA NextJudged == Judged /\ [Next]_vars => Judged'
<1> SUFFICES ASSUME Judged, [Next]_vars PROVE Judged'
  OBVIOUS
<1> DEFINE Front == {"posted", "accepted", "refused"}
<1>1. CASE RunsPost
  <2>1. pc = "posted" /\ pc' = (IF Accepted(asked) THEN "accepted" ELSE "refused")
        /\ UNCHANGED <<workload, asked>>
    BY <1>1 DEF RunsPost, GoTo, others
  <2>2. Accepted(asked) => asked.workload \in Known
    BY DEF Accepted, Parsed
  <2>3. Accepted(asked)' <=> Accepted(asked)
    BY <2>1 DEF Accepted, Parsed, db_request_validate, RequestOf, Refused
  <2> QED
    BY <2>1, <2>2, <2>3 DEF Judged
<1>2. ASSUME pc' \notin Front PROVE Judged'
  BY <1>2 DEF Judged
<1>3. ASSUME UNCHANGED <<pc, workload, asked>> PROVE Judged'
  <2>1. Accepted(asked)' <=> Accepted(asked)
    BY <1>3 DEF Accepted, Parsed, db_request_validate, RequestOf, Refused
  <2> QED
    BY <1>3, <2>1 DEF Judged
<1>4. CASE Begin \/ LookAssociated \/ Wait \/ Verdict \/ Reset
  BY <1>2, <1>4 DEF Begin, LookAssociated, Wait, Verdict, Reset
<1>5. CASE Cpu
  BY <1>2, <1>3, <1>5 DEF Cpu, Return, others
<1>6. CASE Deadline \/ Abort \/ Associate
  BY <1>3, <1>6 DEF Deadline, Abort, Associate, loopVars, others
<1>7. CASE Flash
  BY <1>2, <1>3, <1>7 DEF Flash, FlashStep, OpenPartition, CycleLoop, OutOfRange,
     EraseBlock, WriteBlock, VerifyBlock, OpenNvs, NvsLoop, NvsErase, GoTo, Return,
     NvsGivesUp, others
<1>8. CASE Net
  BY <1>2, <1>3, <1>8 DEF Net, TrafficStep, DeviceStep, PeerStep, PeerDeadline, LinkLost,
     Connect, Turn, Send, Queue, TransferFails, Recv, Close, GoTo, Return, loopVars, others
<1>9. CASE UNCHANGED vars
  BY <1>3, <1>9 DEF vars, loopVars, others
<1> QED
  BY <1>1, <1>4, <1>5, <1>6, <1>7, <1>8, <1>9 DEF Next

\* A number the schema allows is stored as it is, and any stored number fits.
LEMMA FieldStored ==
  ASSUME NEW field, Field(field), NEW low \in Nat, NEW high \in Nat, NEW width \in Nat,
         high < width, NEW default
  PROVE  /\ Integer_(field, low, high) => ~Refused(field, low, high, width)
         /\ ~Refused(field, low, high, width) =>
              /\ AsAsked(field, Stored(field, default, width), default)
              /\ field.kind = "number" => Stored(field, default, width) \in 0..(width - 1)
<1>1. field.halves \in Int
  BY DEF Field
<1>2. ASSUME Integer_(field, low, high) PROVE ~Refused(field, low, high, width)
  <2> SUFFICES ASSUME field.kind = "number"
               PROVE  IsWhole(field.halves, width) /\ InRange(field.halves, low, high)
    BY DEF Refused
  <2>1. field.halves % 2 = 0 /\ 2 * low <= field.halves /\ field.halves <= 2 * high
    BY <1>2 DEF Integer_
  <2> DEFINE n == field.halves \div 2
  <2>2. n \in 0..high /\ field.halves = 2 * n
    BY <1>1, <2>1
  <2>3. \A m \in 0..high : m % width = m
    OBVIOUS
  <2> QED
    BY <2>1, <2>2, <2>3 DEF IsWhole, InRange
<1>3. ASSUME ~Refused(field, low, high, width)
      PROVE  AsAsked(field, Stored(field, default, width), default)
  BY <1>3 DEF Refused, IsWhole, AsAsked, Stored
<1>4. field.kind = "number" => Stored(field, default, width) \in 0..(width - 1)
  <2>1. field.halves \div 2 \in Int
    BY <1>1
  <2>2. \A m \in Int : m % width \in 0..(width - 1)
    OBVIOUS
  <2> QED
    BY <2>1, <2>2 DEF Stored
<1> QED
  BY <1>2, <1>3, <1>4

\* What was accepted runs as it was asked for, and what the schema allows is
\* accepted, but for the bodies where the schema goes beyond the firmware.
LEMMA JudgedHonoured == Judged => RequestHonoured
<1> SUFFICES ASSUME Judged PROVE RequestHonoured
  OBVIOUS
<1> DEFINE duration == asked.duration_ms
           port == asked.port
           rate == asked.rate_bps
           request == RequestOf(asked)
<1>0. /\ MaxDuration \in Nat /\ Word16 \in Nat /\ Word32 \in Nat
      /\ MaxDuration < Word32 /\ DefaultDuration \in 1..MaxDuration
      /\ Word16 - 1 \in Nat /\ Word32 - 1 \in Nat
  BY RequestAssumption
<1>1. ASSUME asked \in Body
      PROVE  /\ Field(duration) /\ Field(port) /\ Field(rate)
             /\ asked.host \in {"absent", "other", "plain", "odd", "long"}
  BY <1>1, BodyAssumption
<1>2. ASSUME pc = "accepted"
      PROVE  /\ AsAsked(duration, request.duration_ms, DefaultDuration)
             /\ AsAsked(port, request.port, 0) /\ AsAsked(rate, request.rate_bps, 0)
             /\ request.duration_ms \in 1..MaxDuration /\ request.rate_bps < Word32
             /\ workload \in NetLoad =>
                  asked.host = "plain" /\ request.port \in 1..(Word16 - 1)
  <2>1. Accepted(asked) /\ workload = asked.workload /\ asked \in Body
    BY <1>2 DEF Judged
  <2>2. /\ request.workload = asked.workload /\ request.host = StoredHost(asked.host)
        /\ request.duration_ms = Stored(duration, DefaultDuration, Word32)
        /\ request.port = Stored(port, 0, Word16)
        /\ request.rate_bps = Stored(rate, 0, Word32)
    BY DEF RequestOf
  <2>3. /\ ~Refused(duration, 1, MaxDuration, Word32)
        /\ ~Refused(port, 1, Word16 - 1, Word16)
        /\ ~Refused(rate, 0, Word32 - 1, Word32)
        /\ db_request_validate(request)
    BY <2>1 DEF Accepted, Parsed
  <2>4. AsAsked(duration, request.duration_ms, DefaultDuration)
    BY <1>0, <1>1, <2>1, <2>2, <2>3, FieldStored
  <2>5. AsAsked(port, request.port, 0)
        /\ (port.kind = "number" => request.port \in 0..(Word16 - 1))
    BY <1>0, <1>1, <2>1, <2>2, <2>3, FieldStored
  <2>6. AsAsked(rate, request.rate_bps, 0)
        /\ (rate.kind = "number" => request.rate_bps \in 0..(Word32 - 1))
    BY <1>0, <1>1, <2>1, <2>2, <2>3, FieldStored
  <2>7. request.rate_bps < Word32
    BY <1>0, <2>2, <2>6 DEF Stored
  <2>8. request.duration_ms \in 1..MaxDuration
        /\ (workload \in NetLoad => request.host = "plain" /\ request.port # 0)
    BY <2>1, <2>2, <2>3 DEF db_request_validate
  <2>9. workload \in NetLoad =>
          asked.host = "plain" /\ request.port \in 1..(Word16 - 1)
    <3> SUFFICES ASSUME workload \in NetLoad
                 PROVE  asked.host = "plain" /\ request.port \in 1..(Word16 - 1)
      OBVIOUS
    <3>1. request.host = "plain" /\ request.port # 0
      BY <2>8
    <3>2. asked.host = "plain"
      BY <2>2, <3>1 DEF StoredHost
    <3>3. port.kind = "number"
      BY <2>2, <3>1 DEF Stored
    <3>4. request.port \in 0..(Word16 - 1)
      BY <2>5, <3>3
    <3> HIDE DEF request
    <3> QED
      BY <1>0, <3>1, <3>2, <3>4
  <2> QED
    BY <2>4, <2>5, <2>6, <2>7, <2>8, <2>9
<1>3. ASSUME pc = "refused", Documented(asked), ~OnlyDocumented(asked)
      PROVE  FALSE
  <2>1. ~Accepted(asked) /\ asked \in Body
    BY <1>3 DEF Judged
  <2>2. /\ ~Refused(duration, 1, MaxDuration, Word32)
        /\ ~Refused(port, 1, Word16 - 1, Word16)
        /\ ~Refused(rate, 0, Word32 - 1, Word32)
    <3>1. /\ Integer_(duration, 1, MaxDuration) /\ Integer_(port, 1, Word16 - 1)
          /\ Integer_(rate, 0, Word32 - 1)
      BY <1>0, <1>1, <1>3, <2>1 DEF Documented, OnlyDocumented, Natural_, Integer_, Field
    <3> QED
      BY <1>0, <1>1, <2>1, <3>1, FieldStored
  <2>3. Parsed(asked)
    BY <1>3, <2>2 DEF OnlyDocumented, Parsed
  <2>4. Stored(duration, DefaultDuration, Word32) \in 1..MaxDuration
    <3>1. CASE duration.kind = "number"
      <4>1. AsAsked(duration, Stored(duration, DefaultDuration, Word32), DefaultDuration)
            /\ Stored(duration, DefaultDuration, Word32) \in Nat
        BY <1>0, <1>1, <2>1, <2>2, <3>1, FieldStored
      <4>2. 2 <= duration.halves /\ duration.halves <= 2 * MaxDuration
        BY <2>2, <3>1 DEF Refused, InRange
      <4> QED
        BY <1>0, <3>1, <4>1, <4>2 DEF AsAsked
    <3>2. CASE duration.kind # "number"
      BY <1>0, <3>2 DEF Stored
    <3> QED
      BY <3>1, <3>2
  <2>5. ASSUME asked.workload \in NetLoad
        PROVE  StoredHost(asked.host) = "plain" /\ Stored(port, 0, Word16) # 0
    <3>1. asked.host = "plain" /\ port # Absent
      BY <1>3, <2>5 DEF OnlyDocumented
    <3>2. port.kind = "number"
      BY <1>1, <1>3, <2>1, <3>1 DEF Documented, Integer_, Field, Absent
    <3>3. AsAsked(port, Stored(port, 0, Word16), 0)
      BY <1>0, <1>1, <2>1, <2>2, FieldStored
    <3>4. 2 <= port.halves
      BY <2>2, <3>2 DEF Refused, InRange
    <3> QED
      BY <3>1, <3>2, <3>3, <3>4 DEF StoredHost, AsAsked
  <2>6. db_request_validate(request)
    BY <2>4, <2>5 DEF db_request_validate, RequestOf
  <2> QED
    BY <2>1, <2>3, <2>6 DEF Accepted
<1> QED
  BY <1>2, <1>3 DEF RequestHonoured

\* The first request is one of the bodies, and has not been judged yet.
LEMMA InitJudged == Init => Judged
BY DEF Init, Judged

-----------------------------------------------------------------------------
(* The connection.                                                         *)

\* Before the first connection nothing has been sent.
LEMMA InitTrafficInv == Init => TrafficInv
<1> SUFFICES ASSUME Init PROVE TrafficInv
  OBVIOUS
<1>1. /\ pc = "posted" /\ a = 0 /\ up = 0 /\ down = 0 /\ left = 0
      /\ deviceEnd = "none" /\ peerEnd = "none"
      /\ peer.pc \in {"accept", "busy"} /\ peer.rx = 0
  BY DEF Init, TrafficInit
<1> QED
  BY <1>1 DEF TrafficInv, Connection, WholeBlocks, SinkSilent, NetPlace

\* The steps of the other bodies leave a connection alone, except that a run
\* ends or the device resets.
LEMMA OthersTrafficInv ==
  ASSUME TrafficInv, Others
  PROVE  TrafficInv'
<1>0. UNCHANGED <<workload, link, up, down, left, deviceEnd, peerEnd, peer>>
  BY OthersEffect DEF trafficVars, wires
<1>1. CASE deviceEnd = "none"
  <2>1. workload \in NetLoad => a' = 0
    BY <1>1 DEF TrafficInv, Connection, Others, RunsPost, Begin, LookAssociated, Wait,
       Cpu, Verdict, Deadline, Abort, Associate, Reset, GoTo, loopVars, NetLoad
  <2>2. pc' \in {"turn", "recv", "close"} => UNCHANGED pc
    BY OthersEffect
  <2> QED
    BY <1>0, <1>1, <2>1, <2>2 DEF TrafficInv, Connection, WholeBlocks, SinkSilent
<1>2. CASE deviceEnd # "none"
  <2>1. workload \in NetLoad /\ pc \in NetPlace \cup {"verdict", "idle"}
    BY <1>2 DEF TrafficInv, Connection
  <2>2. Verdict \/ Deadline \/ Abort \/ Reset
    BY <1>2, <2>1 DEF Others, RunsPost, Begin, LookAssociated, Wait, Cpu, Associate,
       NetLoad, NetPlace, WaitLoad
  <2>3. UNCHANGED a /\ pc' \in {pc, "idle"}
    BY <2>2 DEF Verdict, Deadline, Abort, Reset
  <2> QED
    BY <1>0, <1>2, <2>1, <2>3
    DEF TrafficInv, Connection, WholeBlocks, SinkSilent, Sent
<1> QED
  BY <1>1, <1>2

\* A body that works on the flash has no connection.
LEMMA FlashTrafficInv ==
  ASSUME InPlace, TrafficInv, Flash
  PROVE  TrafficInv'
<1>1. workload \notin NetLoad /\ UNCHANGED workload
  BY DEF Flash, FlashStep, OpenPartition, CycleLoop, OutOfRange, EraseBlock, WriteBlock,
     VerifyBlock, OpenNvs, NvsLoop, NvsErase, GoTo, Return, NvsGivesUp, loopVars,
     InPlace, FlashPlace, FlashLoad, NetLoad
<1>2. pc' \notin {"turn", "recv", "close"} \/ UNCHANGED pc
  BY DEF Flash, FlashStep, OpenPartition, CycleLoop, OutOfRange, EraseBlock, WriteBlock,
     VerifyBlock, OpenNvs, NvsLoop, NvsErase, GoTo, Return, NvsGivesUp, loopVars
<1>3. UNCHANGED <<link, up, down, left, deviceEnd, peerEnd, peer>>
  BY DEF Flash, trafficVars, wires
<1>4. deviceEnd = "none"
  BY <1>1 DEF TrafficInv, Connection
<1> QED
  BY <1>1, <1>2, <1>3, <1>4 DEF TrafficInv, Connection, WholeBlocks, SinkSilent, NetLoad

\* The device's steps: what is sent reaches the peer's count or its buffer as
\* long as the peer has not closed.
LEMMA DeviceTrafficInv ==
  ASSUME TypeOK, InPlace, TrafficInv, DeviceStep
  PROVE  TrafficInv'
<1>0. /\ a \in Nat /\ up \in Nat /\ down \in Nat /\ left \in 0..IO_BLOCK
      /\ peer.rx \in Nat /\ IO_BLOCK \in Nat \ {0}
  BY TrafficAssumption, LoopAssumption
  DEF TypeOK, LoopType, TrafficType, PeerRecord
<1>i. Connection /\ WholeBlocks /\ SinkSilent
  BY DEF TrafficInv
<1>u. UNCHANGED <<workload, link, peer>>
  BY DEF DeviceStep, Connect, Turn, Send, Queue, TransferFails, Recv, Close, GoTo,
     Return, loopVars, trafficVars
<1>1. CASE Connect
  <2>1. deviceEnd = "none" /\ workload \in NetLoad /\ UNCHANGED <<a, up, down, left>>
    BY <1>1 DEF Connect, GoTo, wires
  <2>2. CASE /\ link /\ Listening
             /\ deviceEnd' = "open" /\ peerEnd' = "open" /\ GoTo("turn")
    <3>1. Sent' = 0
      BY <1>i, <2>1 DEF Connection, Sent
    <3>2. peer.rx' + up' = 0 /\ left' = 0 /\ pc' = "turn"
      BY <1>i, <1>u, <2>1, <2>2 DEF Connection, GoTo
    <3> QED
      BY <1>i, <1>u, <2>1, <2>2, <3>1, <3>2
      DEF TrafficInv, Connection, WholeBlocks, SinkSilent, Listening, NetPlace
  <2>3. CASE pc' = "verdict" /\ UNCHANGED <<deviceEnd, peerEnd>>
    BY <1>i, <1>u, <2>1, <2>3 DEF TrafficInv, Connection, WholeBlocks, SinkSilent
  <2> QED
    BY <1>1, <2>2, <2>3 DEF Connect
<1>2. ASSUME pc \in NetPlace
      PROVE  deviceEnd = "open" /\ workload \in NetLoad
  BY <1>2 DEF InPlace
<1>3. CASE Turn
  <2>1. deviceEnd = "open" /\ workload \in NetLoad /\ left = 0
    BY <1>2, <1>3, <1>i DEF Turn, NetPlace, WholeBlocks
  <2>2. UNCHANGED <<a, up, down, deviceEnd, peerEnd>>
    BY <1>3 DEF Turn, GoTo, wires
  <2>3. \/ left' = 0 /\ pc' \in {"recv", "close"}
        \/ left' = IO_BLOCK /\ pc' = "send"
    BY <1>3, <2>1 DEF Turn, GoTo
  <2>4. Sent' = Sent
    BY <1>0, <2>1, <2>2, <2>3 DEF Sent
  <2> QED
    BY <1>i, <1>u, <2>1, <2>2, <2>3, <2>4
    DEF TrafficInv, Connection, WholeBlocks, SinkSilent, NetPlace
<1>4. CASE Send
  <2>1. deviceEnd = "open" /\ workload \in NetLoad /\ left # 0
    BY <1>2, <1>4 DEF Send, NetPlace, InPlace
  <2>2. UNCHANGED <<down, deviceEnd>> /\ left' = left - 1
    BY <1>4 DEF Send, Queue
  <2>3. Sent' = Sent + 1
    <3>1. CASE left = 1
      BY <1>0, <1>4, <2>2, <3>1 DEF Send, Queue, Sent
    <3>2. CASE left # 1
      BY <1>0, <1>4, <2>1, <2>2, <3>2 DEF Send, Queue, Sent, loopVars
    <3> QED
      BY <3>1, <3>2
  <2>4. pc' = "send" \/ (pc' \in {"turn", "recv"} /\ left' = 0)
    BY <1>0, <1>4 DEF Send, Queue, loopVars
  <2>5. Sent \in Nat
    BY <1>0 DEF Sent
  <2>6. CASE peerEnd = "open" /\ up' = up + 1 /\ UNCHANGED peerEnd
    <3>1. peer.rx' + up' = Sent'
      BY <1>0, <1>i, <1>u, <2>1, <2>3, <2>5, <2>6 DEF Connection
    <3>2. Sent' \in Nat
      BY <2>3, <2>5
    <3> QED
      BY <1>i, <1>u, <2>1, <2>2, <2>4, <2>6, <3>1, <3>2
      DEF TrafficInv, Connection, WholeBlocks, SinkSilent, NetPlace
  <2>7. CASE peerEnd = "fin" /\ peerEnd' \in {"fin", "rst"} /\ UNCHANGED up
    <3>1. peer.rx' + up' <= Sent'
      BY <1>0, <1>i, <1>u, <2>1, <2>3, <2>5, <2>7 DEF Connection
    <3> QED
      BY <1>i, <1>u, <2>1, <2>2, <2>4, <2>7, <3>1
      DEF TrafficInv, Connection, WholeBlocks, SinkSilent, NetPlace
  <2> QED
    BY <1>4, <2>6, <2>7 DEF Send
<1>5. CASE TransferFails
  <2>1. deviceEnd = "open" /\ workload \in NetLoad
    BY <1>2, <1>5 DEF TransferFails, NetPlace
  <2>2. UNCHANGED <<a, up, down, left, deviceEnd, peerEnd>> /\ pc' = "close"
    BY <1>5 DEF TransferFails, trafficVars, wires
  <2>3. ~(link /\ peerEnd = "open")
    BY <1>5 DEF TransferFails, Broken
  <2> QED
    BY <1>i, <1>u, <2>1, <2>2, <2>3
    DEF TrafficInv, Connection, WholeBlocks, SinkSilent, NetPlace, Sent
<1>6. CASE Recv
  <2>1. deviceEnd = "open" /\ workload \in NetLoad /\ left = 0
    BY <1>2, <1>6, <1>i DEF Recv, NetPlace, WholeBlocks
  <2>2. UNCHANGED <<a, up, left, deviceEnd, peerEnd>> /\ pc' = "turn"
    BY <1>6 DEF Recv
  <2>3. down # 0
    BY <1>0, <1>6 DEF Recv, Smaller
  <2> QED
    BY <1>i, <1>u, <2>1, <2>2, <2>3
    DEF TrafficInv, Connection, WholeBlocks, SinkSilent, NetPlace, Sent
<1>7. CASE Close
  <2>1. deviceEnd = "open" /\ workload \in NetLoad
    BY <1>2, <1>7 DEF Close, NetPlace
  <2>2. UNCHANGED <<a, up, down, left, peerEnd>> /\ pc' = "verdict"
    BY <1>7 DEF Close, Return, wires
  <2>3. deviceEnd' \in {"fin", "rst"} /\ (down = 0 => deviceEnd' = "fin")
    BY <1>7 DEF Close, Closed
  <2> QED
    BY <1>7, <1>i, <1>u, <2>1, <2>2, <2>3
    DEF TrafficInv, Connection, WholeBlocks, SinkSilent, Sent, Close
<1> QED
  BY <1>1, <1>3, <1>4, <1>5, <1>6, <1>7 DEF DeviceStep

\* The peer's steps: what it reads leaves its buffer for its count, and it sees
\* the end of the data when the buffer is empty.
LEMMA PeerTrafficInv ==
  ASSUME TypeOK, TrafficInv, PeerStep
  PROVE  TrafficInv'
<1>0. /\ a \in Nat /\ up \in Nat /\ down \in Nat /\ left \in 0..IO_BLOCK
      /\ peer.rx \in Nat /\ IO_BLOCK \in Nat \ {0} /\ peer \in PeerRecord
      /\ {deviceEnd, peerEnd} \subseteq {"none", "open", "fin", "rst"}
  BY TrafficAssumption, LoopAssumption
  DEF TypeOK, LoopType, TrafficType, PeerRecord
<1>i. Connection /\ WholeBlocks /\ SinkSilent
  BY DEF TrafficInv
<1>u. /\ UNCHANGED <<workload, pc, a, link, left>> /\ Sent' = Sent /\ Sent \in Nat
  BY <1>0 DEF PeerStep, loopVars, Sent
<1>1. CASE PeerRecv
  <2>1. PICK n \in 1..Smaller(up, IO_BLOCK) :
          /\ up' = up - n
          /\ peer' = [peer EXCEPT !.rx = @ + Counted(n), !.left = n, !.size = n,
               !.pc = IF workload = "NET_BIDIRECTIONAL" THEN "send" ELSE "loop"]
    BY <1>1 DEF PeerRecv
  <2>2. n \in Nat /\ n <= up
    BY <1>0, <2>1 DEF Smaller
  <2>3. /\ peer'.rx = peer.rx + n
        /\ peer'.pc = IF workload = "NET_BIDIRECTIONAL" THEN "send" ELSE "loop"
    BY <1>0, <2>1 DEF PeerRecord, Counted
  <2>4. peer'.rx + up' = peer.rx + up
    BY <1>0, <2>1, <2>2, <2>3
  <2>5. deviceEnd # "none" /\ peer.pc = "recv" /\ UNCHANGED <<down, deviceEnd, peerEnd>>
    BY <1>1, <1>i DEF PeerRecv, Connection
  <2> QED
    BY <1>i, <1>u, <2>3, <2>4, <2>5 DEF TrafficInv, Connection, WholeBlocks, SinkSilent
<1>2. CASE PeerSend
  <2>1. peer.pc = "send" /\ UNCHANGED <<up, peerEnd>>
        /\ deviceEnd' \in {deviceEnd, "fin", "rst"}
        /\ (deviceEnd' # deviceEnd => deviceEnd = "fin")
    BY <1>2 DEF PeerSend
  <2>2. peer'.pc \in {"send", "loop"} /\ peer'.rx = peer.rx
    <3>1. CASE peer.left = 1
      BY <1>0, <1>2, <2>1, <3>1 DEF PeerSend, PeerRecord
    <3>2. CASE peer.left # 1
      BY <1>0, <1>2, <2>1, <3>2 DEF PeerSend, PeerRecord
    <3> QED
      BY <3>1, <3>2
  <2>3. workload # "NET_TX" /\ deviceEnd # "none"
    BY <1>i, <2>1 DEF SinkSilent, Connection
  <2> QED
    BY <1>i, <1>u, <2>1, <2>2, <2>3 DEF TrafficInv, Connection, WholeBlocks, SinkSilent
<1>3. CASE /\ Accept \/ AcceptTimesOut \/ BusyEnds \/ PeerLoop
              \/ PeerEof \/ PeerTimesOut \/ PeerReset
           /\ UNCHANGED <<wires, deviceEnd>>
  <2>1. UNCHANGED <<up, down, deviceEnd>>
    BY <1>3 DEF wires
  <2>2. \A how : [peer EXCEPT !.pc = how].pc = how /\ [peer EXCEPT !.pc = how].rx = peer.rx
    BY <1>0 DEF PeerRecord
  <2>3. Closed(up) \in {"fin", "rst"}
    BY DEF Closed
  <2>4. CASE Accept
    <3>1. peer.pc = "accept" /\ deviceEnd # "none" /\ UNCHANGED peerEnd
          /\ peer'.pc = "loop" /\ peer'.rx = peer.rx
      BY <2>2, <2>4 DEF Accept
    <3> QED
      BY <1>i, <1>u, <2>1, <3>1 DEF TrafficInv, Connection, WholeBlocks, SinkSilent
  <2>5. CASE AcceptTimesOut
    <3>1. deviceEnd = "none" /\ peer'.pc = "crashed" /\ peer'.rx = peer.rx
      BY <2>2, <2>5 DEF AcceptTimesOut, PeerCloses
    <3>2. UNCHANGED peerEnd
      BY <1>i, <2>5, <3>1 DEF AcceptTimesOut, PeerCloses, Connection
    <3> QED
      BY <1>i, <1>u, <2>1, <3>1, <3>2 DEF TrafficInv, Connection, WholeBlocks, SinkSilent
  <2>6. CASE BusyEnds
    <3>1. peer'.pc = "gone" /\ peer'.rx = peer.rx
          /\ peerEnd' = IF peerEnd = "none" THEN "none" ELSE "rst"
      BY <2>2, <2>6 DEF BusyEnds
    <3> QED
      BY <1>i, <1>u, <2>1, <3>1 DEF TrafficInv, Connection, WholeBlocks, SinkSilent
  <2>7. CASE PeerLoop
    <3>0. peer.pc = "loop" /\ deviceEnd # "none" /\ peerEnd = "open"
      BY <1>i, <2>7 DEF PeerLoop, Connection
    <3>1. CASE PeerCloses("reported")
      <4>1. peer'.pc = "reported" /\ peer'.rx = peer.rx /\ peerEnd' \in {"fin", "rst"}
        BY <2>2, <2>3, <3>0, <3>1 DEF PeerCloses
      <4> QED
        BY <1>0, <1>i, <1>u, <2>1, <3>0, <4>1
        DEF TrafficInv, Connection, WholeBlocks, SinkSilent
    <3>2. CASE /\ peer' = IF workload = "NET_RX"
                   THEN [peer EXCEPT !.pc = "send", !.left = IO_BLOCK, !.size = IO_BLOCK]
                   ELSE [peer EXCEPT !.pc = "recv"]
               /\ UNCHANGED peerEnd
      <4>1. /\ peer'.pc = IF workload = "NET_RX" THEN "send" ELSE "recv"
            /\ peer'.rx = peer.rx
        <5>1. CASE workload = "NET_RX"
          BY <1>0, <3>2, <5>1 DEF PeerRecord
        <5>2. CASE workload # "NET_RX"
          BY <2>2, <3>2, <5>2
        <5> QED
          BY <5>1, <5>2
      <4> QED
        BY <1>i, <1>u, <2>1, <3>0, <3>2, <4>1
        DEF TrafficInv, Connection, WholeBlocks, SinkSilent
    <3> QED
      BY <2>7, <3>1, <3>2 DEF PeerLoop
  <2>8. CASE PeerEof
    <3>1. peer.pc = "recv" /\ link /\ up = 0 /\ deviceEnd = "fin" /\ peerEnd = "open"
      BY <1>i, <2>8 DEF PeerEof, Connection
    <3>2. peer'.pc = "eof" /\ peer'.rx = peer.rx /\ peerEnd' \in {"fin", "rst"}
      BY <2>2, <2>3, <2>8, <3>1 DEF PeerEof, PeerCloses
    <3>3. left = 0 /\ peer.rx + up = Sent
      BY <1>i, <3>1 DEF Connection, WholeBlocks
    <3>4. peer.rx = a
      BY <1>0, <3>1, <3>3 DEF Sent
    <3> QED
      BY <1>0, <1>i, <1>u, <2>1, <3>1, <3>2, <3>3, <3>4
      DEF TrafficInv, Connection, WholeBlocks, SinkSilent
  <2>9. CASE PeerTimesOut
    <3>1. peer.pc \in {"recv", "send"} /\ deviceEnd # "none" /\ UNCHANGED peerEnd
          /\ peer'.pc = "loop" /\ peer'.rx = peer.rx
      BY <1>0, <1>i, <2>9 DEF PeerTimesOut, SecondPasses, PeerRecord, Connection
    <3> QED
      BY <1>i, <1>u, <2>1, <3>1 DEF TrafficInv, Connection, WholeBlocks, SinkSilent
  <2>10. CASE PeerReset
    <3>1. peer.pc \in {"recv", "send"} /\ deviceEnd = "rst" /\ peerEnd = "open"
      BY <1>i, <2>10 DEF PeerReset, Connection
    <3>2. peer'.pc = "crashed" /\ peer'.rx = peer.rx /\ peerEnd' \in {"fin", "rst"}
      BY <2>2, <2>3, <2>10, <3>1 DEF PeerReset, PeerCloses
    <3> QED
      BY <1>0, <1>i, <1>u, <2>1, <3>1, <3>2
      DEF TrafficInv, Connection, WholeBlocks, SinkSilent
  <2> QED
    BY <1>3, <2>4, <2>5, <2>6, <2>7, <2>8, <2>9, <2>10
<1> QED
  BY <1>1, <1>2, <1>3 DEF PeerStep

\* Every step keeps the connection's invariant.
LEMMA NextTrafficInv ==
  TypeOK /\ InPlace /\ TrafficInv /\ [Next]_vars => TrafficInv'
<1> SUFFICES ASSUME TypeOK, InPlace, TrafficInv, [Next]_vars PROVE TrafficInv'
  OBVIOUS
<1>1. CASE Net
  <2>1. CASE PeerDeadline \/ LinkLost
    BY <2>1 DEF PeerDeadline, LinkLost, loopVars, wires, TrafficInv, Connection,
       WholeBlocks, SinkSilent, Sent
  <2> QED
    BY <1>1, <2>1, DeviceTrafficInv, PeerTrafficInv DEF Net, TrafficStep
<1>2. CASE UNCHANGED vars
  BY <1>2 DEF vars, loopVars, bodyVars, flashVars, trafficVars, wires, TrafficInv,
     Connection, WholeBlocks, SinkSilent, Sent
<1> QED
  BY <1>1, <1>2, OthersTrafficInv, FlashTrafficInv DEF Next, Others

\* What the connection's invariant says of the evidence.
LEMMA TrafficEvidence == TypeOK /\ TrafficInv => EvidenceAgrees
<1> SUFFICES ASSUME TypeOK, TrafficInv, workload \in NetLoad
             PROVE  /\ peer.rx <= a + IO_BLOCK /\ (peer.pc = "eof" => peer.rx = a)
                    /\ workload = "NET_TX" /\ peer.pc = "crashed" => deviceEnd = "none"
  BY DEF EvidenceAgrees
<1>0. /\ a \in Nat /\ up \in Nat /\ left \in 0..IO_BLOCK
      /\ peer.rx \in Nat /\ IO_BLOCK \in Nat
  BY TrafficAssumption, LoopAssumption
  DEF TypeOK, LoopType, TrafficType, PeerRecord
<1>1. peer.rx <= a + IO_BLOCK
  BY <1>0 DEF TrafficInv, Connection, Sent
<1> QED
  BY <1>1 DEF TrafficInv, WholeBlocks, SinkSilent

-----------------------------------------------------------------------------
(* The theorems.                                                           *)

WorkloadInv == TypeOK /\ InPlace /\ Judged /\ FlashInv /\ TrafficInv

\* The conjunction of all parts is an invariant of every run and reset.
THEOREM WorkloadInvariant == Spec => []WorkloadInv
<1>1. Init => WorkloadInv
  BY InitType, InitInPlace, InitJudged, InitFlashInv, InitTrafficInv DEF WorkloadInv
<1>2. WorkloadInv /\ [Next]_vars => WorkloadInv'
  BY NextType, NextInPlace, NextJudged, NextFlashInv, NextTrafficInv DEF WorkloadInv
<1> QED
  BY <1>1, <1>2, PTL DEF Spec

\* Every variable keeps its type, through any number of runs and resets.
THEOREM WorkloadTypeCorrect == Spec => []TypeOK
<1>1. WorkloadInv => TypeOK
  BY DEF WorkloadInv
<1> QED
  BY <1>1, WorkloadInvariant, PTL

\* A run has the numbers that were asked for, and defaults for what is none,
\* whatever the widths of the C types and the limits of the firmware; and a body
\* the schema allows begins a run, but for an unknown workload, a rate beyond 32
\* bits and a network workload without a peer, which only the schema allows.
THEOREM RunsAreAsAsked == Spec => []RequestHonoured
<1>1. WorkloadInv => RequestHonoured
  BY JudgedHonoured DEF WorkloadInv
<1> QED
  BY <1>1, WorkloadInvariant, PTL

\* No workload writes to the partition that runs.
THEOREM RunningImageSafe == Spec => []RunningImageIntact
<1>1. WorkloadInv => RunningImageIntact
  BY DEF WorkloadInv, FlashInv
<1> QED
  BY <1>1, WorkloadInvariant, PTL

\* No block is written that was not erased, in partitions of any size.
THEOREM WritesFollowErasures == Spec => []ErasedBeforeWritten
<1>1. WorkloadInv => ErasedBeforeWritten
  BY DEF WorkloadInv, FlashInv
<1> QED
  BY <1>1, WorkloadInvariant, PTL

\* The bytes a passing flash run counts are in the partition, after any number
\* of laps, and it fails only when the hardware failed or it was aborted.
THEOREM FlashRunsReportTruly == Spec => []FlashReportTrue
<1>1. WorkloadInv => FlashReportTrue
  BY DEF WorkloadInv, FlashInv
<1> QED
  BY <1>1, WorkloadInvariant, PTL

\* A run leaves no test data beside the credentials unless erasing it failed.
THEOREM NvsIsLeftClean == Spec => []NvsLeftClean
<1>1. WorkloadInv => NvsLeftClean
  BY DEF WorkloadInv, FlashInv
<1> QED
  BY <1>1, WorkloadInvariant, PTL

\* The evidence of the peer agrees with the device's, for blocks and buffers of
\* any size and any interleaving of the two ends.
THEOREM PeersEvidenceAgrees == Spec => []EvidenceAgrees
<1>1. WorkloadInv => EvidenceAgrees
  BY TrafficEvidence DEF WorkloadInv
<1> QED
  BY <1>1, WorkloadInvariant, PTL
=============================================================================
