------------------------------ MODULE Workload ------------------------------
(***************************************************************************)
(* From a POST to a verdict: runs_post judges the body of the request, and *)
(* workload_task dispatches on the workload; the bodies with their devices *)
(* and resets in the middle.  A client whose first request was accepted    *)
(* asks for the same workload again and again.                             *)
(***************************************************************************)
EXTENDS FlashCycle, Traffic, FiniteSets

CONSTANTS Body,      \* bodies of the first request
          MaxRuns    \* bound: runs, and resets

\* JSON gives every field of the body one of these forms.
Field(field) ==
  /\ field \in [kind : {"absent", "other", "number"}, halves : Int]
  /\ field.kind # "number" => field.halves = 0

ASSUME RunsAssumption == MaxRuns \in Nat
ASSUME BodyAssumption ==
  \A body \in Body :
    /\ Field(body.duration_ms) /\ Field(body.port) /\ Field(body.rate_bps)
    /\ body.host \in {"absent", "other", "plain", "odd", "long"}

VARIABLES asked,       \* the first request, until its run begins
          runs,        \* runs and resets left
          associated   \* the station is connected or the access point has a client

bodyVars == <<flashVars, trafficVars>>
others == <<asked, runs, associated>>
vars == <<loopVars, bodyVars, others>>

Nothing == [workload |-> "BOOT"]

Init ==
  /\ asked \in Body
  /\ workload = IF asked.workload \in Known THEN asked.workload ELSE "BOOT"
  /\ pc = "posted" /\ ok = TRUE /\ a = 0 /\ b = 0
  /\ expired = FALSE /\ abort_requested = FALSE /\ result = "none"
  /\ FlashInit /\ TrafficInit
  /\ workload \notin FlashLoad => running = "ota_0"   \* nobody else looks
  /\ runs = MaxRuns /\ associated = FALSE

\* The answer is 201 or 400; runs and aborts of a run under way are the
\* subject of RunLifecycle.
RunsPost ==
  /\ pc = "posted"
  /\ GoTo(IF Accepted(asked) THEN "accepted" ELSE "refused")
  /\ UNCHANGED <<bodyVars, others>>

\* db_run_begin, and the locals of a new task.  A peer serves one connection.
Begin ==
  /\ pc \in {"accepted", "idle"} /\ runs > 0
  /\ asked' = Nothing
  /\ workload \in NetLoad => deviceEnd = "none"
  /\ pc' = "body" /\ ok' = TRUE /\ a' = 0 /\ b' = 0
  /\ expired' = FALSE /\ abort_requested' = FALSE /\ result' = "none"
  /\ runs' = runs - 1 /\ fault' = "none"
  /\ UNCHANGED <<workload, running, flash, target, offset, payload, trafficVars,
                 associated>>

\* The association is looked at once, before the wait.
LookAssociated ==
  /\ pc = "body" /\ workload = "WIFI_ASSOCIATED_IDLE"
  /\ \/ associated /\ pc' = "wait" /\ UNCHANGED ok
     \/ ~associated /\ pc' = "verdict" /\ ok' = FALSE
  /\ UNCHANGED <<workload, a, b, flags, result, bodyVars, others>>

\* wait_abortable: an abort after the last look is not looked for again.
Wait ==
  /\ pc = IF workload = "WIFI_ASSOCIATED_IDLE" THEN "wait" ELSE "body"
  /\ workload \in WaitLoad
  /\ pc' = "verdict"
  /\ \/ expired /\ ok' = TRUE
     \/ should_abort /\ ok' = FALSE
  /\ UNCHANGED <<workload, a, b, flags, result, bodyVars, others>>

\* run_cpu; its x is never zero.
Cpu ==
  /\ pc = "body" /\ workload = "CPU_STRESS"
  /\ \/ MayGo /\ a' = a + IO_BLOCK /\ UNCHANGED <<workload, pc, ok, b, flags, result>>
     \/ ~Going /\ Return(TRUE)
  /\ UNCHANGED <<bodyVars, others>>

Verdict ==
  /\ pc = "verdict"
  /\ pc' = "idle"
  /\ result' = IF should_abort THEN "aborted" ELSE IF ok THEN "pass" ELSE "fail"
  /\ UNCHANGED <<workload, ok, a, b, flags, bodyVars, others>>

Running == pc \notin {"posted", "refused", "accepted", "idle"}

Deadline ==
  /\ Running /\ ~expired /\ expired' = TRUE
  /\ UNCHANGED <<workload, pc, ok, a, b, abort_requested, result, bodyVars, others>>

Abort ==
  /\ Running /\ ~abort_requested /\ abort_requested' = TRUE
  /\ UNCHANGED <<workload, pc, ok, a, b, expired, result, bodyVars, others>>

\* Wi-Fi comes and goes.
Associate ==
  /\ workload = "WIFI_ASSOCIATED_IDLE"
  /\ associated' = ~associated
  /\ UNCHANGED <<loopVars, bodyVars, asked, runs>>

\* The flash keeps what it holds; a peer is not told.
Reset ==
  /\ Running /\ runs > 0
  /\ pc' = "idle" /\ runs' = runs - 1 /\ result' = "none"
  /\ UNCHANGED <<workload, ok, a, b, flags, bodyVars, asked, associated>>

Flash == FlashStep /\ UNCHANGED <<trafficVars, others>>
Net == TrafficStep /\ UNCHANGED <<flashVars, others>>

Next ==
  \/ RunsPost \/ Begin \/ LookAssociated \/ Wait \/ Cpu \/ Flash \/ Net \/ Verdict
  \/ Deadline \/ Abort \/ Associate \/ Reset

Spec == Init /\ [][Next]_vars

\* The tasks of both ends run, and both clocks reach their deadlines.
FairSpec ==
  /\ Spec
  /\ WF_vars(LookAssociated \/ Wait \/ Cpu \/ Verdict) /\ WF_vars(Deadline)
  /\ WF_vars(Flash)
  /\ WF_vars(DeviceStep /\ UNCHANGED <<flashVars, others>>)
  /\ WF_vars(PeerStep /\ UNCHANGED <<flashVars, others>>)
  /\ WF_vars(PeerDeadline /\ UNCHANGED <<flashVars, others>>)

-----------------------------------------------------------------------------
(* Properties.                                                             *)

\* The numbers of a run are exactly those asked for, none is truncated or wrapped
\* into its C type, and what is no number, absent or of another JSON type, is the
\* default; a network run has a peer to connect to.  And of the bodies that the
\* schema of protocol/openapi.yaml allows, the firmware refuses only those of
\* OnlyDocumented, where the two disagree: the schema has no maximum for rate_bps,
\* which main.c:464 does not take above 32 bits, it does not list the workloads,
\* and it does not ask a network workload for a peer.
RequestHonoured ==
  /\ pc = "accepted" =>
       LET request == RequestOf(asked)
       IN /\ AsAsked(asked.duration_ms, request.duration_ms, DefaultDuration)
          /\ AsAsked(asked.port, request.port, 0)
          /\ AsAsked(asked.rate_bps, request.rate_bps, 0)
          /\ request.duration_ms \in 1..MaxDuration /\ request.rate_bps < Word32
          /\ workload \in NetLoad =>
               asked.host = "plain" /\ request.port \in 1..(Word16 - 1)
  /\ pc = "refused" => ~Documented(asked) \/ OnlyDocumented(asked)

Cell == {"image", "old", "blank", "data", "broken", "mixed"}
PeerPlace == {"accept", "busy", "gone", "loop", "recv", "send", "eof",
              "reported", "crashed"}
Place == {"posted", "refused", "accepted", "idle", "body", "wait", "loop", "erase",
          "write", "verify", "nvs_loop", "nvs_erase", "turn", "send", "recv", "close", "verdict"}

PeerRecord == [pc : PeerPlace, left : 0..IO_BLOCK, size : 0..IO_BLOCK,
               tx : Nat, rx : Nat]

LoopType ==
  /\ workload \in Known /\ pc \in Place /\ ok \in BOOLEAN
  /\ a \in Nat /\ b \in Nat
  /\ expired \in BOOLEAN /\ abort_requested \in BOOLEAN
  /\ result \in {"none", "pass", "fail", "aborted"}
FlashType ==
  /\ running \in Slot /\ flash \in [Area -> [Offset -> Cell]]
  /\ target \in Area \cup {"none"} /\ payload \in BOOLEAN
  /\ offset \in 0..Blocks /\ (pc \in {"erase", "write", "verify"} => offset \in Offset)
  /\ fault \in {"none", "open", "erase", "write", "worn", "read"}
TrafficType ==
  /\ link \in BOOLEAN /\ up \in 0..Buffer /\ down \in 0..Buffer
  /\ left \in 0..IO_BLOCK
  /\ {deviceEnd, peerEnd} \subseteq {"none", "open", "fin", "rst"}
  /\ peer \in PeerRecord
  /\ peer_late \in BOOLEAN

\* Every variable keeps its type.
TypeOK ==
  /\ LoopType /\ FlashType /\ TrafficType
  /\ runs \in 0..MaxRuns /\ associated \in BOOLEAN

\* docs/BENCH_WORKFLOW.md: the OTA workload writes "only an inactive OTA slot":
\* the image that runs is intact, after any faults, laps and resets.
RunningImageIntact == \A o \in Offset : flash[running][o] = "image"

\* No block is written that is not blank, also on later laps, and after a run
\* that stopped or a reset between an erasure and its write.
ErasedBeforeWritten == \A p \in Area, o \in Offset : flash[p][o] # "mixed"

Capped(n) == IF n < Blocks THEN n ELSE Blocks

\* What a flash run reports is true.  It fails only if the hardware failed or it
\* was aborted: its offsets stay inside the partition on every lap.  The bytes a
\* passing run reports are there: as many blocks of the partition as it counted,
\* or all of them, hold what was written last.
FlashReportTrue ==
  workload \in FlashLoad /\ pc = "verdict" =>
    /\ ~ok => fault # "none" \/ abort_requested
    /\ ok => Cardinality({o \in Offset : flash[target][o] = "data"})
               >= Capped(a \div IO_BLOCK)

\* A run leaves its test data in NVS, beside the station credentials, only if
\* erasing it failed: also when it was aborted, or a write failed.
NvsLeftClean ==
  workload = "NVS_WRITE" /\ pc = "verdict" /\ payload => fault \in {"open", "erase"}

\* README.md, "sink for NET_TX": the evidence of the peer agrees with what the
\* device says it sent.  A peer that saw the end of the data has counted all of
\* it, whatever was read in pieces, no peer counts more than a block beyond it,
\* and no way for the device to end a run makes a connected sink fail.
EvidenceAgrees ==
  workload \in NetLoad =>
    /\ peer.rx <= a + IO_BLOCK /\ (peer.pc = "eof" => peer.rx = a)
    /\ workload = "NET_TX" /\ peer.pc = "crashed" => deviceEnd = "none"

\* A network run ends although send and recv wait for ever, as long as the
\* network works: with all buffers full in both directions, or connected to a
\* peer that serves another device, the peer gives up first.
NetworkRunEnds ==
  (workload \in NetLoad /\ pc = "turn") ~> (pc = "idle" \/ ~link)

-----------------------------------------------------------------------------
(* The strengthening that makes the safety properties inductive.           *)

FlashPlace == {"loop", "erase", "write", "verify"}
NetPlace == {"turn", "send", "recv", "close"}

\* Each place belongs to the bodies of its workloads; a flash run has a target
\* that does not run; who sends has something left to send.
InPlace ==
  /\ pc \in FlashPlace => workload \in FlashLoad /\ target \in Area \ {running}
  /\ pc \in {"nvs_loop", "nvs_erase"} => workload = "NVS_WRITE"
  /\ pc \in NetPlace => workload \in NetLoad /\ deviceEnd = "open"
  /\ pc = "wait" => workload = "WIFI_ASSOCIATED_IDLE"
  /\ pc = "send" => left # 0
  /\ peer.pc = "send" => peer.left # 0

\* What became of the first request.
Judged ==
  /\ pc \in {"posted", "accepted", "refused"} => asked \in Body
  /\ pc = "posted" /\ asked.workload \in Known => workload = asked.workload
  /\ pc = "accepted" => Accepted(asked) /\ workload = asked.workload
  /\ pc = "refused" => ~Accepted(asked)

\* The block between its erasure and the comparison.
BlockInHand ==
  /\ pc = "write" => flash[target][offset] = "blank"
  /\ pc = "verify" => flash[target][offset] = "data" \/ fault = "worn"

\* Lap by lap: the blocks counted are those before the offset, or all, and all
\* of them but the one in hand hold what was written last.
Laps == a \div IO_BLOCK
Covered(o) == Laps >= Blocks \/ o < Laps
LapInv ==
  /\ pc = "body" /\ workload \in FlashLoad => a = 0
  /\ pc \in FlashPlace =>
       /\ a = Laps * IO_BLOCK
       /\ Laps < Blocks => offset = Laps
       /\ \A o \in Offset : Covered(o) /\ (pc = "loop" \/ o # offset) =>
            flash[target][o] = "data"

\* What the device has sent, the block it is sending included.
Sent == a + (IF left = 0 THEN 0 ELSE IO_BLOCK - left)

\* The connection: who has opened and closed it, and that nothing a connected
\* peer should get is lost.
Connection ==
  /\ deviceEnd = "none" =>
       /\ peerEnd = "none" /\ up = 0 /\ left = 0 /\ peer.rx = 0
       /\ peer.pc \in {"accept", "busy", "gone", "crashed"}
       /\ workload \in NetLoad => a = 0
  /\ deviceEnd # "none" =>
       /\ workload \in NetLoad /\ pc \in NetPlace \cup {"verdict", "idle"}
       /\ peer.rx + up <= Sent
       /\ peerEnd = "open" => peer.rx + up = Sent
       /\ peer.pc \in {"accept", "busy", "loop", "recv", "send"} => peerEnd = "open"
  /\ deviceEnd \in {"fin", "rst"} => pc \in {"verdict", "idle"}

\* A block is cut short only for a peer or a network that is gone, and a peer
\* that saw the end of the data has all of it.
WholeBlocks ==
  /\ pc \in {"turn", "recv"} => left = 0
  /\ link /\ peerEnd = "open" /\ (pc = "close" \/ deviceEnd \in {"fin", "rst"}) => left = 0
  /\ peer.pc = "eof" => deviceEnd = "fin" /\ peer.rx = a

\* A sink sends nothing, so nothing makes the device's end of it a reset.
SinkSilent == workload = "NET_TX" =>
  /\ down = 0 /\ peer.pc # "send" /\ deviceEnd # "rst"
  /\ peer.pc = "crashed" => deviceEnd = "none"

FlashInv == /\ RunningImageIntact /\ ErasedBeforeWritten
            /\ BlockInHand /\ LapInv /\ FlashReportTrue /\ NvsLeftClean
TrafficInv == Connection /\ WholeBlocks /\ SinkSilent
=============================================================================
