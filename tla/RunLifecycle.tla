---------------------------- MODULE RunLifecycle ----------------------------
(***************************************************************************)
(* The run engine of the DragonBench firmware: current_run, the HTTP task  *)
(* that begins and aborts runs, the workload tasks that execute them, and  *)
(* the controlled reboot with its RTC marker.                              *)
(*                                                                         *)
(* Every section of code between a take and a give of state_lock is one    *)
(* action; everything outside the lock may interleave.  The HTTP server is *)
(* one task, so its handlers never overlap each other, but a workload task *)
(* outlives its own run: db_run_finish makes current_run COMPLETE while    *)
(* the task still has to report run_complete and perhaps restart the chip. *)
(***************************************************************************)
EXTENDS Naturals, Sequences

CONSTANTS Worker,    \* task handles xTaskCreate can return
          Workload,  \* workload names clients ask for
          MaxRun,    \* bound: runs of the first boot, one fewer in each next
          MaxBoot    \* bound: boots

\* The workloads whose body is wait_abortable, and those whose body reads
\* should_abort once more after its loop.
WaitLoad == {"BOOT", "IDLE", "WIFI_ASSOCIATED_IDLE", "CONTROLLED_REBOOT"}
NetLoad == {"NET_TX", "NET_RX", "NET_BIDIRECTIONAL"}
CheckedLoad == NetLoad \cup {"CPU_STRESS", "FLASH_WRITE", "NVS_WRITE",
                             "OTA_PARTITION_WRITE"}
\* The workloads whose body can fail on its own.
MayFail == CheckedLoad \cup {"WIFI_ASSOCIATED_IDLE"}

ASSUME WorkloadAssumption == Workload \subseteq (WaitLoad \cup CheckedLoad)
ASSUME BoundAssumption == MaxRun \in Nat \ {0} /\ MaxBoot \in Nat \ {0}

\* boot_nonce and run_counter; distinct boots draw distinct nonces.
RunId == (1..MaxBoot) \X (1..MaxRun)
NoRun == <<0, 0>>
Result == {"pass", "fail", "aborted"}
HardReason == {"power_on", "panic"}

VARIABLES
  boot,         \* boot_nonce
  run_counter,
  run,          \* current_run
  httpd,        \* where the HTTP task is inside runs_post
  task,         \* per task handle: its pc and the locals of workload_task
  marker,       \* reboot_marker, in RTC memory that survives a reset
  previous,     \* previous_reboot_run_id
  reset_reason,
  log,          \* history: the events each run reported on the serial log
  ack,          \* history: whether an abort was acknowledged, and when
  outcome       \* history: the result db_run_finish recorded for each run

vars == <<boot, run_counter, run, httpd, task, marker, previous,
          reset_reason, log, ack, outcome>>

-----------------------------------------------------------------------------
(* firmware/common/db_run.c                                                *)

IdleRun == [id |-> NoRun, workload |-> "IDLE", state |-> "idle",
            abort_requested |-> FALSE, result |-> "none"]

\* Mutant: the abort flag survives into the next run.
db_run_begin_NoMemset(wl, id) ==
  [id |-> id, workload |-> wl, state |-> "running",
   abort_requested |-> run.abort_requested, result |-> "running"]

\* db_run_begin zeroes the structure first, the abort flag included.
db_run_begin(wl, id) ==
  [id |-> id, workload |-> wl, state |-> "running",
   abort_requested |-> FALSE, result |-> "running"]

\* Mutants: the path's run id is not compared; any run but none is aborted.
CanAbort_AnyId(r, id) == r.state = "running"
CanAbort_AnyState(r, id) == r.state # "idle" /\ r.id = id
CanAbort(r, id) == r.state = "running" /\ r.id = id

\* Mutant: the state's name is stored as the result.
db_run_abort_Result(r) ==
  [r EXCEPT !.abort_requested = TRUE, !.result = "aborting"]
db_run_abort(r) == [r EXCEPT !.abort_requested = TRUE, !.state = "aborting"]
db_run_finish(r, res) == [r EXCEPT !.state = "complete", !.result = res]

-----------------------------------------------------------------------------
(* The program counter of a workload task names the next thing it does.    *)

FreeTask == [pc |-> "free", id |-> NoRun, workload |-> "IDLE",
             ok |-> TRUE, result |-> "none"]
NewTask == [FreeTask EXCEPT !.pc = "start"]

BeforeVerdict == {"start", "phase_start", "body", "verdict"}
AfterVerdict == {"fault_check", "fault", "phase_end", "finish"}
Active == BeforeVerdict \cup AfterVerdict
Tail_ == {"run_complete", "reboot_check", "marker_magic", "marker_id", "restart"}

Step(w, from, to) ==
  /\ task[w].pc = from
  /\ task' = [task EXCEPT ![w].pc = to]

Entry(event, result) == [event |-> event, result |-> result]
Emit(w, event, result) ==
  log' = [log EXCEPT ![task[w].id] = Append(@, Entry(event, result))]

should_abort == run.abort_requested

-----------------------------------------------------------------------------
Init ==
  /\ boot = 1 /\ run_counter = 0
  /\ run = IdleRun
  /\ httpd = "idle"
  /\ task = [w \in Worker |-> FreeTask]
  /\ marker = [magic |-> FALSE, run_id |-> NoRun]
  /\ previous = NoRun /\ reset_reason = "power_on"
  /\ log = [id \in RunId |-> <<>>]
  /\ ack = [id \in RunId |-> "none"]
  /\ outcome = [id \in RunId |-> "none"]

history == <<log, ack, outcome>>
rebooting == <<boot, marker, previous, reset_reason>>

(* ---- the HTTP task ---- *)

\* Mutant: a run that is being aborted no longer counts as active.
MayBegin_WhileAborting == run.state # "running"
MayBegin == run.state \notin {"running", "aborting"}

\* POST /api/v1/runs with a valid body: refused while a run is active.
RunsPost(wl) ==
  /\ httpd = "idle"
  /\ MayBegin
  /\ run_counter + boot <= MaxRun
  /\ run_counter' = run_counter + 1
  /\ run' = db_run_begin(wl, <<boot, run_counter + 1>>)
  /\ httpd' = "create"
  /\ UNCHANGED <<task, rebooting, history>>

\* xTaskCreate, outside the lock.
TaskCreated(w) ==
  /\ httpd = "create" /\ task[w].pc = "free"
  /\ task' = [task EXCEPT ![w] = NewTask]
  /\ httpd' = "idle"
  /\ UNCHANGED <<run_counter, run, rebooting, history>>

TaskCreationFailed ==
  /\ httpd = "create"
  /\ httpd' = "create_failed"
  /\ UNCHANGED <<run_counter, run, task, rebooting, history>>

\* Mutant: the error path forgets the run it began.
FinishUncreated_Forgotten ==
  /\ httpd = "create_failed"
  /\ httpd' = "idle"
  /\ UNCHANGED <<run_counter, run, task, rebooting, history>>

FinishUncreated ==
  /\ httpd = "create_failed"
  /\ run' = db_run_finish(run, "fail")
  /\ outcome' = [outcome EXCEPT ![run.id] = "fail"]
  /\ httpd' = "idle"
  /\ UNCHANGED <<run_counter, task, rebooting, log, ack>>

\* POST /api/v1/runs/<id>/abort that is answered 200.
AbortPost(id) ==
  /\ httpd = "idle"
  /\ CanAbort(run, id)
  /\ run' = db_run_abort(run)
  /\ ack' = [ack EXCEPT ![id] =
               IF \E w \in Worker : task[w].pc \in AfterVerdict
               THEN "late" ELSE "early"]
  /\ UNCHANGED <<run_counter, httpd, task, rebooting, log, outcome>>

(* ---- workload_task ---- *)

\* The task copies current_run under the lock.
CopyRun(w) ==
  /\ task[w].pc = "start"
  /\ task' = [task EXCEPT ![w].pc = "phase_start", ![w].id = run.id,
                          ![w].workload = run.workload]
  /\ UNCHANGED <<run_counter, run, httpd, rebooting, history>>

PhaseStart(w) ==
  /\ Step(w, "phase_start", "body")
  /\ Emit(w, "phase_start", "none")
  /\ UNCHANGED <<run_counter, run, httpd, rebooting, ack, outcome>>

\* The workload's loop ends in one of three ways.
BodyEnds(w, ok) ==
  /\ task[w].pc = "body"
  /\ task' = [task EXCEPT ![w].pc = "verdict", ![w].ok = ok]
  /\ UNCHANGED <<run_counter, run, httpd, rebooting, history>>

BodyDeadline(w) ==
  BodyEnds(w, task[w].workload \in WaitLoad \/ ~should_abort)
BodyAborted(w) == should_abort /\ BodyEnds(w, FALSE)
BodyFailed(w) == task[w].workload \in MayFail /\ BodyEnds(w, FALSE)

Verdict(w) ==
  /\ task[w].pc = "verdict"
  /\ task' = [task EXCEPT ![w].pc = "fault_check",
                ![w].result = IF should_abort THEN "aborted"
                              ELSE IF task[w].ok THEN "pass" ELSE "fail"]
  /\ UNCHANGED <<run_counter, run, httpd, rebooting, history>>

\* Mutant: the fault is reported for aborted runs too.
FaultWanted_Always(w) == ~task[w].ok
\* should_abort is read a second time before the fault is reported.
FaultWanted(w) == ~task[w].ok /\ ~should_abort

FaultCheck(w) ==
  /\ Step(w, "fault_check",
          IF FaultWanted(w) THEN "fault" ELSE "phase_end")
  /\ UNCHANGED <<run_counter, run, httpd, rebooting, history>>

Fault(w) ==
  /\ Step(w, "fault", "phase_end")
  /\ Emit(w, "fault", "fail")
  /\ UNCHANGED <<run_counter, run, httpd, rebooting, ack, outcome>>

PhaseEnd(w) ==
  /\ Step(w, "phase_end", "finish")
  /\ Emit(w, "phase_end", task[w].result)
  /\ UNCHANGED <<run_counter, run, httpd, rebooting, ack, outcome>>

Finish(w) ==
  /\ Step(w, "finish", "run_complete")
  /\ run' = db_run_finish(run, task[w].result)
  /\ outcome' = [outcome EXCEPT ![run.id] = task[w].result]
  /\ UNCHANGED <<run_counter, httpd, rebooting, log, ack>>

\* From here on a new run may already be current.
RunComplete(w) ==
  /\ Step(w, "run_complete", "reboot_check")
  /\ Emit(w, "run_complete", task[w].result)
  /\ UNCHANGED <<run_counter, run, httpd, rebooting, ack, outcome>>

RebootCheck(w) ==
  /\ task[w].pc = "reboot_check"
  /\ task' = [task EXCEPT ![w] =
       IF task[w].workload = "CONTROLLED_REBOOT" /\ task[w].ok /\ ~should_abort
       THEN [task[w] EXCEPT !.pc = "marker_magic"]
       ELSE FreeTask]
  /\ UNCHANGED <<run_counter, run, httpd, rebooting, history>>

MarkerMagic(w) ==
  /\ Step(w, "marker_magic", "marker_id")
  /\ marker' = [marker EXCEPT !.magic = TRUE]
  /\ UNCHANGED <<boot, previous, reset_reason, run_counter, run, httpd, history>>

MarkerId(w) ==
  /\ Step(w, "marker_id", "restart")
  /\ marker' = [marker EXCEPT !.run_id = task[w].id]
  /\ UNCHANGED <<boot, previous, reset_reason, run_counter, run, httpd, history>>

(* ---- resets ---- *)

\* Mutant: the reset reason is not looked at.
MarkerCounts_AnyReset(reason, rtc) == rtc.magic
\* The marker counts only after a restart.
MarkerCounts(reason, rtc) == reason = "software" /\ rtc.magic

\* app_main up to the start of the HTTP server, on the RTC memory a reset left.
\* The marker is used once.
AppMain(reason, rtc) ==
  /\ boot < MaxBoot
  /\ boot' = boot + 1 /\ run_counter' = 0
  /\ run' = IdleRun /\ httpd' = "idle"
  /\ task' = [w \in Worker |-> FreeTask]
  /\ previous' = IF MarkerCounts(reason, rtc) THEN rtc.run_id ELSE NoRun
  /\ marker' = [magic |-> FALSE, run_id |-> rtc.run_id]
  /\ reset_reason' = reason
  /\ UNCHANGED history

Restart(w) == task[w].pc = "restart" /\ AppMain("software", marker)

\* A reset the firmware did not ask for; losing power loses the RTC memory.
HardReset(reason) ==
  \E magic \in IF reason = "power_on" THEN BOOLEAN ELSE {marker.magic} :
     AppMain(reason, [magic |-> magic, run_id |-> marker.run_id])

-----------------------------------------------------------------------------
TaskStep(w) ==
  \/ CopyRun(w) \/ PhaseStart(w)
  \/ BodyDeadline(w) \/ BodyAborted(w) \/ BodyFailed(w)
  \/ Verdict(w) \/ FaultCheck(w) \/ Fault(w) \/ PhaseEnd(w) \/ Finish(w)
  \/ RunComplete(w) \/ RebootCheck(w) \/ MarkerMagic(w) \/ MarkerId(w)
  \/ Restart(w)

HttpStep ==
  \/ \E w \in Worker : TaskCreated(w)
  \/ TaskCreationFailed
  \/ FinishUncreated

Next ==
  \/ \E w \in Worker : TaskStep(w)
  \/ HttpStep
  \/ \E wl \in Workload : RunsPost(wl)
  \/ \E id \in RunId : AbortPost(id)
  \/ \E reason \in HardReason : HardReset(reason)

Spec == Init /\ [][Next]_vars

\* send and recv have no timeout: a silent peer blocks the body for good.
MayBlock(w) == task[w].pc = "body" /\ task[w].workload \in NetLoad

\* FreeRTOS runs every ready task, and the clock reaches every deadline.
FairSpec ==
  /\ Spec
  /\ WF_vars(HttpStep)
  /\ \A w \in Worker : WF_vars(~MayBlock(w) /\ TaskStep(w))

-----------------------------------------------------------------------------
(* Properties.                                                             *)

RunRecord == [id : RunId \cup {NoRun}, workload : Workload \cup {"IDLE"},
              state : {"idle", "running", "aborting", "complete"},
              abort_requested : BOOLEAN, result : Result \cup {"none", "running"}]
TaskRecord == [pc : Active \cup Tail_ \cup {"free"}, id : RunId \cup {NoRun},
               workload : Workload \cup {"IDLE"},
               ok : BOOLEAN, result : Result \cup {"none"}]
RtcMemory == [magic : BOOLEAN, run_id : RunId \cup {NoRun}]
LogEntry == [event : {"phase_start", "fault", "phase_end", "run_complete"},
             result : Result \cup {"none"}]

\* Every variable keeps its type.
TypeOK ==
  /\ boot \in 1..MaxBoot /\ run_counter \in 0..MaxRun
  /\ run \in RunRecord
  /\ httpd \in {"idle", "create", "create_failed"}
  /\ task \in [Worker -> TaskRecord]
  /\ marker \in RtcMemory
  /\ previous \in RunId \cup {NoRun}
  /\ reset_reason \in HardReason \cup {"software"}
  /\ log \in [RunId -> Seq(LogEntry)]
  /\ ack \in [RunId -> {"none", "early", "late"}]
  /\ outcome \in [RunId -> Result \cup {"none"}]

\* A workload task only ever executes, reports and finishes the run it was
\* created for: workload_task copies current_run after runs_post released the
\* lock and db_run_finish takes no run id, so this needs that no second run
\* begins and no second task is active before the first one has finished.
OwnRun ==
  \A w \in Worker : task[w].pc \in Active =>
    /\ run.state \in {"running", "aborting"}
    /\ task[w].pc # "start" => task[w].id = run.id /\ task[w].workload = run.workload
    /\ \A v \in Worker \ {w} : task[v].pc \notin Active
    /\ outcome[run.id] = "none"

\* A run ends "aborted" exactly when an abort of that run was acknowledged
\* before its task decided the result; the flag an older run left behind never
\* reaches a newer one.
AbortHonoured ==
  \A id \in RunId : outcome[id] # "none" =>
    (outcome[id] = "aborted" <=> ack[id] = "early")

\* previous_reboot_run_id names a run only right after a restart the firmware
\* asked for, and then a CONTROLLED_REBOOT run of the boot before that finished
\* and reported run_complete.
PreviousRunTruthful ==
  previous # NoRun =>
    /\ reset_reason = "software"
    /\ previous[1] = boot - 1
    /\ outcome[previous] # "none"
    /\ log[previous] # <<>> /\ log[previous][Len(log[previous])].event = "run_complete"

\* current_run only moves idle/complete -> running -> aborting -> complete, it
\* keeps its id until a new run begins, and a recorded result never changes,
\* although db_run_finish itself checks nothing.
RunStateOrder ==
  [][boot' = boot =>
       /\ run'.id # run.id <=>
            run.state \in {"idle", "complete"} /\ run'.state = "running"
       /\ run'.id = run.id => <<run.state, run'.state>> \in
            {<<"running", "aborting">>, <<"running", "complete">>,
             <<"aborting", "complete">>}]_run

\* A result once recorded for a run id is final, also across boots.
OutcomeFinal ==
  [][\A id \in RunId : outcome[id] # "none" => outcome'[id] = outcome[id]]_outcome

\* Every run that begins is finished, or the device resets, or the run waits
\* for a peer in a network workload; a task that cannot be created, and an
\* abort at any moment, never leave the engine refusing all later runs.
RunTerminates ==
  \A id \in RunId : (run.id = id) ~>
    (outcome[id] # "none" \/ boot > id[1] \/ run.workload \in NetLoad)

Runs == INSTANCE RunService
  WITH current <- [id |-> run.id, state |-> run.state, result |-> run.result]

\* The engine implements the service its clients rely on: while one task works
\* on current_run and another still reports for an older run, no client sees a
\* run end before its phase_end or its run_complete before it has ended.
RunsKept == Runs!ServiceSpec

-----------------------------------------------------------------------------
(* The strengthening that makes the safety properties inductive.           *)

Busy == run.state \in {"running", "aborting"}
Begun(id) == id[1] < boot \/ (id[1] = boot /\ id[2] <= run_counter)

\* current_run is the latest run of this boot, or no run has begun yet, and
\* its abort flag says whether an abort of it was acknowledged.
CurrentRun ==
  /\ \/ run.id = NoRun /\ run.state = "idle" /\ run_counter = 0
     \/ run.id = <<boot, run_counter>> /\ run.state # "idle" /\ run_counter > 0
  /\ Busy => /\ outcome[run.id] = "none"
             /\ run.abort_requested <=> run.state = "aborting"
             /\ run.abort_requested <=> ack[run.id] # "none"

\* While runs_post creates the task nobody else works on the run.
Creating == httpd # "idle" =>
  run.state = "running" /\ \A w \in Worker : task[w].pc \notin Active

\* Nothing is recorded for a run that has not begun.
Untouched == \A id \in RunId : ~Begun(id) =>
  ack[id] = "none" /\ outcome[id] = "none"

\* The result a task decided agrees with the abort acknowledged before.
VerdictAgrees == \A w \in Worker :
  /\ task[w].pc \in BeforeVerdict => ack[run.id] # "late"
  /\ task[w].pc \in AfterVerdict =>
       task[w].result # "none" /\ (task[w].result = "aborted" <=> ack[run.id] = "early")

RunInv == /\ OwnRun /\ AbortHonoured
          /\ CurrentRun /\ Creating /\ Untouched /\ VerdictAgrees

\* What a task has reported of its run is what its program counter says, and
\* only a run whose body did not fail is decided "pass".
Reported(t) ==
  /\ t.pc = "start" => log[run.id] = <<>>
  /\ t.pc = "phase_start" => log[t.id] = <<>>
  /\ t.pc \in {"body", "verdict", "fault_check", "fault"} =>
       Runs!Last(t.id) = Entry("phase_start", "none")
  /\ t.pc = "fault" => t.result = "fail"
  /\ t.pc = "phase_end" =>
       \/ Runs!Last(t.id) = Entry("phase_start", "none")
       \/ Runs!Last(t.id) = Entry("fault", "fail") /\ t.result = "fail"
  /\ t.pc \in {"finish", "run_complete"} =>
       Runs!Last(t.id) = Entry("phase_end", t.result)
  /\ t.pc \in Tail_ \ {"run_complete"} =>
       Runs!Last(t.id) = Entry("run_complete", t.result)
  /\ t.pc \in AfterVerdict /\ t.result = "pass" => t.ok

\* A task that outlives its run has a finished run of this boot to itself.
Outlives(w) == task[w].pc \in Tail_ =>
  /\ task[w].id \in RunId /\ task[w].id[1] = boot
  /\ outcome[task[w].id] # "none"
  /\ \A v \in Worker \ {w} : task[v].pc \in Tail_ => task[v].id # task[w].id

\* A run reports nothing before its task has copied it.
Unreported ==
  /\ \A id \in RunId : ~Begun(id) => log[id] = <<>>
  /\ httpd # "idle" => log[run.id] = <<>>

\* The run id in the marker a restart leaves, and the one the next boot reads.
Completed(id) ==
  id \in RunId /\ outcome[id] # "none" /\ Runs!Last(id).event = "run_complete"
MarkerTrue == (\E w \in Worker : task[w].pc = "restart") =>
  Completed(marker.run_id) /\ marker.run_id[1] = boot
PreviousTrue == previous # NoRun =>
  reset_reason = "software" /\ previous[1] = boot - 1 /\ Completed(previous)

LogInv == /\ \A w \in Worker : Reported(task[w]) /\ Outlives(w)
          /\ Unreported /\ MarkerTrue /\ PreviousTrue

-----------------------------------------------------------------------------
(* Statements of the repository's documents and tests that the code breaks. *)

\* tests/test_contract.py, test_failures_emit_fault_before_phase_end: a phase
\* that ends with result "fail" reported a fault before.
FailureReportsFault ==
  \A id \in RunId : \A i \in DOMAIN log[id] :
    log[id][i] = Entry("phase_end", "fail") =>
      \E j \in 1..(i - 1) : log[id][j].event = "fault"

\* protocol/openapi.yaml, "Request cooperative abort": a run that reports
\* result "aborted" does not go on to perform its controlled reboot.
AbortedRunNeverReboots ==
  \A w \in Worker : task[w].pc = "restart" => outcome[task[w].id] # "aborted"
=============================================================================
