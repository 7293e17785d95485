------------------------- MODULE RunLifecycleProofs -------------------------
(***************************************************************************)
(* Proofs, for any number of tasks, runs and boots, that the run engine    *)
(* keeps its types, that a task works on its own run only, that results    *)
(* agree with acknowledged aborts and are final.                           *)
(***************************************************************************)
EXTENDS RunLifecycle, TLAPS

PC == Active \cup Tail_ \cup {"free"}

-----------------------------------------------------------------------------
(* Type correctness.                                                       *)

\* Appending a well formed entry keeps every run's log a sequence of entries.
LEMMA EmitType ==
  ASSUME TypeOK, NEW w \in Worker, NEW e, NEW r, Entry(e, r) \in LogEntry,
         Emit(w, e, r)
  PROVE  log' \in [RunId -> Seq(LogEntry)]
<1>1. log \in [RunId -> Seq(LogEntry)]
  BY DEF TypeOK
<1>2. \A id \in RunId : Append(log[id], Entry(e, r)) \in Seq(LogEntry)
  BY <1>1
<1> QED
  BY <1>1, <1>2 DEF Emit

\* Moving a task's program counter keeps the task table well typed.
LEMMA StepType ==
  ASSUME TypeOK, NEW w \in Worker, NEW from, NEW to \in PC, Step(w, from, to)
  PROVE  task' \in [Worker -> TaskRecord]
<1>1. task[w] \in TaskRecord
  BY DEF TypeOK
<1>2. [task[w] EXCEPT !.pc = to] \in TaskRecord
  BY <1>1 DEF TaskRecord, PC
<1> QED
  BY <1>2 DEF Step, TypeOK

\* So does replacing one task's record.
LEMMA TaskType ==
  ASSUME TypeOK, NEW w \in Worker, NEW t \in TaskRecord,
         task' = [task EXCEPT ![w] = t]
  PROVE  task' \in [Worker -> TaskRecord]
BY DEF TypeOK

\* The initial state, which app_main sets up, has its types.
LEMMA InitType == Init => TypeOK
<1> SUFFICES ASSUME Init PROVE TypeOK
  OBVIOUS
<1>1. IdleRun \in RunRecord
  BY DEF IdleRun, RunRecord
<1>2. FreeTask \in TaskRecord
  BY DEF FreeTask, TaskRecord
<1>3. log \in [RunId -> Seq(LogEntry)]
  BY DEF Init
<1>4. marker \in RtcMemory
  BY DEF Init, RtcMemory
<1> QED
  BY <1>1, <1>2, <1>3, <1>4, BoundAssumption DEF Init, TypeOK, HardReason

\* A boot on any RTC memory leaves a well typed state.
LEMMA AppMainType ==
  ASSUME TypeOK, NEW reason \in HardReason \cup {"software"},
         NEW rtc \in RtcMemory, AppMain(reason, rtc)
  PROVE  TypeOK'
<1>1. previous' \in RunId \cup {NoRun} /\ marker' \in RtcMemory
  BY DEF AppMain, RtcMemory
<1>2. IdleRun \in RunRecord
  BY DEF IdleRun, RunRecord
<1>3. FreeTask \in TaskRecord
  BY DEF FreeTask, TaskRecord
<1>4. boot' \in 1..MaxBoot /\ run_counter' \in 0..MaxRun
  BY BoundAssumption DEF AppMain, TypeOK
<1> QED
  BY <1>1, <1>2, <1>3, <1>4 DEF AppMain, TypeOK, history

\* Every step of a workload task keeps the types.
LEMMA TaskStepType ==
  ASSUME TypeOK, NEW w \in Worker, TaskStep(w)
  PROVE  TypeOK'
<1> USE DEF history, rebooting
<1> DEFINE t == task[w]
<1>t. t \in TaskRecord /\ run \in RunRecord
  BY DEF TypeOK
<1>pc. /\ \A p \in Active \cup Tail_ : p \in PC
       /\ Active \cup Tail_ = {"start", "phase_start", "body", "verdict",
            "fault_check", "fault", "phase_end", "finish", "run_complete",
            "reboot_check", "marker_magic", "marker_id", "restart"}
  BY DEF PC, Active, Tail_, BeforeVerdict, AfterVerdict
<1>1. CASE CopyRun(w)
  <2>1. [t EXCEPT !.pc = "phase_start", !.id = run.id, !.workload = run.workload]
          \in TaskRecord
    BY <1>t, <1>pc DEF TaskRecord, RunRecord
  <2> QED
    BY <1>1, <2>1, TaskType DEF CopyRun, TypeOK
<1>2. CASE PhaseStart(w)
  <2>1. Entry("phase_start", "none") \in LogEntry
    BY DEF Entry, LogEntry
  <2> QED
    BY <1>2, <1>pc, <2>1, EmitType, StepType DEF PhaseStart, TypeOK
<1>3. ASSUME NEW ok \in BOOLEAN, BodyEnds(w, ok) PROVE TypeOK'
  <2>1. [t EXCEPT !.pc = "verdict", !.ok = ok] \in TaskRecord
    BY <1>t, <1>pc DEF TaskRecord
  <2> QED
    BY <1>3, <2>1, TaskType DEF BodyEnds, TypeOK
<1>4. CASE BodyDeadline(w) \/ BodyAborted(w) \/ BodyFailed(w)
  <2>1. (task[w].workload \in WaitLoad \/ ~should_abort) \in BOOLEAN
    OBVIOUS
  <2> QED
    BY <1>3, <1>4, <2>1 DEF BodyDeadline, BodyAborted, BodyFailed
<1>5. CASE Verdict(w)
  <2> DEFINE r == IF should_abort THEN "aborted" ELSE IF t.ok THEN "pass" ELSE "fail"
  <2>1. r \in Result
    BY Zenon DEF Result
  <2>2. [t EXCEPT !.pc = "fault_check", !.result = r] \in TaskRecord
    BY <1>t, <1>pc, <2>1 DEF TaskRecord
  <2>3. task' = [task EXCEPT ![w] = [t EXCEPT !.pc = "fault_check", !.result = r]]
    BY <1>5 DEF Verdict
  <2> QED
    BY <1>5, <2>2, <2>3, TaskType DEF Verdict, TypeOK
<1>6. CASE FaultCheck(w)
  <2>1. PICK to \in PC : Step(w, "fault_check", to)
    BY <1>6, <1>pc DEF FaultCheck
  <2> QED
    BY <1>6, <2>1, StepType DEF FaultCheck, TypeOK
<1>7. CASE Fault(w)
  <2>1. Entry("fault", "fail") \in LogEntry
    BY DEF Entry, LogEntry, Result
  <2> QED
    BY <1>7, <1>pc, <2>1, EmitType, StepType DEF Fault, TypeOK
<1>8. CASE PhaseEnd(w)
  <2>1. Entry("phase_end", t.result) \in LogEntry
    BY <1>t DEF Entry, LogEntry, TaskRecord
  <2> QED
    BY <1>8, <1>pc, <2>1, EmitType, StepType DEF PhaseEnd, TypeOK
<1>9. CASE Finish(w)
  <2>1. t.result \in Result \cup {"none"}
    BY <1>t DEF TaskRecord
  <2>2. run' \in RunRecord
    BY <1>9, <1>t, <2>1 DEF Finish, db_run_finish, RunRecord
  <2> QED
    BY <1>9, <1>pc, <2>1, <2>2, StepType DEF Finish, TypeOK
<1>10. CASE RunComplete(w)
  <2>1. Entry("run_complete", t.result) \in LogEntry
    BY <1>t DEF Entry, LogEntry, TaskRecord
  <2> QED
    BY <1>10, <1>pc, <2>1, EmitType, StepType DEF RunComplete, TypeOK
<1>11. CASE RebootCheck(w)
  <2>1. [t EXCEPT !.pc = "marker_magic"] \in TaskRecord
    BY <1>t, <1>pc DEF TaskRecord
  <2>2. FreeTask \in TaskRecord
    BY DEF FreeTask, TaskRecord
  <2>3. PICK u \in TaskRecord : task' = [task EXCEPT ![w] = u]
    BY <1>11, <2>1, <2>2 DEF RebootCheck
  <2> QED
    BY <1>11, <2>3, TaskType DEF RebootCheck, TypeOK
<1>12. CASE MarkerMagic(w)
  <2>1. marker' \in RtcMemory
    BY <1>12 DEF MarkerMagic, TypeOK, RtcMemory
  <2> QED
    BY <1>12, <1>pc, <2>1, StepType DEF MarkerMagic, TypeOK
<1>13. CASE MarkerId(w)
  <2>1. marker' \in RtcMemory
    BY <1>13, <1>t DEF MarkerId, TypeOK, RtcMemory, TaskRecord
  <2> QED
    BY <1>13, <1>pc, <2>1, StepType DEF MarkerId, TypeOK
<1>14. CASE Restart(w)
  BY <1>14, AppMainType DEF Restart, TypeOK
<1> QED
  BY <1>1, <1>2, <1>4, <1>5, <1>6, <1>7, <1>8, <1>9, <1>10, <1>11, <1>12,
     <1>13, <1>14 DEF TaskStep

\* Every step keeps the types.
LEMMA NextType == TypeOK /\ [Next]_vars => TypeOK'
<1> SUFFICES ASSUME TypeOK, [Next]_vars PROVE TypeOK'
  OBVIOUS
<1>1. CASE \E w \in Worker : TaskStep(w)
  BY <1>1, TaskStepType
<1>2. ASSUME NEW wl \in Workload, RunsPost(wl) PROVE TypeOK'
  <2>1. run_counter' \in 0..MaxRun /\ <<boot, run_counter + 1>> \in RunId
    BY <1>2, BoundAssumption DEF RunsPost, TypeOK, RunId
  <2>2. run' \in RunRecord
    BY <1>2, <2>1 DEF RunsPost, db_run_begin, RunRecord
  <2> QED
    BY <1>2, <2>1, <2>2 DEF RunsPost, TypeOK, rebooting, history
<1>3. CASE HttpStep
  <2>1. ASSUME NEW w \in Worker, TaskCreated(w) PROVE TypeOK'
    <3>1. NewTask \in TaskRecord
      BY DEF NewTask, FreeTask, TaskRecord, Active, BeforeVerdict
    <3> QED
      BY <2>1, <3>1, TaskType DEF TaskCreated, TypeOK, rebooting, history
  <2>2. CASE TaskCreationFailed
    BY <2>2 DEF TaskCreationFailed, TypeOK, rebooting, history
  <2>3. CASE FinishUncreated
    <3>1. run' \in RunRecord
      BY <2>3 DEF FinishUncreated, db_run_finish, TypeOK, RunRecord, Result
    <3> QED
      BY <2>3, <3>1 DEF FinishUncreated, TypeOK, rebooting, Result
  <2> QED
    BY <1>3, <2>1, <2>2, <2>3 DEF HttpStep
<1>4. ASSUME NEW id \in RunId, AbortPost(id) PROVE TypeOK'
  <2>1. run' \in RunRecord
    BY <1>4 DEF AbortPost, db_run_abort, TypeOK, RunRecord
  <2> QED
    BY <1>4, <2>1 DEF AbortPost, TypeOK, rebooting
<1>5. ASSUME NEW reason \in HardReason, HardReset(reason) PROVE TypeOK'
  <2>1. PICK magic \in BOOLEAN \cup {marker.magic} :
          AppMain(reason, [magic |-> magic, run_id |-> marker.run_id])
    BY <1>5 DEF HardReset
  <2>2. [magic |-> magic, run_id |-> marker.run_id] \in RtcMemory
    BY DEF TypeOK, RtcMemory
  <2> QED
    BY <2>1, <2>2, AppMainType
<1>6. CASE UNCHANGED vars
  BY <1>6 DEF vars, TypeOK
<1> QED
  BY <1>1, <1>2, <1>3, <1>4, <1>5, <1>6 DEF Next

\* Every variable of the run engine keeps its type in every behaviour.
THEOREM TypeCorrect == Spec => []TypeOK
<1> QED
  BY InitType, NextType, PTL DEF Spec

-----------------------------------------------------------------------------
(* The inductive invariant.                                                *)

\* What a step of a task's program counter does to the task table.
LEMMA StepEffect ==
  ASSUME TypeOK, NEW w \in Worker, NEW from, NEW to, Step(w, from, to)
  PROVE  /\ task[w].pc = from
         /\ task'[w].pc = to
         /\ task'[w].id = task[w].id /\ task'[w].workload = task[w].workload
         /\ task'[w].ok = task[w].ok /\ task'[w].result = task[w].result
         /\ \A v \in Worker \ {w} : task'[v] = task[v]
<1>1. task[w] \in TaskRecord /\ w \in DOMAIN task
  BY DEF TypeOK
<1>2. task' = [task EXCEPT ![w] = [task[w] EXCEPT !.pc = to]]
  BY DEF Step
<1>3. task'[w] = [task[w] EXCEPT !.pc = to]
  BY <1>1, <1>2
<1>4. \A v \in Worker \ {w} : task'[v] = task[v]
  BY <1>2, TypeOK DEF TypeOK
<1> QED
  BY <1>1, <1>3, <1>4 DEF Step, TaskRecord

\* A task that records no result and changes no run keeps the invariant when
\* it stays with its run and with a result that agrees with the aborts.
LEMMA QuietStep ==
  ASSUME RunInv, NEW w \in Worker,
         UNCHANGED <<boot, run_counter, run, httpd, ack, outcome>>,
         \A v \in Worker \ {w} : task'[v] = task[v],
         task'[w].pc \in Active =>
           /\ task[w].pc \in Active
           /\ task'[w].pc # "start" =>
                task'[w].id = run.id /\ task'[w].workload = run.workload,
         task'[w].pc \in BeforeVerdict => task[w].pc \in BeforeVerdict,
         task'[w].pc \in AfterVerdict =>
           /\ task'[w].result # "none"
           /\ task'[w].result = "aborted" <=> ack[run.id] = "early"
  PROVE  RunInv'
<1>1. OwnRun'
  BY DEF RunInv, OwnRun
<1>2. AbortHonoured'
  BY DEF RunInv, AbortHonoured
<1>3. CurrentRun'
  BY DEF RunInv, CurrentRun, Busy
<1>4. Creating'
  BY DEF RunInv, Creating
<1>5. Untouched'
  BY DEF RunInv, Untouched, Begun
<1>6. VerdictAgrees'
  BY DEF RunInv, VerdictAgrees
<1> QED
  BY <1>1, <1>2, <1>3, <1>4, <1>5, <1>6 DEF RunInv

\* A boot begins without runs and without tasks.
LEMMA AppMainInv ==
  ASSUME TypeOK, RunInv, NEW reason, NEW rtc, AppMain(reason, rtc)
  PROVE  RunInv'
<1> USE DEF AppMain, RunInv, history
<1>1. \A w \in Worker : task'[w].pc = "free"
  BY DEF FreeTask
<1>2. run'.id = NoRun /\ run'.state = "idle"
  BY DEF IdleRun
<1>3. OwnRun' /\ Creating' /\ VerdictAgrees'
  BY <1>1 DEF OwnRun, Creating, VerdictAgrees, Active, BeforeVerdict, AfterVerdict
<1>4. CurrentRun'
  BY <1>2 DEF CurrentRun, Busy
<1>5. AbortHonoured'
  BY DEF AbortHonoured
<1>6. ASSUME NEW id \in RunId, Begun(id) PROVE Begun(id)'
  <2>1. id[1] \in Nat /\ boot \in Nat
    BY DEF TypeOK, RunId
  <2>2. id[1] <= boot /\ boot' = boot + 1
    BY <1>6, <2>1 DEF Begun
  <2> QED
    BY <2>1, <2>2 DEF Begun
<1>7. Untouched'
  BY <1>6 DEF Untouched
<1> QED
  BY <1>3, <1>4, <1>5, <1>7

\* The run a task works on is one that has begun.
LEMMA BusyRun ==
  ASSUME TypeOK, CurrentRun, Busy
  PROVE  run.id \in RunId /\ Begun(run.id)
<1>1. run.id = <<boot, run_counter>> /\ run_counter > 0
  BY DEF CurrentRun, Busy
<1>2. <<boot, run_counter>> \in RunId
  BY <1>1 DEF TypeOK, RunId
<1>3. Begun(<<boot, run_counter>>)
  BY DEF Begun, TypeOK
<1> QED
  BY <1>1, <1>2, <1>3

\* The steps of a workload task keep the invariant.
LEMMA TaskStepInv ==
  ASSUME TypeOK, RunInv, NEW w \in Worker, TaskStep(w)
  PROVE  RunInv'
<1> USE DEF rebooting, history
<1> DEFINE t == task[w]
<1>t. t \in TaskRecord /\ w \in DOMAIN task
  BY DEF TypeOK
<1>pc. /\ BeforeVerdict = {"start", "phase_start", "body", "verdict"}
       /\ AfterVerdict = {"fault_check", "fault", "phase_end", "finish"}
       /\ Active = BeforeVerdict \cup AfterVerdict
  BY DEF Active, BeforeVerdict, AfterVerdict
<1>own. t.pc \in Active \ {"start"} => t.id = run.id /\ t.workload = run.workload
  BY DEF RunInv, OwnRun
<1>agree. t.pc \in AfterVerdict =>
            t.result # "none" /\ (t.result = "aborted" <=> ack[run.id] = "early")
  BY DEF RunInv, VerdictAgrees
<1>1. CASE CopyRun(w)
  <2>1. task'[w] = [t EXCEPT !.pc = "phase_start", !.id = run.id,
                             !.workload = run.workload]
        /\ \A v \in Worker \ {w} : task'[v] = task[v]
    BY <1>1, <1>t DEF CopyRun, TypeOK
  <2>2. /\ task'[w].pc = "phase_start"
        /\ task'[w].id = run.id /\ task'[w].workload = run.workload
    BY <2>1, <1>t DEF TaskRecord
  <2>3. t.pc = "start" /\ UNCHANGED <<boot, run_counter, run, httpd, ack, outcome>>
    BY <1>1 DEF CopyRun
  <2> QED
    BY <1>pc, <2>1, <2>2, <2>3, QuietStep
<1>2. CASE PhaseStart(w)
  <2>1. t.pc = "phase_start" /\ task'[w].pc = "body" /\ task'[w].id = t.id
        /\ task'[w].workload = t.workload
        /\ \A v \in Worker \ {w} : task'[v] = task[v]
    BY <1>2, StepEffect DEF PhaseStart
  <2>2. UNCHANGED <<boot, run_counter, run, httpd, ack, outcome>>
    BY <1>2 DEF PhaseStart
  <2> QED
    BY <1>pc, <1>own, <2>1, <2>2, QuietStep
<1>3. ASSUME NEW ok, BodyEnds(w, ok) PROVE RunInv'
  <2>1. task'[w] = [t EXCEPT !.pc = "verdict", !.ok = ok]
        /\ \A v \in Worker \ {w} : task'[v] = task[v]
    BY <1>3, <1>t DEF BodyEnds, TypeOK
  <2>2. task'[w].pc = "verdict" /\ task'[w].id = t.id /\ task'[w].workload = t.workload
    BY <2>1, <1>t DEF TaskRecord
  <2>3. t.pc = "body" /\ UNCHANGED <<boot, run_counter, run, httpd, ack, outcome>>
    BY <1>3 DEF BodyEnds
  <2> QED
    BY <1>pc, <1>own, <2>1, <2>2, <2>3, QuietStep
<1>4. CASE BodyDeadline(w) \/ BodyAborted(w) \/ BodyFailed(w)
  BY <1>3, <1>4 DEF BodyDeadline, BodyAborted, BodyFailed
<1>5. CASE Verdict(w)
  <2> DEFINE r == IF should_abort THEN "aborted" ELSE IF t.ok THEN "pass" ELSE "fail"
  <2>1. task'[w] = [t EXCEPT !.pc = "fault_check", !.result = r]
        /\ \A v \in Worker \ {w} : task'[v] = task[v]
    BY <1>5, <1>t DEF Verdict, TypeOK
  <2>2. /\ task'[w].pc = "fault_check" /\ task'[w].result = r
        /\ task'[w].id = t.id /\ task'[w].workload = t.workload
    BY <2>1, <1>t DEF TaskRecord
  <2>3. t.pc = "verdict" /\ Busy /\ run.id \in RunId
    BY <1>5, <1>pc, BusyRun DEF Verdict, RunInv, OwnRun, Busy
  <2>4. ack[run.id] # "late" /\ (should_abort <=> ack[run.id] # "none")
    BY <2>3, <1>pc DEF RunInv, VerdictAgrees, CurrentRun, should_abort
  <2>5. ack[run.id] \in {"none", "early", "late"}
    BY <2>3 DEF TypeOK
  <2>6. r # "none" /\ (r = "aborted" <=> should_abort)
    BY Zenon
  <2>7. r = "aborted" <=> ack[run.id] = "early"
    BY <2>4, <2>5, <2>6
  <2> HIDE DEF r
  <2> QED
    BY <1>5, <1>pc, <1>own, <2>1, <2>2, <2>3, <2>6, <2>7, QuietStep DEF Verdict
<1>6. CASE FaultCheck(w)
  <2>1. PICK to \in {"fault", "phase_end"} : Step(w, "fault_check", to)
    BY <1>6 DEF FaultCheck
  <2>2. /\ t.pc = "fault_check" /\ task'[w].pc = to /\ task'[w].id = t.id
        /\ task'[w].workload = t.workload /\ task'[w].result = t.result
        /\ \A v \in Worker \ {w} : task'[v] = task[v]
    BY <2>1, StepEffect
  <2> QED
    BY <1>6, <1>pc, <1>own, <1>agree, <2>1, <2>2, QuietStep DEF FaultCheck
<1>7. CASE Fault(w)
  BY <1>7, <1>pc, <1>own, <1>agree, StepEffect, QuietStep DEF Fault
<1>8. CASE PhaseEnd(w)
  BY <1>8, <1>pc, <1>own, <1>agree, StepEffect, QuietStep DEF PhaseEnd
<1>9. CASE Finish(w)
  <2>1. t.pc = "finish" /\ task'[w].pc = "run_complete"
        /\ \A v \in Worker \ {w} : task'[v] = task[v]
    BY <1>9, StepEffect DEF Finish
  <2>2. \A v \in Worker : task'[v].pc \notin Active
    BY <2>1, <1>pc DEF RunInv, OwnRun
  <2>3. run'.state = "complete" /\ run'.id = run.id
    BY <1>9 DEF Finish, db_run_finish, TypeOK, RunRecord
  <2>4. OwnRun' /\ Creating' /\ VerdictAgrees'
    <3>1. httpd' = "idle"
      BY <1>9, <2>1, <1>pc DEF Finish, RunInv, Creating
    <3> QED
      BY <2>2, <3>1, <1>pc DEF OwnRun, Creating, VerdictAgrees
  <2>5. CurrentRun'
    BY <1>9, <2>1, <2>3, <1>pc DEF Finish, RunInv, OwnRun, CurrentRun, Busy
  <2>6. AbortHonoured'
    BY <1>9, <1>pc, <1>agree, <2>1 DEF Finish, RunInv, AbortHonoured, TypeOK
  <2>7. Untouched'
    <3>1. Busy
      BY <2>1, <1>pc DEF RunInv, OwnRun, Busy
    <3>2. Begun(run.id)
      BY <3>1, BusyRun DEF RunInv
    <3>3. \A id \in RunId : id # run.id => outcome'[id] = outcome[id]
      BY <1>9 DEF Finish, TypeOK
    <3>4. UNCHANGED <<boot, run_counter, ack>>
      BY <1>9 DEF Finish
    <3> QED
      BY <3>2, <3>3, <3>4 DEF RunInv, Untouched, Begun
  <2> QED
    BY <2>4, <2>5, <2>6, <2>7 DEF RunInv
<1>10. CASE RunComplete(w)
  BY <1>10, <1>pc, StepEffect, QuietStep DEF RunComplete
<1>11. CASE RebootCheck(w)
  <2>1. task'[w].pc \in {"marker_magic", "free"}
        /\ \A v \in Worker \ {w} : task'[v] = task[v]
    BY <1>11, <1>t DEF RebootCheck, TypeOK, TaskRecord, FreeTask
  <2> QED
    BY <1>11, <1>pc, <2>1, QuietStep DEF RebootCheck
<1>12. CASE MarkerMagic(w)
  BY <1>12, <1>pc, StepEffect, QuietStep DEF MarkerMagic
<1>13. CASE MarkerId(w)
  BY <1>13, <1>pc, StepEffect, QuietStep DEF MarkerId
<1>14. CASE Restart(w)
  BY <1>14, AppMainInv DEF Restart
<1> QED
  BY <1>1, <1>2, <1>4, <1>5, <1>6, <1>7, <1>8, <1>9, <1>10, <1>11, <1>12,
     <1>13, <1>14 DEF TaskStep

\* The HTTP handlers and unexpected resets keep the invariant.
LEMMA NextInv == TypeOK /\ RunInv /\ [Next]_vars => RunInv'
<1> SUFFICES ASSUME TypeOK, RunInv, [Next]_vars PROVE RunInv'
  OBVIOUS
<1> USE DEF rebooting, history
<1>1. CASE \E w \in Worker : TaskStep(w)
  BY <1>1, TaskStepInv
<1>2. ASSUME NEW wl \in Workload, RunsPost(wl) PROVE RunInv'
  <2> DEFINE new == <<boot, run_counter + 1>>
  <2>1. /\ run'.id = new /\ run'.state = "running" /\ ~run'.abort_requested
        /\ ~Busy /\ Busy'
    BY <1>2 DEF RunsPost, MayBegin, db_run_begin, Busy
  <2>2. new \in RunId /\ ~Begun(new)
    <3>1. run_counter < MaxRun /\ run_counter \in Nat /\ boot \in 1..MaxBoot
      BY <1>2, BoundAssumption DEF RunsPost, TypeOK
    <3>2. run_counter + 1 \in 1..MaxRun
      BY <3>1, BoundAssumption
    <3>3. new[1] = boot /\ new[2] = run_counter + 1
      OBVIOUS
    <3> QED
      BY <3>1, <3>2, <3>3 DEF RunId, Begun
  <2>3. outcome[new] = "none" /\ ack[new] = "none"
    BY <2>2 DEF RunInv, Untouched
  <2>4. \A w \in Worker : task'[w].pc \notin Active /\ task'[w] = task[w]
    BY <1>2, <2>1 DEF RunsPost, RunInv, OwnRun, Busy
  <2>5. /\ boot' = boot /\ run_counter' = run_counter + 1
        /\ httpd' = "create" /\ UNCHANGED <<ack, outcome>>
    BY <1>2 DEF RunsPost
  <2>6. OwnRun' /\ Creating' /\ VerdictAgrees'
    BY <2>1, <2>4 DEF OwnRun, Creating, VerdictAgrees, Active
  <2>7. CurrentRun'
    <3>1. run_counter' > 0
      BY <2>5 DEF TypeOK
    <3> QED
      BY <2>1, <2>3, <2>5, <3>1 DEF CurrentRun
  <2>8. AbortHonoured'
    BY <2>5 DEF RunInv, AbortHonoured
  <2>9. ASSUME NEW id \in RunId, Begun(id) PROVE Begun(id)'
    BY <2>5, <2>9 DEF Begun, TypeOK, RunId
  <2>10. Untouched'
    BY <2>5, <2>9 DEF RunInv, Untouched
  <2> QED
    BY <2>6, <2>7, <2>8, <2>10 DEF RunInv
<1>3. CASE HttpStep
  <2>1. ASSUME NEW w \in Worker, TaskCreated(w) PROVE RunInv'
    <3>1. /\ httpd = "create" /\ httpd' = "idle"
          /\ UNCHANGED <<boot, run_counter, run, ack, outcome>>
      BY <2>1 DEF TaskCreated
    <3>2. /\ task'[w].pc = "start"
          /\ \A v \in Worker \ {w} : task'[v] = task[v]
      BY <2>1 DEF TaskCreated, TypeOK, NewTask, FreeTask
    <3>3. /\ run.state = "running"
          /\ \A v \in Worker \ {w} : task'[v].pc \notin Active
      BY <3>1, <3>2 DEF RunInv, Creating
    <3>4. ack[run.id] = "none" /\ outcome[run.id] = "none"
      BY <3>3 DEF RunInv, CurrentRun, Busy
    <3>5. OwnRun' /\ Creating' /\ VerdictAgrees'
      BY <3>1, <3>2, <3>3, <3>4
      DEF OwnRun, Creating, VerdictAgrees, Active, BeforeVerdict, AfterVerdict
    <3>6. AbortHonoured' /\ CurrentRun' /\ Untouched'
      BY <3>1 DEF RunInv, AbortHonoured, CurrentRun, Busy, Untouched, Begun
    <3> QED
      BY <3>5, <3>6 DEF RunInv
  <2>2. CASE TaskCreationFailed
    BY <2>2 DEF TaskCreationFailed, RunInv, OwnRun, AbortHonoured, CurrentRun,
       Busy, Creating, Untouched, Begun, VerdictAgrees
  <2>3. CASE FinishUncreated
    <3>1. /\ httpd # "idle" /\ httpd' = "idle"
          /\ UNCHANGED <<boot, run_counter, task, ack>>
          /\ outcome' = [outcome EXCEPT ![run.id] = "fail"]
      BY <2>3 DEF FinishUncreated
    <3>2. run.state = "running" /\ Busy /\ \A w \in Worker : task[w].pc \notin Active
      BY <3>1 DEF RunInv, Creating, Busy
    <3>3. /\ ack[run.id] = "none"
          /\ run.id \in RunId /\ Begun(run.id)
      BY <3>2, BusyRun DEF RunInv, CurrentRun
    <3>4. run'.id = run.id /\ run'.state = "complete"
      BY <2>3 DEF FinishUncreated, db_run_finish, TypeOK, RunRecord
    <3>5. OwnRun' /\ Creating' /\ VerdictAgrees'
      BY <3>1, <3>2 DEF OwnRun, Creating, VerdictAgrees, Active
    <3>6. CurrentRun'
      BY <3>1, <3>2, <3>4 DEF RunInv, CurrentRun, Busy
    <3>7. AbortHonoured'
      BY <3>1, <3>3 DEF RunInv, AbortHonoured, TypeOK
    <3>8. \A id \in RunId : id # run.id => outcome'[id] = outcome[id]
      BY <3>1 DEF TypeOK
    <3>9. Untouched'
      BY <3>1, <3>3, <3>8 DEF RunInv, Untouched, Begun
    <3> QED
      BY <3>5, <3>6, <3>7, <3>9 DEF RunInv
  <2> QED
    BY <1>3, <2>1, <2>2, <2>3 DEF HttpStep
<1>4. ASSUME NEW id \in RunId, AbortPost(id) PROVE RunInv'
  <2> DEFINE when == IF \E w \in Worker : task[w].pc \in AfterVerdict
                     THEN "late" ELSE "early"
  <2>1. /\ httpd = "idle" /\ run.state = "running" /\ run.id = id
        /\ UNCHANGED <<boot, run_counter, task, httpd, outcome>>
        /\ ack' = [ack EXCEPT ![id] = when]
    BY <1>4 DEF AbortPost, CanAbort
  <2>2. /\ run'.id = id /\ run'.state = "aborting" /\ run'.abort_requested
        /\ run'.workload = run.workload
    BY <1>4, <2>1 DEF AbortPost, db_run_abort, TypeOK, RunRecord
  <2>3. Busy /\ Busy' /\ Begun(id) /\ outcome[id] = "none" /\ ack[id] = "none"
    BY <2>1, <2>2, BusyRun DEF RunInv, CurrentRun, Busy
  <2>4. ack'[id] = when /\ \A i \in RunId : i # id => ack'[i] = ack[i]
    BY <2>1 DEF TypeOK
  <2>5. when # "none" /\ (when = "late" <=> \E w \in Worker : task[w].pc \in AfterVerdict)
    BY Zenon
  <2>5a. when = "early" <=> ~\E w \in Worker : task[w].pc \in AfterVerdict
    BY Zenon
  <2> HIDE DEF when
  <2>6. OwnRun' /\ Creating'
    BY <2>1, <2>2 DEF RunInv, OwnRun, Creating
  <2>7. CurrentRun'
    BY <2>1, <2>2, <2>3, <2>4, <2>5 DEF RunInv, CurrentRun
  <2>8. AbortHonoured' /\ Untouched'
    BY <2>1, <2>3, <2>4 DEF RunInv, AbortHonoured, Untouched, Begun
  <2>9. VerdictAgrees'
    <3> SUFFICES ASSUME NEW w \in Worker
                 PROVE  /\ task[w].pc \in BeforeVerdict => when # "late"
                        /\ task[w].pc \in AfterVerdict =>
                             /\ task[w].result # "none"
                             /\ task[w].result = "aborted" <=> when = "early"
      BY <2>1, <2>2, <2>4 DEF VerdictAgrees
    <3>1. CASE task[w].pc \in BeforeVerdict
      <4>1. \A v \in Worker : task[v].pc \notin AfterVerdict
        BY <3>1 DEF RunInv, OwnRun, Active, BeforeVerdict, AfterVerdict
      <4> QED
        BY <2>5, <3>1, <4>1 DEF BeforeVerdict, AfterVerdict
    <3>2. CASE task[w].pc \in AfterVerdict
      BY <2>1, <2>3, <2>5a, <3>2
      DEF RunInv, VerdictAgrees, BeforeVerdict, AfterVerdict
    <3> QED
      BY <3>1, <3>2
  <2> QED
    BY <2>6, <2>7, <2>8, <2>9 DEF RunInv
<1>5. ASSUME NEW reason \in HardReason, HardReset(reason) PROVE RunInv'
  BY <1>5, AppMainInv DEF HardReset
<1>6. CASE UNCHANGED vars
  BY <1>6 DEF vars, RunInv, OwnRun, AbortHonoured, CurrentRun, Busy, Creating,
     Untouched, Begun, VerdictAgrees
<1> QED
  BY <1>1, <1>2, <1>3, <1>4, <1>5, <1>6 DEF Next

\* The initial state satisfies the invariant.
LEMMA InitInv == Init => RunInv
<1> SUFFICES ASSUME Init PROVE RunInv
  OBVIOUS
<1>1. \A w \in Worker : task[w].pc = "free"
  BY DEF Init, FreeTask
<1>2. run.id = NoRun /\ run.state = "idle"
  BY DEF Init, IdleRun
<1> QED
  BY <1>1, <1>2 DEF Init, RunInv, OwnRun, AbortHonoured, CurrentRun, Busy,
     Creating, Untouched, VerdictAgrees, Active, BeforeVerdict, AfterVerdict

-----------------------------------------------------------------------------
(* Theorems.                                                               *)

\* The inductive invariant holds in every reachable state.
THEOREM Invariant == Spec => [](TypeOK /\ RunInv)
<1>1. Init => TypeOK /\ RunInv
  BY InitType, InitInv
<1>2. TypeOK /\ RunInv /\ [Next]_vars => (TypeOK /\ RunInv)'
  BY NextType, NextInv
<1> QED
  BY <1>1, <1>2, PTL DEF Spec

\* A task executes, reports and finishes only the run it was created for.
THEOREM TaskKeepsItsRun == Spec => []OwnRun
<1>1. RunInv => OwnRun
  BY DEF RunInv
<1> QED
  BY <1>1, Invariant, PTL

\* A run ends "aborted" exactly when its abort was acknowledged in time.
THEOREM AbortsHonoured == Spec => []AbortHonoured
<1>1. RunInv => AbortHonoured
  BY DEF RunInv
<1> QED
  BY <1>1, Invariant, PTL

-----------------------------------------------------------------------------
(* Action properties.                                                      *)

\* Which steps of a task touch the run or a recorded result.
LEMMA TaskStepEffect ==
  ASSUME NEW w \in Worker, TaskStep(w)
  PROVE  Finish(w) \/ (boot' = boot + 1 /\ UNCHANGED outcome) \/ UNCHANGED <<run, outcome>>
<1> USE DEF rebooting, history
<1>1. CASE CopyRun(w) \/ PhaseStart(w)
  BY <1>1 DEF CopyRun, PhaseStart
<1>2. CASE BodyDeadline(w) \/ BodyAborted(w) \/ BodyFailed(w)
  BY <1>2 DEF BodyDeadline, BodyAborted, BodyFailed, BodyEnds
<1>3. CASE Verdict(w) \/ FaultCheck(w) \/ Fault(w) \/ PhaseEnd(w)
  BY <1>3 DEF Verdict, FaultCheck, Fault, PhaseEnd
<1>4. CASE RunComplete(w) \/ RebootCheck(w)
  BY <1>4 DEF RunComplete, RebootCheck
<1>5. CASE MarkerMagic(w) \/ MarkerId(w)
  BY <1>5 DEF MarkerMagic, MarkerId
<1>6. CASE Restart(w)
  BY <1>6 DEF Restart, AppMain
<1> QED
  BY <1>1, <1>2, <1>3, <1>4, <1>5, <1>6 DEF TaskStep

\* A task finishes a run that is active and has no result yet.
LEMMA FinishEffect ==
  ASSUME TypeOK, RunInv, NEW w \in Worker, Finish(w)
  PROVE  /\ Busy /\ outcome[run.id] = "none"
         /\ run'.id = run.id /\ run'.state = "complete"
         /\ \A id \in RunId : id # run.id => outcome'[id] = outcome[id]
<1>1. task[w].pc = "finish"
  BY DEF Finish, Step
<1>2. Busy
  BY <1>1 DEF RunInv, OwnRun, Active, AfterVerdict, Busy
<1>3. outcome[run.id] = "none"
  BY <1>2 DEF RunInv, CurrentRun
<1>4. run'.id = run.id /\ run'.state = "complete"
  BY DEF Finish, db_run_finish, TypeOK, RunRecord
<1>5. \A id \in RunId : id # run.id => outcome'[id] = outcome[id]
  BY DEF Finish, TypeOK
<1> QED
  BY <1>2, <1>3, <1>4, <1>5

\* So does runs_post when the task could not be created.
LEMMA UncreatedEffect ==
  ASSUME TypeOK, RunInv, FinishUncreated
  PROVE  /\ Busy /\ outcome[run.id] = "none"
         /\ run'.id = run.id /\ run'.state = "complete"
         /\ \A id \in RunId : id # run.id => outcome'[id] = outcome[id]
<1>1. Busy
  BY DEF FinishUncreated, RunInv, Creating, Busy
<1>2. outcome[run.id] = "none"
  BY <1>1 DEF RunInv, CurrentRun
<1>3. run'.id = run.id /\ run'.state = "complete"
  BY DEF FinishUncreated, db_run_finish, TypeOK, RunRecord
<1>4. \A id \in RunId : id # run.id => outcome'[id] = outcome[id]
  BY DEF FinishUncreated, TypeOK
<1> QED
  BY <1>1, <1>2, <1>3, <1>4

\* A result once recorded for a run never changes, not even across boots.
THEOREM ResultsFinal == Spec => OutcomeFinal
<1> DEFINE Kept == \A id \in RunId : outcome[id] # "none" => outcome'[id] = outcome[id]
<1>1. ASSUME TypeOK, RunInv, [Next]_vars PROVE [Kept]_outcome
  <2> USE DEF rebooting, history
  <2>1. ASSUME NEW w \in Worker, TaskStep(w) PROVE Kept \/ UNCHANGED outcome
    <3>1. CASE Finish(w)
      BY <1>1, <3>1, FinishEffect
    <3> QED
      BY <2>1, <3>1, TaskStepEffect
  <2>2. ASSUME NEW wl \in Workload, RunsPost(wl) PROVE UNCHANGED outcome
    BY <2>2 DEF RunsPost
  <2>3. CASE HttpStep
    <3>1. CASE FinishUncreated
      BY <1>1, <3>1, UncreatedEffect
    <3> QED
      BY <2>3, <3>1 DEF HttpStep, TaskCreated, TaskCreationFailed
  <2>4. ASSUME NEW id \in RunId, AbortPost(id) PROVE UNCHANGED outcome
    BY <2>4 DEF AbortPost
  <2>5. ASSUME NEW reason \in HardReason, HardReset(reason) PROVE UNCHANGED outcome
    BY <2>5 DEF HardReset, AppMain
  <2>6. CASE UNCHANGED vars
    BY <2>6 DEF vars
  <2> QED
    BY <1>1, <2>1, <2>2, <2>3, <2>4, <2>5, <2>6 DEF Next
<1> QED
  BY <1>1, Invariant, PTL DEF Spec, OutcomeFinal

\* current_run moves only forward, and only a new run takes its place.
THEOREM RunsMoveForward == Spec => RunStateOrder
<1> DEFINE Order ==
      boot' = boot =>
        /\ run'.id # run.id <=>
             run.state \in {"idle", "complete"} /\ run'.state = "running"
        /\ run'.id = run.id => <<run.state, run'.state>> \in
             {<<"running", "aborting">>, <<"running", "complete">>,
              <<"aborting", "complete">>}
<1>1. ASSUME TypeOK, RunInv, [Next]_vars PROVE [Order]_run
  <2> USE DEF rebooting, history
  <2>0. boot \in Nat
    BY <1>1 DEF TypeOK
  <2>1. ASSUME NEW w \in Worker, TaskStep(w) PROVE Order \/ UNCHANGED run
    <3>1. CASE Finish(w)
      BY <1>1, <3>1, FinishEffect DEF Busy
    <3> QED
      BY <2>0, <2>1, <3>1, TaskStepEffect
  <2>2. ASSUME NEW wl \in Workload, RunsPost(wl) PROVE Order
    <3>1. run'.id = <<boot, run_counter + 1>> /\ run'.state = "running"
      BY <2>2 DEF RunsPost, db_run_begin
    <3>2. run.state \in {"idle", "complete"}
      BY <1>1, <2>2 DEF RunsPost, MayBegin, TypeOK, RunRecord
    <3>3. (run.id = NoRun /\ run_counter = 0) \/ run.id = <<boot, run_counter>>
      BY <1>1 DEF RunInv, CurrentRun
    <3>4. run_counter \in Nat
      BY <1>1 DEF TypeOK
    <3>5. <<boot, run_counter + 1>> # <<boot, run_counter>>
          /\ <<boot, 0 + 1>> # <<0, 0>>
      BY <3>4
    <3> QED
      BY <3>1, <3>2, <3>3, <3>5 DEF NoRun
  <2>3. CASE HttpStep
    <3>1. CASE FinishUncreated
      BY <1>1, <3>1, UncreatedEffect DEF Busy
    <3> QED
      BY <2>3, <3>1 DEF HttpStep, TaskCreated, TaskCreationFailed
  <2>4. ASSUME NEW id \in RunId, AbortPost(id) PROVE Order
    <3>1. run.state = "running" /\ run'.state = "aborting" /\ run'.id = run.id
      BY <1>1, <2>4 DEF AbortPost, CanAbort, db_run_abort, TypeOK, RunRecord
    <3> QED
      BY <3>1
  <2>5. ASSUME NEW reason \in HardReason, HardReset(reason) PROVE Order
    BY <2>0, <2>5 DEF HardReset, AppMain
  <2>6. CASE UNCHANGED vars
    BY <2>6 DEF vars
  <2> QED
    BY <1>1, <2>1, <2>2, <2>3, <2>4, <2>5, <2>6 DEF Next
<1> QED
  BY <1>1, Invariant, PTL DEF Spec, RunStateOrder
=============================================================================
