-------------------------- MODULE RunServiceProofs --------------------------
(***************************************************************************)
(* Proofs, for any number of tasks, runs and boots, that what the run      *)
(* engine reports is what it did: the run id of a controlled reboot is     *)
(* true, and the engine implements RunService.                             *)
(***************************************************************************)
EXTENDS RunLifecycleProofs

-----------------------------------------------------------------------------
(* The log of one run.                                                     *)

\* A report appends one entry to the log of the task's run and to no other.
LEMMA EmitEffect ==
  ASSUME TypeOK, NEW w \in Worker, NEW me \in RunId, me = task[w].id,
         NEW e, NEW r, Emit(w, e, r)
  PROVE  /\ Runs!Last(me)' = Entry(e, r)
         /\ \A id \in RunId : id # me => log'[id] = log[id]
<1>1. log \in [RunId -> Seq(LogEntry)]
  BY DEF TypeOK
<1>2. log' = [log EXCEPT ![me] = Append(@, Entry(e, r))]
  BY DEF Emit
<1>3. log'[me] = Append(log[me], Entry(e, r)) /\ log[me] \in Seq(LogEntry)
  BY <1>1, <1>2
<1>4. log'[me] # <<>> /\ log'[me][Len(log'[me])] = Entry(e, r)
  BY <1>3
<1>5. \A id \in RunId : id # me => log'[id] = log[id]
  BY <1>1, <1>2
<1> QED
  BY <1>4, <1>5 DEF Runs!Last

-----------------------------------------------------------------------------
(* Every step keeps LogInv.                                                *)

\* The program counters of a task that holds the id of its run.
Holding == (Active \ {"start"}) \cup Tail_

\* Such a task's run has begun, and has a result once the task outlives it.
LEMMA HeldRun ==
  ASSUME TypeOK, RunInv, LogInv, NEW w \in Worker, task[w].pc \in Holding
  PROVE  /\ task[w].id \in RunId /\ task[w].id[1] = boot
         /\ task[w].pc \in Active => task[w].id = run.id /\ Busy
         /\ task[w].pc \in Tail_ <=> outcome[task[w].id] # "none"
<1>1. CASE task[w].pc \in Active
  <2>1. Busy /\ task[w].id = run.id /\ outcome[run.id] = "none"
    BY <1>1 DEF RunInv, OwnRun, Busy, Holding, Tail_
  <2>2. run.id \in RunId /\ run.id = <<boot, run_counter>>
    BY <2>1, BusyRun DEF RunInv, CurrentRun, Busy
  <2>3. task[w].pc \notin Tail_
    BY <1>1 DEF Active, BeforeVerdict, AfterVerdict, Tail_
  <2> QED
    BY <1>1, <2>1, <2>2, <2>3
<1>2. CASE task[w].pc \in Tail_
  <2>1. Outlives(w)
    BY DEF LogInv
  <2>2. task[w].pc \notin Active
    BY <1>2 DEF Active, BeforeVerdict, AfterVerdict, Tail_
  <2> QED
    BY <1>2, <2>1, <2>2 DEF Outlives
<1> QED
  BY <1>1, <1>2 DEF Holding

\* No two tasks hold the same run, and none holds one still to be copied.
LEMMA HeldAlone ==
  ASSUME TypeOK, RunInv, LogInv, NEW w \in Worker, NEW v \in Worker \ {w},
         task[w].pc \in Holding
  PROVE  /\ task[v].pc = "start" => run.id # task[w].id
         /\ task[v].pc \in Holding => task[v].id # task[w].id
<1>1. CASE task[v].pc \in Tail_ /\ task[w].pc \in Tail_
  <2>1. Outlives(w) /\ task[v].pc # "start"
    BY <1>1 DEF LogInv, Tail_
  <2> QED
    BY <1>1, <2>1 DEF Outlives
<1>2. CASE task[v].pc = "start"
  <2>1. task[v].pc \in Active
    BY <1>2 DEF Active, BeforeVerdict
  <2>2. task[w].pc \notin Active /\ outcome[run.id] = "none"
    BY <2>1 DEF RunInv, OwnRun
  <2>3. outcome[task[w].id] # "none"
    BY <2>2, HeldRun DEF Holding
  <2> QED
    BY <1>2, <2>2, <2>3 DEF Holding, Tail_
<1>3. CASE task[v].pc \in Holding /\ ~(task[v].pc \in Tail_ /\ task[w].pc \in Tail_)
  <2>1. ~(task[v].pc \in Active /\ task[w].pc \in Active)
    BY DEF RunInv, OwnRun
  <2>2. task[v].pc \in Tail_ <=> task[w].pc \notin Tail_
    BY <1>3, <2>1 DEF Holding
  <2>3. task[v].pc \in Tail_ <=> outcome[task[v].id] # "none"
    BY <1>3, HeldRun
  <2>4. task[w].pc \in Tail_ <=> outcome[task[w].id] # "none"
    BY HeldRun
  <2>5. task[v].pc # "start"
    BY <1>3 DEF Holding, Tail_
  <2> QED
    BY <2>2, <2>3, <2>4, <2>5
<1> QED
  BY <1>1, <1>2, <1>3

\* What the other tasks have reported is not disturbed by what w reports.
LEMMA OthersReported ==
  ASSUME TypeOK, RunInv, LogInv, NEW w \in Worker, NEW v \in Worker \ {w},
         task'[v] = task[v], run'.id = run.id,
         \/ UNCHANGED log
         \/ /\ task[w].pc \in Holding
            /\ \A id \in RunId : id # task[w].id => log'[id] = log[id]
  PROVE  Reported(task[v])'
<1> DEFINE t == task[v]
<1>1. Reported(t)
  BY DEF LogInv
<1>2. ASSUME t.pc = "start" PROVE log'[run.id] = log[run.id]
  <2>1. t.pc \in Active
    BY <1>2 DEF Active, BeforeVerdict
  <2>2. Busy
    BY <2>1 DEF RunInv, OwnRun, Busy
  <2>3. run.id \in RunId
    BY <2>2, BusyRun DEF RunInv
  <2> QED
    BY <1>2, <2>3, HeldAlone
<1>3. ASSUME t.pc \in Holding PROVE log'[t.id] = log[t.id]
  BY <1>3, HeldRun, HeldAlone
<1>pc. /\ Holding = {"phase_start", "body", "verdict", "fault_check", "fault",
            "phase_end", "finish", "run_complete", "reboot_check",
            "marker_magic", "marker_id", "restart"}
       /\ Tail_ \ {"run_complete"} \subseteq Holding
  BY DEF Holding, Active, BeforeVerdict, AfterVerdict, Tail_
<1>4. t.pc \in Holding => Runs!Last(t.id)' = Runs!Last(t.id)
  BY <1>3 DEF Runs!Last, Runs!Entry
<1> QED
  BY <1>1, <1>2, <1>3, <1>4, <1>pc DEF Reported

\* A run that a task holds has begun.
LEMMA HeldBegun ==
  ASSUME TypeOK, RunInv, LogInv, NEW w \in Worker, task[w].pc \in Holding
  PROVE  Begun(task[w].id)
<1>1. CASE task[w].pc \in Active
  BY <1>1, HeldRun, BusyRun DEF RunInv
<1>2. CASE task[w].pc \in Tail_
  <2>1. Runs!Last(task[w].id).event \in {"phase_end", "run_complete"}
    <3>1. \/ Runs!Last(task[w].id) = Entry("phase_end", task[w].result)
          \/ Runs!Last(task[w].id) = Entry("run_complete", task[w].result)
      BY <1>2 DEF LogInv, Reported, Tail_
    <3> QED
      BY <3>1 DEF Entry
  <2>2. log[task[w].id] # <<>>
    BY <2>1 DEF Runs!Last, Runs!Entry
  <2> QED
    BY <2>2, HeldRun DEF LogInv, Unreported
<1> QED
  BY <1>1, <1>2 DEF Holding

\* The reports of a step that the other parts of LogInv can bear: at most the
\* task's own run gets one, and that run has not reported run_complete.
OwnReport(w) ==
  \/ UNCHANGED log
  \/ /\ task[w].pc \in Holding \ (Tail_ \ {"run_complete"})
     /\ \A id \in RunId : id # task[w].id => log'[id] = log[id]

\* A completed run stays completed.
LEMMA CompletedStays ==
  ASSUME TypeOK, RunInv, LogInv, NEW w \in Worker, OwnReport(w),
         \A i \in RunId : outcome[i] # "none" => outcome'[i] # "none",
         NEW id \in RunId, Completed(id)
  PROVE  Completed(id)'
<1>1. ASSUME task[w].pc \in Holding \ (Tail_ \ {"run_complete"}) PROVE id # task[w].id
  <2>1. \/ task[w].pc \in Active
        \/ Runs!Last(task[w].id) = Entry("phase_end", task[w].result)
    BY <1>1 DEF Holding, LogInv, Reported
  <2>2. CASE task[w].pc \in Active
    BY <1>1, <2>2, HeldRun DEF Completed, Tail_, Active, BeforeVerdict, AfterVerdict
  <2> QED
    BY <2>1, <2>2 DEF Completed, Entry
<1>2. log'[id] = log[id]
  BY <1>1 DEF OwnReport
<1>3. Runs!Last(id)' = Runs!Last(id)
  BY <1>2 DEF Runs!Last, Runs!Entry
<1> QED
  BY <1>3 DEF Completed

\* A step of task w keeps LogInv when it keeps w's own part of it.
LEMMA TaskKeepsLogInv ==
  ASSUME TypeOK, RunInv, LogInv, NEW w \in Worker, OwnReport(w),
         UNCHANGED <<boot, run_counter, httpd, previous, reset_reason>>,
         run'.id = run.id,
         \A id \in RunId : outcome[id] # "none" => outcome'[id] # "none",
         \A v \in Worker \ {w} : task'[v] = task[v],
         Reported(task[w])', Outlives(w)',
         MarkerTrue' \/ (UNCHANGED marker /\ task'[w].pc # "restart")
  PROVE  LogInv'
<1>1. \A v \in Worker \ {w} : Reported(task[v])'
  BY OthersReported DEF OwnReport
<1>2. ASSUME NEW v \in Worker \ {w} PROVE Outlives(v)'
  <2>1. Outlives(v)
    BY DEF LogInv
  <2> QED
    BY <2>1 DEF Outlives
<1>3. Unreported'
  <2>1. ASSUME NEW id \in RunId, ~Begun(id) PROVE log'[id] = <<>>
    BY <2>1, HeldBegun DEF OwnReport, LogInv, Unreported
  <2>2. ASSUME httpd # "idle" PROVE log'[run.id] = <<>>
    <3>1. Busy /\ task[w].pc \notin Active
      BY <2>2 DEF RunInv, Creating, Busy
    <3>2. run.id \in RunId /\ outcome[run.id] = "none"
      BY <3>1, BusyRun DEF RunInv, CurrentRun
    <3>3. task[w].pc \in Holding => task[w].id # run.id
      BY <3>1, <3>2, HeldRun DEF Holding
    <3> QED
      BY <2>2, <3>2, <3>3 DEF OwnReport, LogInv, Unreported
  <2> QED
    BY <2>1, <2>2 DEF Unreported, Begun
<1>4. MarkerTrue'
  <2>1. CASE UNCHANGED marker /\ task'[w].pc # "restart"
    <3> SUFFICES ASSUME NEW v \in Worker, task'[v].pc = "restart"
                 PROVE  Completed(marker.run_id)' /\ marker.run_id[1] = boot
      BY <2>1 DEF MarkerTrue
    <3>1. task[v].pc = "restart"
      BY <2>1
    <3>2. Completed(marker.run_id) /\ marker.run_id[1] = boot
      BY <3>1 DEF LogInv, MarkerTrue
    <3>3. PICK id \in RunId : id = marker.run_id
      BY <3>2 DEF Completed
    <3>4. Completed(id)'
      BY <3>2, <3>3, CompletedStays
    <3> QED
      BY <2>1, <3>2, <3>3, <3>4
  <2> QED
    BY <2>1
<1>5. PreviousTrue'
  <2> SUFFICES ASSUME previous # NoRun
               PROVE  /\ reset_reason = "software" /\ previous[1] = boot - 1
                      /\ Completed(previous)'
    BY DEF PreviousTrue
  <2>1. reset_reason = "software" /\ previous[1] = boot - 1 /\ Completed(previous)
    BY DEF LogInv, PreviousTrue
  <2>2. PICK id \in RunId : id = previous
    BY <2>1 DEF Completed
  <2>3. Completed(id)'
    BY <2>1, <2>2, CompletedStays
  <2> QED
    BY <2>1, <2>2, <2>3
<1> QED
  BY <1>1, <1>2, <1>3, <1>4, <1>5 DEF LogInv

\* The steps of a workload task keep LogInv.
LEMMA TaskStepLogInv ==
  ASSUME TypeOK, RunInv, LogInv, NEW w \in Worker, TaskStep(w), ~Restart(w)
  PROVE  LogInv'
<1> USE DEF rebooting, history
<1> DEFINE t == task[w]
<1>t. t \in TaskRecord /\ w \in DOMAIN task /\ Reported(t) /\ Outlives(w)
  BY DEF TypeOK, LogInv
<1>pc. /\ AfterVerdict = {"fault_check", "fault", "phase_end", "finish"}
       /\ Active = {"start", "phase_start", "body", "verdict", "fault_check",
                    "fault", "phase_end", "finish"}
       /\ Tail_ = {"run_complete", "reboot_check", "marker_magic", "marker_id",
                   "restart"}
       /\ Holding = (Active \cup Tail_) \ {"start"}
  BY DEF Active, BeforeVerdict, AfterVerdict, Tail_, Holding
<1>1. CASE CopyRun(w)
  <2>1. t.pc = "start" /\ log[run.id] = <<>>
    BY <1>1, <1>t DEF CopyRun, Reported
  <2>2. task'[w] = [t EXCEPT !.pc = "phase_start", !.id = run.id,
                             !.workload = run.workload]
        /\ \A v \in Worker \ {w} : task'[v] = task[v]
    BY <1>1, <1>t DEF CopyRun, TypeOK
  <2>3. task'[w].pc = "phase_start" /\ task'[w].id = run.id
    BY <2>2, <1>t DEF TaskRecord
  <2>4. /\ UNCHANGED <<boot, run_counter, httpd, previous, reset_reason>>
        /\ UNCHANGED <<run, marker, log, outcome>>
    BY <1>1 DEF CopyRun
  <2>5. Reported(task[w])' /\ Outlives(w)'
    BY <1>pc, <2>1, <2>3, <2>4 DEF Reported, Outlives
  <2> QED
    BY <2>2, <2>3, <2>4, <2>5, TaskKeepsLogInv DEF OwnReport
<1>2. CASE PhaseStart(w)
  <2>1. /\ t.pc = "phase_start" /\ task'[w].pc = "body" /\ task'[w].id = t.id
        /\ \A v \in Worker \ {w} : task'[v] = task[v]
    BY <1>2, StepEffect DEF PhaseStart
  <2>2. PICK me \in RunId : me = t.id
    BY <1>pc, <2>1, HeldRun
  <2>3. Runs!Last(me)' = Entry("phase_start", "none")
        /\ \A id \in RunId : id # me => log'[id] = log[id]
    BY <1>2, <2>2, EmitEffect DEF PhaseStart
  <2>4. /\ UNCHANGED <<boot, run_counter, httpd, previous, reset_reason>>
        /\ UNCHANGED <<run, marker, outcome>>
    BY <1>2 DEF PhaseStart
  <2>5. Reported(task[w])' /\ Outlives(w)'
    BY <1>pc, <2>1, <2>2, <2>3 DEF Reported, Outlives, Entry
  <2>6. OwnReport(w)
    BY <1>pc, <2>1, <2>2, <2>3 DEF OwnReport
  <2> QED
    BY <2>1, <2>4, <2>5, <2>6, TaskKeepsLogInv
<1>3. ASSUME NEW ok, BodyEnds(w, ok) PROVE LogInv'
  <2>1. task'[w] = [t EXCEPT !.pc = "verdict", !.ok = ok]
        /\ \A v \in Worker \ {w} : task'[v] = task[v] /\ t.pc = "body"
    BY <1>3, <1>t DEF BodyEnds, TypeOK
  <2>2. task'[w].pc = "verdict" /\ task'[w].id = t.id
    BY <2>1, <1>t DEF TaskRecord
  <2>3. /\ UNCHANGED <<boot, run_counter, httpd, previous, reset_reason>>
        /\ UNCHANGED <<run, marker, log, outcome>> /\ t.pc = "body"
    BY <1>3 DEF BodyEnds
  <2>4. Reported(task[w])' /\ Outlives(w)'
    BY <1>t, <1>pc, <2>2, <2>3 DEF Reported, Outlives, Runs!Last, Runs!Entry
  <2> QED
    BY <2>1, <2>2, <2>3, <2>4, TaskKeepsLogInv DEF OwnReport
<1>4. CASE BodyDeadline(w) \/ BodyAborted(w) \/ BodyFailed(w)
  BY <1>3, <1>4 DEF BodyDeadline, BodyAborted, BodyFailed
<1>5. CASE Verdict(w)
  <2> DEFINE r == IF should_abort THEN "aborted" ELSE IF t.ok THEN "pass" ELSE "fail"
  <2>1. task'[w] = [t EXCEPT !.pc = "fault_check", !.result = r]
        /\ \A v \in Worker \ {w} : task'[v] = task[v]
    BY <1>5, <1>t DEF Verdict, TypeOK
  <2>2. /\ task'[w].pc = "fault_check" /\ task'[w].result = r
        /\ task'[w].id = t.id /\ task'[w].ok = t.ok
    BY <2>1, <1>t DEF TaskRecord
  <2>3. /\ UNCHANGED <<boot, run_counter, httpd, previous, reset_reason>>
        /\ UNCHANGED <<run, marker, log, outcome>> /\ t.pc = "verdict"
    BY <1>5 DEF Verdict
  <2>4. r = "pass" => t.ok
    BY Zenon
  <2> HIDE DEF r
  <2>5. Reported(task[w])' /\ Outlives(w)'
    BY <1>t, <1>pc, <2>2, <2>3, <2>4 DEF Reported, Outlives, Runs!Last, Runs!Entry
  <2> QED
    BY <2>1, <2>2, <2>3, <2>5, TaskKeepsLogInv DEF OwnReport
<1>6. CASE FaultCheck(w)
  <2> DEFINE to == IF FaultWanted(w) THEN "fault" ELSE "phase_end"
  <2>1. t.pc = "fault_check" /\ task'[w].pc = to /\ task'[w].id = t.id
        /\ task'[w].result = t.result /\ task'[w].ok = t.ok
        /\ \A v \in Worker \ {w} : task'[v] = task[v]
    BY <1>6, StepEffect DEF FaultCheck
  <2>2. /\ UNCHANGED <<boot, run_counter, httpd, previous, reset_reason>>
        /\ UNCHANGED <<run, marker, log, outcome>>
    BY <1>6 DEF FaultCheck
  <2>3. to = "phase_end" \/ (to = "fault" /\ ~t.ok /\ ~run.abort_requested)
    BY DEF FaultWanted, should_abort
  <2> HIDE DEF to
  <2>4. ASSUME to = "fault" PROVE t.result = "fail"
    <3>1. /\ Busy /\ t.result # "none"
          /\ t.result = "aborted" <=> ack[run.id] = "early"
      BY <1>pc, <2>1 DEF RunInv, VerdictAgrees, OwnRun, Busy
    <3>2. ack[run.id] = "none"
      BY <2>3, <2>4, <3>1 DEF RunInv, CurrentRun
    <3>3. t.result # "pass"
      BY <1>t, <1>pc, <2>1, <2>3, <2>4 DEF Reported
    <3> QED
      BY <1>t, <3>1, <3>2, <3>3 DEF TaskRecord, Result
  <2>5. Reported(task[w])' /\ Outlives(w)'
    BY <1>t, <1>pc, <2>1, <2>2, <2>3, <2>4
    DEF Reported, Outlives, Runs!Last, Runs!Entry
  <2> QED
    BY <1>pc, <2>1, <2>2, <2>3, <2>5, TaskKeepsLogInv DEF OwnReport
<1>7. CASE Fault(w)
  <2>1. /\ t.pc = "fault" /\ task'[w].pc = "phase_end" /\ task'[w].id = t.id
        /\ task'[w].result = t.result /\ task'[w].ok = t.ok
        /\ \A v \in Worker \ {w} : task'[v] = task[v]
    BY <1>7, StepEffect DEF Fault
  <2>2. PICK me \in RunId : me = t.id
    BY <1>pc, <2>1, HeldRun
  <2>3. Runs!Last(me)' = Entry("fault", "fail")
        /\ \A id \in RunId : id # me => log'[id] = log[id]
    BY <1>7, <2>2, EmitEffect DEF Fault
  <2>4. /\ UNCHANGED <<boot, run_counter, httpd, previous, reset_reason>>
        /\ UNCHANGED <<run, marker, outcome>>
    BY <1>7 DEF Fault
  <2>5. Reported(task[w])' /\ Outlives(w)'
    BY <1>t, <1>pc, <2>1, <2>2, <2>3 DEF Reported, Outlives, Entry
  <2>6. OwnReport(w)
    BY <1>pc, <2>1, <2>2, <2>3 DEF OwnReport
  <2> QED
    BY <2>1, <2>4, <2>5, <2>6, TaskKeepsLogInv
<1>8. CASE PhaseEnd(w)
  <2>1. /\ t.pc = "phase_end" /\ task'[w].pc = "finish" /\ task'[w].id = t.id
        /\ task'[w].result = t.result /\ task'[w].ok = t.ok
        /\ \A v \in Worker \ {w} : task'[v] = task[v]
    BY <1>8, StepEffect DEF PhaseEnd
  <2>2. PICK me \in RunId : me = t.id
    BY <1>pc, <2>1, HeldRun
  <2>3. Runs!Last(me)' = Entry("phase_end", t.result)
        /\ \A id \in RunId : id # me => log'[id] = log[id]
    BY <1>8, <2>2, EmitEffect DEF PhaseEnd
  <2>4. /\ UNCHANGED <<boot, run_counter, httpd, previous, reset_reason>>
        /\ UNCHANGED <<run, marker, outcome>>
    BY <1>8 DEF PhaseEnd
  <2>5. Reported(task[w])' /\ Outlives(w)'
    BY <1>t, <1>pc, <2>1, <2>2, <2>3 DEF Reported, Outlives, Entry
  <2>6. OwnReport(w)
    BY <1>pc, <2>1, <2>2, <2>3 DEF OwnReport
  <2> QED
    BY <2>1, <2>4, <2>5, <2>6, TaskKeepsLogInv
<1>9. CASE Finish(w)
  <2>1. /\ t.pc = "finish" /\ task'[w].pc = "run_complete" /\ task'[w].id = t.id
        /\ task'[w].result = t.result
        /\ \A v \in Worker \ {w} : task'[v] = task[v]
    BY <1>9, StepEffect DEF Finish
  <2>2. /\ t.id = run.id /\ t.id \in RunId /\ t.id[1] = boot /\ t.result # "none"
    BY <1>pc, <2>1, HeldRun DEF RunInv, VerdictAgrees
  <2>3. /\ UNCHANGED <<boot, run_counter, httpd, previous, reset_reason>>
        /\ UNCHANGED <<marker, log>> /\ run'.id = run.id
    BY <1>9, FinishEffect DEF Finish
  <2>4. outcome'[t.id] # "none"
        /\ \A id \in RunId : outcome[id] # "none" => outcome'[id] # "none"
    BY <1>9, <2>2, FinishEffect DEF Finish, TypeOK
  <2>5. \A v \in Worker \ {w} : task[v].pc \in Tail_ => task[v].id # t.id
    BY <1>pc, <2>1, HeldAlone
  <2>6. Reported(task[w])' /\ Outlives(w)'
    BY <1>t, <1>pc, <2>1, <2>2, <2>3, <2>4, <2>5
    DEF Reported, Outlives, Runs!Last, Runs!Entry
  <2> QED
    BY <2>1, <2>3, <2>4, <2>6, TaskKeepsLogInv DEF OwnReport
<1>10. CASE RunComplete(w)
  <2>1. /\ t.pc = "run_complete" /\ task'[w].pc = "reboot_check"
        /\ task'[w].id = t.id /\ task'[w].result = t.result
        /\ \A v \in Worker \ {w} : task'[v] = task[v]
    BY <1>10, StepEffect DEF RunComplete
  <2>2. PICK me \in RunId : me = t.id
    BY <1>pc, <2>1, HeldRun
  <2>3. Runs!Last(me)' = Entry("run_complete", t.result)
        /\ \A id \in RunId : id # me => log'[id] = log[id]
    BY <1>10, <2>2, EmitEffect DEF RunComplete
  <2>4. /\ UNCHANGED <<boot, run_counter, httpd, previous, reset_reason>>
        /\ UNCHANGED <<run, marker, outcome>>
    BY <1>10 DEF RunComplete
  <2>5. Reported(task[w])' /\ Outlives(w)'
    BY <1>t, <1>pc, <2>1, <2>2, <2>3, <2>4 DEF Reported, Outlives, Entry
  <2>6. OwnReport(w)
    BY <1>pc, <2>1, <2>2, <2>3 DEF OwnReport
  <2> QED
    BY <2>1, <2>4, <2>5, <2>6, TaskKeepsLogInv
<1>11. CASE RebootCheck(w)
  <2>1. /\ \/ task'[w] = [t EXCEPT !.pc = "marker_magic"]
           \/ task'[w] = FreeTask
        /\ \A v \in Worker \ {w} : task'[v] = task[v]
    BY <1>11, <1>t DEF RebootCheck, TypeOK
  <2>2. \/ /\ task'[w].pc = "marker_magic" /\ task'[w].id = t.id
           /\ task'[w].result = t.result
        \/ task'[w].pc = "free"
    BY <2>1, <1>t DEF TaskRecord, FreeTask
  <2>3. /\ UNCHANGED <<boot, run_counter, httpd, previous, reset_reason>>
        /\ UNCHANGED <<run, marker, log, outcome>> /\ t.pc = "reboot_check"
    BY <1>11 DEF RebootCheck
  <2>4. Reported(task[w])' /\ Outlives(w)'
    BY <1>t, <1>pc, <2>1, <2>2, <2>3 DEF Reported, Outlives, Runs!Last, Runs!Entry
  <2> QED
    BY <2>1, <2>2, <2>3, <2>4, TaskKeepsLogInv DEF OwnReport
<1>12. CASE MarkerMagic(w) \/ MarkerId(w)
  <2>1. /\ \/ t.pc = "marker_magic" /\ task'[w].pc = "marker_id"
           \/ t.pc = "marker_id" /\ task'[w].pc = "restart"
        /\ task'[w].id = t.id /\ task'[w].result = t.result
        /\ \A v \in Worker \ {w} : task'[v] = task[v]
    BY <1>12, StepEffect DEF MarkerMagic, MarkerId
  <2>2. UNCHANGED <<boot, run_counter, run, httpd, previous, reset_reason, log, outcome>>
    BY <1>12 DEF MarkerMagic, MarkerId
  <2>3. Reported(task[w])' /\ Outlives(w)'
    BY <1>t, <1>pc, <2>1, <2>2 DEF Reported, Outlives, Runs!Last, Runs!Entry
  <2>4. MarkerTrue'
    <3>2. CASE MarkerMagic(w)
      <4>1. marker'.run_id = marker.run_id /\ task'[w].pc # "restart"
        BY <2>1, <3>2 DEF MarkerMagic, TypeOK, RtcMemory, Step
      <4>2. ASSUME NEW v \in Worker, task'[v].pc = "restart"
            PROVE  task[v].pc = "restart"
        BY <2>1, <4>1, <4>2
      <4>3. (\E v \in Worker : task'[v].pc = "restart") =>
              Completed(marker.run_id) /\ marker.run_id[1] = boot
        BY <4>2 DEF LogInv, MarkerTrue
      <4>4. Completed(marker.run_id) => Completed(marker.run_id)'
        <5>1. Completed(marker.run_id) =>
                outcome'[marker'.run_id] # "none" /\ marker'.run_id \in RunId
                /\ Runs!Last(marker.run_id)' = Runs!Last(marker.run_id)
          BY <2>2, <4>1 DEF Completed, Runs!Last, Runs!Entry
        <5> QED
          BY <5>1 DEF Completed
      <4> QED
        BY <2>2, <4>1, <4>3, <4>4 DEF MarkerTrue
    <3>3. CASE MarkerId(w)
      <4>1. marker'.run_id = t.id
        BY <3>3 DEF MarkerId, TypeOK, RtcMemory
      <4>2. t.pc = "marker_id" /\ t.id \in RunId /\ t.id[1] = boot
            /\ outcome[t.id] # "none"
        BY <1>pc, <3>3, HeldRun DEF MarkerId, Step
      <4>3. Runs!Last(t.id).event = "run_complete"
        BY <1>t, <1>pc, <4>2 DEF Reported, Entry
      <4>4. Runs!Last(marker.run_id)' = Runs!Last(t.id)
        BY <2>2, <4>1 DEF Runs!Last, Runs!Entry
      <4> QED
        BY <2>2, <4>1, <4>2, <4>3, <4>4 DEF MarkerTrue, Completed
    <3> QED
      BY <1>12, <3>2, <3>3
  <2> QED
    BY <2>1, <2>2, <2>3, <2>4, TaskKeepsLogInv DEF OwnReport
<1> QED
  BY <1>1, <1>2, <1>4, <1>5, <1>6, <1>7, <1>8, <1>9, <1>10, <1>11, <1>12
  DEF TaskStep

\* A boot reads the marker its predecessor left; only a restart makes it count.
LEMMA AppMainLogInv ==
  ASSUME TypeOK, LogInv, NEW reason, NEW rtc, AppMain(reason, rtc),
         reason = "software" =>
           Completed(rtc.run_id) /\ rtc.run_id[1] = boot
  PROVE  LogInv'
<1> USE DEF AppMain, history
<1>1. \A w \in Worker : task'[w].pc = "free"
  BY DEF FreeTask
<1>2. \A w \in Worker : Reported(task[w])' /\ Outlives(w)'
  BY <1>1 DEF Reported, Outlives, Active, Tail_, BeforeVerdict, AfterVerdict
<1>3. Unreported'
  <2>1. ASSUME NEW id \in RunId, Begun(id) PROVE Begun(id)'
    <3>1. id[1] \in Nat /\ boot \in Nat
      BY DEF TypeOK, RunId
    <3>2. id[1] <= boot /\ boot' = boot + 1
      BY <2>1, <3>1 DEF Begun
    <3> QED
      BY <3>1, <3>2 DEF Begun
  <2> QED
    BY <2>1 DEF LogInv, Unreported
<1>4. MarkerTrue'
  BY <1>1 DEF MarkerTrue
<1>5. PreviousTrue'
  <2>1. CASE MarkerCounts(reason, rtc)
    <3>1. Completed(rtc.run_id) /\ rtc.run_id[1] = boot /\ reason = "software"
      BY <2>1 DEF MarkerCounts
    <3>2. previous' = rtc.run_id /\ reset_reason' = "software"
      BY <2>1, <3>1
    <3>3. Completed(previous)'
      BY <3>1, <3>2 DEF Completed, Runs!Last, Runs!Entry
    <3>4. boot \in Nat /\ boot' = boot + 1
      BY DEF TypeOK
    <3> QED
      BY <3>1, <3>2, <3>3, <3>4 DEF PreviousTrue
  <2>2. CASE ~MarkerCounts(reason, rtc)
    BY <2>2 DEF PreviousTrue
  <2> QED
    BY <2>1, <2>2
<1> QED
  BY <1>2, <1>3, <1>4, <1>5 DEF LogInv

\* Steps that report nothing and leave the tasks alone keep LogInv.
LEMMA SilentKeepsLogInv ==
  ASSUME TypeOK, RunInv, LogInv,
         UNCHANGED <<boot, task, marker, previous, reset_reason, log>>,
         \A id \in RunId : outcome[id] # "none" => outcome'[id] # "none",
         \A id \in RunId : ~Begun(id)' => ~Begun(id),
         run'.id = run.id \/ \A w \in Worker : task[w].pc \notin Active,
         httpd' # "idle" => log[run'.id] = <<>>
  PROVE  LogInv'
<1>1. ASSUME NEW w \in Worker PROVE Reported(task[w])' /\ Outlives(w)'
  <2>1. Reported(task[w]) /\ Outlives(w)
    BY DEF LogInv
  <2>2. task[w].pc = "start" => run'.id = run.id
    BY DEF Active, BeforeVerdict
  <2>3. Runs!Last(task[w].id)' = Runs!Last(task[w].id)
    BY DEF Runs!Last, Runs!Entry
  <2> QED
    BY <2>1, <2>2, <2>3 DEF Reported, Outlives
<1>2. Unreported'
  BY DEF LogInv, Unreported
<1>3. Completed(marker.run_id) => Completed(marker.run_id)'
  BY DEF Completed, Runs!Last, Runs!Entry
<1>4. Completed(previous) => Completed(previous)'
  BY DEF Completed, Runs!Last, Runs!Entry
<1>5. MarkerTrue' /\ PreviousTrue'
  BY <1>3, <1>4 DEF LogInv, MarkerTrue, PreviousTrue
<1> QED
  BY <1>1, <1>2, <1>5 DEF LogInv

\* Every step keeps LogInv.
LEMMA NextLogInv == TypeOK /\ RunInv /\ LogInv /\ [Next]_vars => LogInv'
<1> SUFFICES ASSUME TypeOK, RunInv, LogInv, [Next]_vars PROVE LogInv'
  OBVIOUS
<1> USE DEF rebooting, history
<1>1. ASSUME NEW w \in Worker, TaskStep(w) PROVE LogInv'
  <2>1. CASE Restart(w)
    <3>1. Completed(marker.run_id) /\ marker.run_id[1] = boot
      BY <2>1 DEF Restart, LogInv, MarkerTrue
    <3> QED
      BY <2>1, <3>1, AppMainLogInv DEF Restart
  <2> QED
    BY <1>1, <2>1, TaskStepLogInv
<1>2. ASSUME NEW wl \in Workload, RunsPost(wl) PROVE LogInv'
  <2> DEFINE new == <<boot, run_counter + 1>>
  <2>1. /\ run'.id = new /\ run_counter' = run_counter + 1 /\ ~Busy
        /\ UNCHANGED <<boot, task, marker, previous, reset_reason, log, outcome>>
    BY <1>2 DEF RunsPost, MayBegin, db_run_begin, Busy
  <2>2. new \in RunId /\ ~Begun(new)
    <3>1. run_counter < MaxRun /\ run_counter \in Nat /\ boot \in 1..MaxBoot
      BY <1>2, BoundAssumption DEF RunsPost, TypeOK
    <3>2. run_counter + 1 \in 1..MaxRun
      BY <3>1, BoundAssumption
    <3>3. new[1] = boot /\ new[2] = run_counter + 1
      OBVIOUS
    <3> QED
      BY <3>1, <3>2, <3>3 DEF RunId, Begun
  <2>3. log[new] = <<>>
    BY <2>2 DEF LogInv, Unreported
  <2>4. \A w \in Worker : task[w].pc \notin Active
    BY <2>1 DEF RunInv, OwnRun, Busy
  <2>5. ASSUME NEW id \in RunId, Begun(id) PROVE Begun(id)'
    BY <2>1, <2>5 DEF Begun, TypeOK, RunId
  <2> QED
    BY <2>1, <2>3, <2>4, <2>5, SilentKeepsLogInv
<1>3. CASE HttpStep
  <2>1. ASSUME NEW w \in Worker, TaskCreated(w) PROVE LogInv'
    <3>1. /\ httpd = "create" /\ httpd' = "idle"
          /\ UNCHANGED <<boot, run_counter, run, marker, previous, reset_reason,
                         log, outcome>>
      BY <2>1 DEF TaskCreated
    <3>2. /\ task'[w].pc = "start"
          /\ \A v \in Worker \ {w} : task'[v] = task[v]
      BY <2>1 DEF TaskCreated, TypeOK, NewTask, FreeTask
    <3>3. log[run.id] = <<>>
      BY <3>1 DEF LogInv, Unreported
    <3>4. Reported(task[w])'
      BY <3>1, <3>2, <3>3 DEF Reported, AfterVerdict, Tail_
    <3>5. \A v \in Worker \ {w} : Reported(task[v])'
      BY <3>1, <3>2, OthersReported
    <3>6. \A v \in Worker : Outlives(v)'
      <4> SUFFICES ASSUME NEW v \in Worker, task'[v].pc \in Tail_
                   PROVE  Outlives(v)'
        BY DEF Outlives
      <4>1. v # w /\ Outlives(v)
        BY <3>2 DEF LogInv, Tail_
      <4> QED
        BY <3>1, <3>2, <4>1 DEF Outlives, Tail_
    <3>7. Unreported'
      BY <3>1 DEF LogInv, Unreported, Begun
    <3>8. Completed(marker.run_id) => Completed(marker.run_id)'
      BY <3>1 DEF Completed, Runs!Last, Runs!Entry
    <3>9. Completed(previous) => Completed(previous)'
      BY <3>1 DEF Completed, Runs!Last, Runs!Entry
    <3>10. MarkerTrue' /\ PreviousTrue'
      BY <3>1, <3>2, <3>8, <3>9 DEF LogInv, MarkerTrue, PreviousTrue
    <3> QED
      BY <3>4, <3>5, <3>6, <3>7, <3>10 DEF LogInv
  <2>2. CASE TaskCreationFailed
    BY <2>2, SilentKeepsLogInv
    DEF TaskCreationFailed, LogInv, Unreported, Begun
  <2>3. CASE FinishUncreated
    <3>1. /\ UNCHANGED <<boot, run_counter, task, marker, previous, reset_reason, log>>
          /\ httpd' = "idle" /\ run'.id = run.id
          /\ outcome' = [outcome EXCEPT ![run.id] = "fail"]
      BY <2>3, UncreatedEffect DEF FinishUncreated
    <3>2. \A id \in RunId : outcome[id] # "none" => outcome'[id] # "none"
      BY <2>3, UncreatedEffect
    <3> QED
      BY <3>1, <3>2, SilentKeepsLogInv DEF Begun
  <2> QED
    BY <1>3, <2>1, <2>2, <2>3 DEF HttpStep
<1>4. ASSUME NEW id \in RunId, AbortPost(id) PROVE LogInv'
  <2>1. /\ UNCHANGED <<boot, run_counter, task, marker, previous, reset_reason, log,
                       outcome>>
        /\ httpd' = "idle" /\ run'.id = run.id
    BY <1>4 DEF AbortPost, db_run_abort, TypeOK, RunRecord
  <2> QED
    BY <2>1, SilentKeepsLogInv DEF Begun
<1>5. ASSUME NEW reason \in HardReason, HardReset(reason) PROVE LogInv'
  BY <1>5, AppMainLogInv DEF HardReset, HardReason
<1>6. CASE UNCHANGED vars
  BY <1>6, SilentKeepsLogInv DEF vars, LogInv, Unreported, Begun
<1> QED
  BY <1>1, <1>2, <1>3, <1>4, <1>5, <1>6 DEF Next

\* Nothing has been reported at power on.
LEMMA InitLogInv == Init => LogInv
<1> SUFFICES ASSUME Init PROVE LogInv
  OBVIOUS
<1>1. \A w \in Worker : task[w].pc = "free"
  BY DEF Init, FreeTask
<1>2. \A w \in Worker : Reported(task[w]) /\ Outlives(w)
  BY <1>1 DEF Reported, Outlives, Active, Tail_, BeforeVerdict, AfterVerdict
<1> QED
  BY <1>1, <1>2 DEF Init, LogInv, Unreported, MarkerTrue, PreviousTrue

-----------------------------------------------------------------------------
(* Theorems.                                                               *)

\* In every reachable state the log of each run is what its task has done.
THEOREM LogInvariant == Spec => []LogInv
<1> QED
  BY InitLogInv, NextLogInv, Invariant, PTL DEF Spec

\* previous_reboot_run_id names a run only after a restart the firmware asked
\* for, and that run belongs to the boot before, is finished and has reported
\* its run_complete.
THEOREM PreviousRunIsTrue == Spec => []PreviousRunTruthful
<1>1. TypeOK /\ LogInv => PreviousRunTruthful
  <2> SUFFICES ASSUME TypeOK, LogInv, previous # NoRun
               PROVE  /\ reset_reason = "software" /\ previous[1] = boot - 1
                      /\ outcome[previous] # "none" /\ log[previous] # <<>>
                      /\ log[previous][Len(log[previous])].event = "run_complete"
    BY DEF PreviousRunTruthful
  <2>1. reset_reason = "software" /\ previous[1] = boot - 1 /\ Completed(previous)
    BY DEF LogInv, PreviousTrue
  <2>2. CASE log[previous] = <<>>
    <3>1. Runs!Last(previous) = Runs!Entry("none", "none")
      BY <2>2 DEF Runs!Last
    <3> QED
      BY <2>1, <3>1 DEF Completed, Runs!Entry
  <2>3. CASE log[previous] # <<>>
    BY <2>1, <2>3 DEF Completed, Runs!Last
  <2> QED
    BY <2>2, <2>3
<1> QED
  BY <1>1, TypeCorrect, LogInvariant, PTL

-----------------------------------------------------------------------------
(* RunLifecycle implements RunService.                                     *)

\* What a client sees of the run engine.
seen == <<boot, [id |-> run.id, state |-> run.state, result |-> run.result], log>>

\* A report that the service allows next is a Report step of the service.
LEMMA ReportStep ==
  ASSUME TypeOK, RunInv, LogInv, NEW w \in Worker, task[w].pc \in Holding,
         NEW e, NEW r, Emit(w, e, r), UNCHANGED <<boot, run>>,
         Entry(e, r) \in Runs!Reportable(task[w].id),
         e = "run_complete" <=> task[w].pc \in Tail_
  PROVE  Runs!ServiceNext
<1> DEFINE me == task[w].id
<1>1. me \in RunId /\ me[1] = boot
  BY HeldRun
<1>2. Entry(e, r).event = e
  BY DEF Entry
<1>3. e = "run_complete" <=> ~(run.id = me /\ Busy)
  <2>1. CASE task[w].pc \in Active
    BY <2>1, HeldRun DEF Active, BeforeVerdict, AfterVerdict, Tail_
  <2>2. CASE task[w].pc \in Tail_
    <3>1. outcome[me] # "none"
      BY <2>2, HeldRun
    <3>2. Busy => outcome[run.id] = "none"
      BY DEF RunInv, CurrentRun
    <3> QED
      BY <2>2, <3>1, <3>2
  <2> QED
    BY <2>1, <2>2 DEF Holding
<1>4. log' = [log EXCEPT ![me] = Append(@, Entry(e, r))]
  BY DEF Emit
<1>5. me \in Runs!RunId
  BY <1>1 DEF RunId, Runs!RunId
<1>6. Runs!Report(me)
  BY <1>1, <1>2, <1>3, <1>4 DEF Runs!Report, Runs!Busy, Busy
<1> QED
  BY <1>5, <1>6 DEF Runs!ServiceNext

\* So is the end of a run that has reported its phase_end, or nothing at all.
LEMMA FinishStep ==
  ASSUME Busy, NEW r \in Result, UNCHANGED <<boot, log>>,
         run'.id = run.id, run'.state = "complete", run'.result = r,
         \/ Runs!Last(run.id) = Entry("phase_end", r)
         \/ log[run.id] = <<>> /\ r = "fail"
  PROVE  Runs!ServiceNext
<1> DEFINE cur == [id |-> run.id, state |-> run.state, result |-> run.result]
<1>1. cur' = [cur EXCEPT !.state = "complete", !.result = r]
  <2>1. cur' = [id |-> run.id, state |-> "complete", result |-> r]
    OBVIOUS
  <2>2. [cur EXCEPT !.state = "complete"]
          = [id |-> run.id, state |-> "complete", result |-> run.result]
    OBVIOUS
  <2>3. [[id |-> run.id, state |-> "complete", result |-> run.result]
           EXCEPT !.result = r] = [id |-> run.id, state |-> "complete", result |-> r]
    OBVIOUS
  <2> QED
    BY <2>1, <2>2, <2>3, Zenon
<1>2. cur.id = run.id /\ cur.state = run.state
  OBVIOUS
<1>3. Runs!Busy
  BY DEF Runs!Busy, Busy
<1>4. \/ Runs!Last(cur.id) = Runs!Entry("phase_end", r)
      \/ log[cur.id] = <<>> /\ r = "fail"
  BY <1>2 DEF Runs!Entry, Entry
<1>5. Runs!Finish(r)
  BY <1>1, <1>3, <1>4, Zenon DEF Runs!Finish
<1> QED
  BY <1>5 DEF Runs!ServiceNext, Runs!Result, Result

\* The initial states are initial states of the service.
LEMMA ServiceInit == Init => Runs!ServiceInit
BY DEF Init, IdleRun, Runs!ServiceInit, Runs!Idle, Runs!NoRun, NoRun, RunId, Runs!RunId

\* Every step of a workload task is a step of the service, or none it shows.
LEMMA TaskServiceStep ==
  ASSUME TypeOK, RunInv, LogInv, NEW w \in Worker, TaskStep(w)
  PROVE  Runs!ServiceNext \/ UNCHANGED seen
<1> USE DEF rebooting, history
<1> DEFINE t == task[w]
<1>t. t \in TaskRecord /\ run \in RunRecord /\ Reported(t)
  BY DEF TypeOK, LogInv
<1>pc. /\ Holding = (Active \cup Tail_) \ {"start"}
       /\ Active = {"start", "phase_start", "body", "verdict", "fault_check",
                    "fault", "phase_end", "finish"}
       /\ AfterVerdict = {"fault_check", "fault", "phase_end", "finish"}
       /\ Tail_ = {"run_complete", "reboot_check", "marker_magic", "marker_id",
                   "restart"}
  BY DEF Active, BeforeVerdict, AfterVerdict, Tail_, Holding
<1>1. CASE CopyRun(w) \/ Verdict(w) \/ FaultCheck(w) \/ RebootCheck(w)
  BY <1>1 DEF CopyRun, Verdict, FaultCheck, RebootCheck, seen
<1>2. CASE BodyDeadline(w) \/ BodyAborted(w) \/ BodyFailed(w)
  BY <1>2 DEF BodyDeadline, BodyAborted, BodyFailed, BodyEnds, seen
<1>3. CASE MarkerMagic(w) \/ MarkerId(w)
  BY <1>3 DEF MarkerMagic, MarkerId, seen
<1>4. CASE PhaseStart(w)
  <2>1. t.pc = "phase_start" /\ log[t.id] = <<>>
    BY <1>4, <1>t DEF PhaseStart, Step, Reported
  <2>2. Entry("phase_start", "none") \in Runs!Reportable(t.id)
    BY <2>1 DEF Runs!Reportable, Runs!Last, Runs!Entry, Entry
  <2> QED
    BY <1>4, <1>pc, <2>1, <2>2, ReportStep DEF PhaseStart
<1>5. CASE Fault(w)
  <2>1. t.pc = "fault" /\ Runs!Last(t.id) = Entry("phase_start", "none")
    BY <1>5, <1>t DEF Fault, Step, Reported
  <2>2. Entry("fault", "fail") \in Runs!Reportable(t.id)
    BY <2>1 DEF Runs!Reportable, Runs!Entry, Entry
  <2> QED
    BY <1>5, <1>pc, <2>1, <2>2, ReportStep DEF Fault
<1>6. CASE PhaseEnd(w)
  <2>1. t.pc = "phase_end" /\ t.result \in Result
    BY <1>6, <1>t, <1>pc DEF PhaseEnd, Step, TaskRecord, RunInv, VerdictAgrees
  <2>2. \/ Runs!Last(t.id) = Entry("phase_start", "none")
        \/ Runs!Last(t.id) = Entry("fault", "fail") /\ t.result = "fail"
    BY <1>t, <2>1 DEF Reported
  <2>3. Entry("phase_end", t.result) \in Runs!Reportable(t.id)
    BY <2>1, <2>2 DEF Runs!Reportable, Runs!Entry, Entry, Runs!Result, Result
  <2> QED
    BY <1>6, <1>pc, <2>1, <2>3, ReportStep DEF PhaseEnd
<1>7. CASE Finish(w)
  <2>1. t.pc = "finish" /\ Runs!Last(t.id) = Entry("phase_end", t.result)
    BY <1>7, <1>t DEF Finish, Step, Reported
  <2>2. t.id = run.id /\ Busy /\ t.result \in Result
    BY <1>t, <1>pc, <2>1, HeldRun DEF RunInv, VerdictAgrees, TaskRecord
  <2>3. /\ run'.id = run.id /\ run'.state = "complete" /\ run'.result = t.result
        /\ UNCHANGED <<boot, log>>
    BY <1>7, <1>t DEF Finish, db_run_finish, RunRecord
  <2> QED
    BY <2>1, <2>2, <2>3, FinishStep
<1>8. CASE RunComplete(w)
  <2>1. t.pc = "run_complete" /\ Runs!Last(t.id) = Entry("phase_end", t.result)
    BY <1>8, <1>t DEF RunComplete, Step, Reported
  <2>2. Entry("run_complete", t.result) \in Runs!Reportable(t.id)
    BY <2>1 DEF Runs!Reportable, Runs!Entry, Entry
  <2> QED
    BY <1>8, <1>pc, <2>1, <2>2, ReportStep DEF RunComplete
<1>9. CASE Restart(w)
  BY <1>9 DEF Restart, AppMain, IdleRun, Runs!ServiceNext, Runs!Restart, Runs!Idle,
     Runs!NoRun, NoRun
<1> QED
  BY <1>1, <1>2, <1>3, <1>4, <1>5, <1>6, <1>7, <1>8, <1>9 DEF TaskStep

\* Every step is a step of the service, or none it shows.
LEMMA ServiceStep ==
  TypeOK /\ RunInv /\ LogInv /\ [Next]_vars => [Runs!ServiceNext]_seen
<1> SUFFICES ASSUME TypeOK, RunInv, LogInv, [Next]_vars
             PROVE  Runs!ServiceNext \/ UNCHANGED seen
  OBVIOUS
<1> USE DEF rebooting, history
<1>1. CASE \E w \in Worker : TaskStep(w)
  BY <1>1, TaskServiceStep
<1>2. ASSUME NEW wl \in Workload, RunsPost(wl) PROVE Runs!ServiceNext
  <2>1. /\ run.id[2] = run_counter /\ boot + run_counter <= MaxRun
    BY <1>2 DEF RunsPost, RunInv, CurrentRun, NoRun, TypeOK
  <2>2. run' = db_run_begin(wl, <<boot, run_counter + 1>>) /\ UNCHANGED <<boot, log>>
    BY <1>2 DEF RunsPost
  <2>3. Runs!Begin
    BY <1>2, <2>1, <2>2
    DEF Runs!Begin, Runs!Busy, Runs!NextId, RunsPost, MayBegin, db_run_begin
  <2> QED
    BY <2>3 DEF Runs!ServiceNext
<1>3. CASE HttpStep
  <2>1. CASE FinishUncreated
    <3>1. Busy /\ log[run.id] = <<>>
      BY <2>1, UncreatedEffect DEF FinishUncreated, LogInv, Unreported
    <3>2. /\ run'.id = run.id /\ run'.state = "complete" /\ run'.result = "fail"
          /\ UNCHANGED <<boot, log>>
      BY <2>1 DEF FinishUncreated, db_run_finish, TypeOK, RunRecord
    <3> QED
      BY <3>1, <3>2, FinishStep DEF Result
  <2> QED
    BY <1>3, <2>1 DEF HttpStep, TaskCreated, TaskCreationFailed, seen
<1>4. ASSUME NEW id \in RunId, AbortPost(id) PROVE Runs!ServiceNext
  <2>1. /\ run.state = "running" /\ run'.state = "aborting"
        /\ run'.id = run.id /\ run'.result = run.result /\ UNCHANGED <<boot, log>>
    BY <1>4 DEF AbortPost, CanAbort, db_run_abort, TypeOK, RunRecord
  <2>2. Runs!Abort
    BY <2>1 DEF Runs!Abort
  <2> QED
    BY <2>2 DEF Runs!ServiceNext
<1>5. ASSUME NEW reason \in HardReason, HardReset(reason) PROVE Runs!ServiceNext
  BY <1>5 DEF HardReset, AppMain, IdleRun, Runs!ServiceNext, Runs!Restart, Runs!Idle,
     Runs!NoRun, NoRun
<1>6. CASE UNCHANGED vars
  BY <1>6 DEF vars, seen
<1> QED
  BY <1>1, <1>2, <1>3, <1>4, <1>5, <1>6 DEF Next

\* The engine implements the service its clients rely on.
THEOREM EngineKeepsService == Spec => RunsKept
<1>1. Init => Runs!ServiceInit
  BY ServiceInit
<1>2. TypeOK /\ RunInv /\ LogInv /\ [Next]_vars =>
        [Runs!ServiceNext]_(Runs!serviceVars)
  BY ServiceStep DEF seen, Runs!serviceVars
<1> QED
  BY <1>1, <1>2, Invariant, LogInvariant, PTL DEF Spec, RunsKept, Runs!ServiceSpec
=============================================================================
