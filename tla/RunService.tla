----------------------------- MODULE RunService -----------------------------
(***************************************************************************)
(* What the run engine promises its clients: one current run, whose state  *)
(* and result GET /api/v1/runs/<id> shows, and the events each run reports *)
(* on /api/v1/events.  RunLifecycle implements it.                         *)
(***************************************************************************)
EXTENDS Naturals, Sequences

CONSTANTS MaxRun, MaxBoot

VARIABLES boot,
          current,   \* id, state and result of the current run
          log        \* the events of each run

serviceVars == <<boot, current, log>>

RunId == (1..MaxBoot) \X (1..MaxRun)
NoRun == <<0, 0>>
Result == {"pass", "fail", "aborted"}
Entry(event, result) == [event |-> event, result |-> result]

Idle == [id |-> NoRun, state |-> "idle", result |-> "none"]
Busy == current.state \in {"running", "aborting"}
NextId == <<boot, current.id[2] + 1>>

ServiceInit ==
  /\ boot = 1
  /\ current = Idle
  /\ log = [id \in RunId |-> <<>>]

Begin ==
  /\ ~Busy /\ boot + current.id[2] <= MaxRun   \* the bound of RunLifecycle
  /\ current' = [id |-> NextId, state |-> "running", result |-> "running"]
  /\ UNCHANGED <<boot, log>>

Abort ==
  /\ current.state = "running"
  /\ current' = [current EXCEPT !.state = "aborting"]
  /\ UNCHANGED <<boot, log>>

Last(id) == IF log[id] = <<>> THEN Entry("none", "none") ELSE log[id][Len(log[id])]

\* What a run may report next.  Everything up to phase_end comes before its
\* end, run_complete after it, when a newer run may be current already.
Reportable(id) ==
  CASE Last(id).event = "none" -> {Entry("phase_start", "none")}
    [] Last(id).event = "phase_start" ->
         {Entry("fault", "fail")} \cup {Entry("phase_end", res) : res \in Result}
    [] Last(id).event = "fault" -> {Entry("phase_end", "fail")}
    [] Last(id).event = "phase_end" -> {Entry("run_complete", Last(id).result)}
    [] OTHER -> {}

Report(id) ==
  /\ id[1] = boot
  /\ \E entry \in Reportable(id) :
       /\ entry.event = "run_complete" <=> ~(current.id = id /\ Busy)
       /\ log' = [log EXCEPT ![id] = Append(@, entry)]
  /\ UNCHANGED <<boot, current>>

\* A run ends with the result it has reported, or without any report as failed
\* when its task could not be created.
Finish(result) ==
  /\ Busy
  /\ \/ Last(current.id) = Entry("phase_end", result)
     \/ log[current.id] = <<>> /\ result = "fail"
  /\ current' = [current EXCEPT !.state = "complete", !.result = result]
  /\ UNCHANGED <<boot, log>>

Restart ==
  /\ boot < MaxBoot /\ boot' = boot + 1
  /\ current' = Idle
  /\ UNCHANGED log

ServiceNext ==
  \/ Begin \/ Abort \/ Restart
  \/ \E id \in RunId : Report(id)
  \/ \E result \in Result : Finish(result)

ServiceSpec == ServiceInit /\ [][ServiceNext]_serviceVars
=============================================================================
