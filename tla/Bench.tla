------------------------------- MODULE Bench --------------------------------
(***************************************************************************)
(* The device on the bench, watched by one of its clients: an export of a  *)
(* run, the tool that triggers resets, or a browser on the landing page.   *)
(***************************************************************************)
EXTENDS CliExport, RecoveryPoll, Dashboard

VARIABLE client

vars == <<client, deviceVars, exportVars, recoveryVars, pageVars>>

Init ==
  /\ client \in {"export", "recovery", "page"}
  /\ DeviceInit /\ ExportInit /\ RecoveryInit /\ PageInit
  /\ client # "export" => export = "status"

\* Runs matter only to an export, until it is over.
Export ==
  /\ client = "export" /\ export \notin {"written", "error"}
  /\ \/ ExportStep
     \/ RunStep /\ UNCHANGED exportVars
  /\ UNCHANGED <<client, recoveryVars, pageVars>>

Recovery ==
  /\ client = "recovery" /\ RecoveryStep
  /\ UNCHANGED <<client, exportVars, pageVars>>

Page ==
  /\ client = "page" /\ PageStep
  /\ UNCHANGED <<client, exportVars, recoveryVars>>

\* Power comes and goes.
PowerCycle ==
  /\ Reset /\ due' = FALSE
  /\ UNCHANGED <<client, exportVars, event, uptime_before_ms, since, status, before, pageVars>>

AppMain ==
  /\ BootStep \/ EventTask
  /\ UNCHANGED <<client, exportVars, recoveryVars, pageVars>>

Tick ==
  /\ TimePasses(client = "recovery")
  /\ IF client = "recovery" THEN PollClock ELSE UNCHANGED recoveryVars
  /\ IF client = "page" THEN PageClock ELSE UNCHANGED pageVars
  /\ UNCHANGED <<client, exportVars>>

\* Bound: one boot more for the client that resets the device itself.  In the
\* last boot nothing panics, so liveness has to say that resets stop.
BootBound == client = "recovery" \/ boot' < MaxBoot

Next ==
  /\ AppMain \/ PowerCycle \/ Tick \/ Export \/ Recovery \/ Page
  /\ BootBound

Spec == Init /\ [][Next]_vars

\* app_main runs on, timers and polls are served, and time passes.  Nothing
\* makes the access point start.
FairSpec ==
  /\ Spec
  /\ WF_vars(BootStep /\ UNCHANGED <<client, exportVars, recoveryVars, pageVars>>)
  /\ WF_vars(Tick)
  /\ WF_vars(Page) /\ WF_vars(Recovery)

-----------------------------------------------------------------------------
(* Properties.                                                             *)

DeviceType ==
  /\ boot \in 1..MaxBoot
  /\ stage \in {"nvs", "wifi", "wait", "observe", "http", "ready", "stopped"}
  /\ radio \in {"off", "starting", "active", "told"}
  /\ ap_state \in {"starting", "active", "failed"}
  /\ started \in BOOLEAN /\ waited \in 0..AP_START_TIMEOUT /\ uptime \in 0..MaxUptime

ExportType ==
  /\ export \in {"status", "run", "events", "written", "error"}
  /\ run_id \in RunId \cup {NoRun}
  /\ export \in {"run", "events", "written"} => run_id \in RunId

RecoveryType ==
  /\ event \in {"baseline", "trigger", "poll", "recovered", "stale", "silent", "failed"}
  /\ uptime_before_ms \in 0..Unknown /\ due \in BOOLEAN /\ since \in 0..MaxWait
  /\ status \in [boot : 0..MaxBoot, uptime : 0..MaxUptime] /\ before \in 0..MaxBoot

PageType ==
  /\ age \in [Endpoint -> 0..Never] /\ rounds \in Seq((SUBSET Endpoint) \ {{}})
  /\ Len(rounds) <= MaxRounds /\ pollIn \in 0..PollEvery /\ freshDue \in BOOLEAN
  /\ badge \in {"connecting", "unreachable", "error", "stale", "live"}

\* Every variable keeps its type.
TypeOK == DeviceType /\ ExportType /\ RecoveryType /\ PageType

\* The server answers only on a device whose access point is up, however late
\* or badly the event task is told about it.
ServesOnItsAp == stage \in {"observe", "http", "ready"} => ap_state = "active"

\* Power is not cycled for ever and, the assumption that matters, no
\* ESP_ERROR_CHECK fails in every boot: one that does (nvs_flash_init, httpd_start,
\* the routes) panics and boots the chip again without end.
ResetsStop == <>[][boot' = boot]_boot

\* Once resets stop, app_main gets to an end, the device serves or has stopped,
\* also if the access point never starts, or only after start_wifi gave up.
BootSettles == ResetsStop => []<>(stage \in {"ready", "stopped"})

\* An exported run that reads as complete comes with events that agree: what
\* is there of it after its phase_start includes the phase_end with its result,
\* although the device went on, and may have restarted, between the requests.
ExportCoherent ==
  export = "written" /\ got.state = "complete"
      /\ (\E i \in DOMAIN got.events : got.events[i].event = "phase_start") =>
    \E i \in DOMAIN got.events : got.events[i] = Entry("phase_end", got.result)

\* reset_characterization.py, "genuine post-reset boot": with a baseline, no
\* status of the boot the baseline was read in is taken for the recovery.
RecoveryGenuine ==
  event = "recovered" /\ uptime_before_ms # Unknown => status.boot > before

\* The badge says live only while every endpoint has answered within STALE_MS
\* and one period of the badge's timer, however many rounds of fetches hang.
LiveIsFresh ==
  badge = "live" => \A n \in Endpoint : age[n] <= STALE + 1

-----------------------------------------------------------------------------
(* The strengthening that makes the safety properties inductive.           *)

LogEntry == [event : {"phase_start", "fault", "phase_end", "run_complete"},
             result : {"none"} \cup Result]

\* The types of the runs, and of what the export has of them.
RunType ==
  /\ client \in {"export", "recovery", "page"}
  /\ current \in [id : RunId \cup {NoRun}, state : {"idle", "running", "aborting", "complete"},
                  result : {"none", "running"} \cup Result]
  /\ log \in [RunId -> Seq(LogEntry)]
  /\ got \in [state : {"none", "idle", "running", "aborting", "complete"},
              result : {"none", "running"} \cup Result, events : Seq(LogEntry)]

\* The current run is of this boot.
CurrentOfBoot ==
  /\ current.id = NoRun \/ current.id[1] = boot
  /\ current.id = NoRun <=> current.state = "idle"

\* A run reports its phase_start first, and only then.
StartIsFirst ==
  \A id \in RunId : \A i \in DOMAIN log[id] : log[id][i].event = "phase_start" => i = 1

\* A run has ended: it is not the current one any more, or complete.
Over(id) ==
  \/ id[1] < boot
  \/ id[1] = boot /\ id[2] < current.id[2]
  \/ id[1] = boot /\ id = current.id /\ ~Busy

\* Its log is empty, or has its result: an ended run reports no phase_start.
EndReported(id, result) ==
  log[id] = <<>> \/ \E i \in DOMAIN log[id] : log[id][i] = Entry("phase_end", result)

RunsEnd ==
  /\ current.state = "complete" => EndReported(current.id, current.result)
  /\ export = "events" /\ got.state = "complete" =>
       Over(run_id) /\ EndReported(run_id, got.result)

\* The event task tells once of each start, and only after it.
ToldOnce ==
  /\ started => radio = "told"
  /\ stage \in {"nvs", "wifi"} => radio = "off"
  /\ stage \in {"observe", "http", "ready"} => radio = "told"

\* In the boot of the baseline the uptime has only grown.
UptimeGrows ==
  event # "baseline" =>
    /\ client = "recovery" /\ before <= boot
    /\ uptime_before_ms # Unknown =>
         uptime_before_ms <= MaxBaseline /\ (boot = before => uptime >= uptime_before_ms)

\* A live badge is older than one period only until its timer has run.
LiveUntilTimer ==
  badge = "live" =>
    \A n \in Endpoint : age[n] <= IF freshDue THEN STALE + 1 ELSE STALE

BenchInv ==
  /\ RunType /\ CurrentOfBoot /\ StartIsFirst /\ RunsEnd
  /\ ToldOnce /\ UptimeGrows /\ LiveUntilTimer
=============================================================================
