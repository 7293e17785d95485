----------------------------- MODULE BenchProofs -----------------------------
(***************************************************************************)
(* Proofs about the device on the bench, for any number of boots, runs and *)
(* endpoints and any timeouts: the device serves only on its own access    *)
(* point, and what an export, the reset tool and the landing page say of   *)
(* it is true, although it goes on and restarts between their requests.    *)
(***************************************************************************)
EXTENDS Bench, SequenceTheorems, TLAPS

\* Which step touches which part.
LEMMA Touched ==
  ASSUME [Next]_vars
  PROVE  /\ UNCHANGED client
         /\ Reset \/ (RunStep /\ UNCHANGED exportVars) \/ UNCHANGED serviceVars
         /\ Reset \/ BootStep \/ EventTask \/ Tick \/ UNCHANGED bootVars
         /\ Reset \/ Tick \/ UNCHANGED uptime
         /\ ExportStep \/ UNCHANGED exportVars
         /\ Recovery \/ Tick \/ UNCHANGED <<event, uptime_before_ms, since, status, before>>
         /\ Recovery \/ Tick \/ PowerCycle \/ UNCHANGED due
         /\ Page \/ Tick \/ UNCHANGED pageVars
<1>1. CASE UNCHANGED vars
  BY <1>1 DEF vars, deviceVars, recoveryVars
<1>2. CASE AppMain
  <2>1. CASE BootStep
    BY <1>2, <2>1 DEF AppMain, BootStep, NvsFlashInit, WifiStart, WaitBits, Observe,
       StartHttp, Panic, recoveryVars
  <2>2. CASE EventTask
    BY <1>2, <2>2 DEF AppMain, EventTask, ApStart, ApStartedBit, recoveryVars
  <2> QED
    BY <1>2, <2>1, <2>2 DEF AppMain
<1>3. CASE PowerCycle
  BY <1>3 DEF PowerCycle
<1>4. CASE Tick
  BY <1>4 DEF Tick, TimePasses
<1>5. CASE Export
  BY <1>5 DEF Export, ExportStep, RunStep, deviceVars, recoveryVars
<1>6. CASE Recovery
  BY <1>6 DEF Recovery, RecoveryStep, Baseline, HardResetPulse, TriggerSoftware,
     ControlledReboot, PollAnswered, PollEnds, deviceVars
<1>7. CASE Page
  BY <1>7 DEF Page, PageStep, deviceVars, recoveryVars
<1> QED
  BY <1>1, <1>2, <1>3, <1>4, <1>5, <1>6, <1>7 DEF Next

-----------------------------------------------------------------------------
(* The device: app_main and its event task.                                *)

\* A count that is capped stays within the cap and does not shrink.
LEMMA CappedGrows ==
  ASSUME NEW n \in Nat, NEW cap \in Nat, n <= cap
  PROVE  /\ Capped(n + 1, cap) \in 0..cap
         /\ n <= Capped(n + 1, cap) /\ Capped(n + 1, cap) <= n + 1
BY DEF Capped

\* A reset counts the boot and starts over.
LEMMA ResetEffect ==
  ASSUME DeviceType, Reset
  PROVE  /\ DeviceType' /\ ToldOnce' /\ ServesOnItsAp'
         /\ boot' = boot + 1 /\ current' = Idle /\ log' = log /\ uptime' = 0
<1>1. boot \in Nat /\ boot < MaxBoot /\ boot' = boot + 1
  BY DEF DeviceType, Reset, Restart
<1>2. boot' \in 1..MaxBoot
  BY <1>1, DeviceAssumption
<1>3. 0 \in 0..AP_START_TIMEOUT /\ 0 \in 0..MaxUptime
  BY DeviceAssumption
<1> QED
  BY <1>1, <1>2, <1>3 DEF Reset, Restart, DeviceType, ToldOnce, ServesOnItsAp

\* Whatever happens to it, the device keeps its types, and serves only when the
\* event task has told of a start that succeeded.
LEMMA DeviceStep ==
  ASSUME DeviceType, ToldOnce, ServesOnItsAp, [Next]_vars
  PROVE  DeviceType' /\ ToldOnce' /\ ServesOnItsAp'
<1>1. CASE Reset
  BY <1>1, ResetEffect
<1>2. CASE ~Reset
  <2>1. boot' = boot
    BY <1>2, Touched DEF RunStep, ServiceNext, Begin, Abort, Report, Finish, serviceVars
  <2>2. /\ uptime' \in 0..MaxUptime
        /\ Tick \/ waited' = waited
        /\ Tick => waited' \in 0..AP_START_TIMEOUT /\ UNCHANGED <<stage, radio, ap_state, started>>
    <3>1. CASE Tick
      <4>1. uptime \in Nat /\ uptime <= MaxUptime /\ waited \in Nat
            /\ waited <= AP_START_TIMEOUT
        BY DEF DeviceType
      <4>2. uptime' \in {0, Capped(uptime + 1, MaxUptime)}
            /\ waited' \in {waited, Capped(waited + 1, AP_START_TIMEOUT)}
            /\ UNCHANGED <<stage, radio, ap_state, started>>
        BY <3>1 DEF Tick, TimePasses
      <4>3. /\ Capped(uptime + 1, MaxUptime) \in 0..MaxUptime
            /\ Capped(waited + 1, AP_START_TIMEOUT) \in 0..AP_START_TIMEOUT
        BY <4>1, CappedGrows, DeviceAssumption
      <4> QED
        BY <3>1, <4>1, <4>2, <4>3, DeviceAssumption
    <3>2. CASE ~Tick
      BY <1>2, <3>2, Touched DEF BootStep, NvsFlashInit, WifiStart, WaitBits, Observe,
         StartHttp, Panic, EventTask, ApStart, ApStartedBit, bootVars, DeviceType
    <3> QED
      BY <3>1, <3>2
  <2>3. CASE EventTask
    <3>1. CASE ApStart
      BY <2>1, <2>2, <3>1 DEF ApStart, DeviceType, ToldOnce, ServesOnItsAp
    <3>2. CASE ApStartedBit
      BY <2>1, <2>2, <3>2 DEF ApStartedBit, DeviceType, ToldOnce, ServesOnItsAp
    <3> QED
      BY <2>3, <3>1, <3>2 DEF EventTask
  <2>4. CASE BootStep
    BY <1>2, <2>1, <2>2, <2>4 DEF BootStep, NvsFlashInit, WifiStart, WaitBits, Observe,
       StartHttp, Panic, At, FailsAt, ApStarted, DeviceType, ToldOnce, ServesOnItsAp
  <2>5. CASE UNCHANGED <<stage, radio, ap_state, started>>
    BY <2>1, <2>2, <2>5 DEF DeviceType, ToldOnce, ServesOnItsAp
  <2> QED
    BY <1>2, <2>2, <2>3, <2>4, <2>5, Touched DEF bootVars
<1> QED
  BY <1>1, <1>2

-----------------------------------------------------------------------------
(* The reset tool.                                                         *)

\* The uptime a boot shows only grows, until it is told apart no more; a reset
\* counts the boot.
LEMMA UptimeStep ==
  ASSUME DeviceType, [Next]_vars, client = "recovery"
  PROVE  \/ boot' = boot + 1
         \/ boot' = boot /\ uptime' \in Nat /\ (uptime <= uptime')
<1>0. boot \in Nat /\ uptime \in Nat /\ uptime <= MaxUptime
  BY DEF DeviceType
<1>1. CASE Reset
  BY <1>1, ResetEffect
<1>2. CASE Tick
  <2>1. uptime' = Capped(uptime + 1, MaxUptime) /\ boot' = boot
    BY <1>2 DEF Tick, TimePasses, serviceVars
  <2>2. Capped(uptime + 1, MaxUptime) \in Nat /\ uptime <= Capped(uptime + 1, MaxUptime)
    <3>1. MaxUptime \in Nat
      BY DeviceAssumption
    <3> QED
      BY <1>0, <3>1, CappedGrows
  <2> QED
    BY <2>1, <2>2
<1>3. CASE ~Reset /\ ~Tick
  <2>1. boot' = boot
    BY <1>3, Touched DEF RunStep, ServiceNext, Begin, Abort, Report, Finish, serviceVars
  <2>2. uptime' = uptime
    BY <1>3, Touched
  <2> QED
    BY <1>0, <2>1, <2>2
<1> QED
  BY <1>1, <1>2, <1>3

\* A baseline is never above what its boot shows later.
LEMMA RecoveryKeeps ==
  ASSUME DeviceType, RecoveryType, UptimeGrows, RecoveryGenuine, [Next]_vars
  PROVE  RecoveryType' /\ UptimeGrows' /\ RecoveryGenuine'
<1>0. /\ boot \in Nat /\ boot \in 0..MaxBoot /\ before \in Nat
      /\ uptime \in Nat /\ uptime \in 0..MaxUptime /\ uptime_before_ms \in Nat
      /\ since \in 0..MaxWait /\ MaxWait \in Nat /\ MaxBaseline \in Nat /\ MaxUptime \in Nat
      /\ MaxBaseline < MaxUptime
  BY DeviceAssumption, PollAssumption DEF DeviceType, RecoveryType, Unknown
<1>1. due' \in BOOLEAN
  BY Touched DEF RecoveryType, Recovery, RecoveryStep, Baseline, HardResetPulse,
     TriggerSoftware, ControlledReboot, PollAnswered, PollEnds, Tick, PollClock,
     PowerCycle, recoveryVars, Serving
<1>2. CASE Baseline /\ client' = client /\ client = "recovery"
  <2>1. /\ event' = "trigger" /\ before' = boot /\ uptime <= MaxBaseline
        /\ uptime_before_ms' \in {uptime, Unknown} /\ boot' = boot /\ uptime' = uptime
        /\ UNCHANGED <<since, status>>
    BY <1>2 DEF Baseline, deviceVars, serviceVars
  <2>2. uptime_before_ms' \in 0..Unknown
    BY <1>0, <2>1 DEF Unknown
  <2>3. RecoveryType'
    BY <1>0, <1>1, <2>1, <2>2 DEF RecoveryType
  <2>4. UptimeGrows'
    BY <1>0, <1>2, <2>1 DEF UptimeGrows, Unknown
  <2> QED
    BY <2>1, <2>3, <2>4 DEF RecoveryGenuine
<1>3. CASE PollAnswered /\ client' = client
  <2>1. /\ event = "poll" /\ UNCHANGED <<boot, uptime, uptime_before_ms, since, before>>
        /\ status' = [boot |-> boot, uptime |-> uptime]
        /\ event' \in {"poll", "recovered"} /\ (event' = "recovered" => ~Stale)
    BY <1>3 DEF PollAnswered, deviceVars, serviceVars
  <2>2. RecoveryType'
    BY <1>0, <1>1, <2>1 DEF RecoveryType
  <2>3. UptimeGrows'
    BY <1>3, <2>1 DEF UptimeGrows
  <2>4. event' = "recovered" /\ uptime_before_ms' # Unknown => boot > before
    BY <1>0, <2>1 DEF UptimeGrows, Stale
  <2> QED
    BY <2>1, <2>2, <2>3, <2>4 DEF RecoveryGenuine
<1>4. ASSUME UNCHANGED <<uptime_before_ms, status, before, client>>,
             event # "baseline" \/ event' = "baseline",
             event' = "recovered" => event = "recovered",
             event' \in {"baseline", "trigger", "poll", "recovered", "stale", "silent", "failed"},
             since' \in 0..MaxWait
      PROVE  RecoveryType' /\ UptimeGrows' /\ RecoveryGenuine'
  <2>1. RecoveryType'
    BY <1>1, <1>4 DEF RecoveryType
  <2>2. RecoveryGenuine'
    BY <1>4 DEF RecoveryGenuine
  <2>3. UptimeGrows'
    <3> SUFFICES ASSUME event # "baseline"
                 PROVE  /\ client = "recovery" /\ before <= boot'
                        /\ uptime_before_ms # Unknown =>
                             /\ uptime_before_ms <= MaxBaseline
                             /\ boot' = before => uptime' >= uptime_before_ms
      BY <1>4 DEF UptimeGrows
    <3>1. /\ client = "recovery" /\ before <= boot
          /\ uptime_before_ms # Unknown =>
               /\ uptime_before_ms <= MaxBaseline
               /\ boot = before => uptime >= uptime_before_ms
      BY DEF UptimeGrows
    <3> QED
      BY <1>0, <3>1, UptimeStep
  <2> QED
    BY <2>1, <2>2, <2>3
<1>5. CASE Recovery /\ ~Baseline /\ ~PollAnswered
  <2>1. HardResetPulse \/ TriggerSoftware \/ ControlledReboot \/ PollEnds
    BY <1>5 DEF Recovery, RecoveryStep
  <2>2. /\ UNCHANGED <<uptime_before_ms, status, before, since>>
        /\ event # "baseline" \/ event' = "baseline"
        /\ event' = "recovered" => event = "recovered"
        /\ event' \in {"baseline", "trigger", "poll", "recovered", "stale", "silent", "failed"}
    BY <2>1 DEF RecoveryType, HardResetPulse, TriggerSoftware, ControlledReboot, PollEnds,
       Triggered
  <2> QED
    BY <1>0, <1>4, <2>2, Touched
<1>6. CASE Tick
  <2>1. /\ UNCHANGED <<uptime_before_ms, status, before, event>>
        /\ since' = since \/ (since' = since + 1 /\ since # MaxWait)
    BY <1>6 DEF Tick, PollClock, recoveryVars
  <2>2. since' \in 0..MaxWait
    BY <1>0, <2>1
  <2> QED
    BY <1>4, <2>1, <2>2, Touched DEF RecoveryType
<1>7. CASE UNCHANGED <<event, uptime_before_ms, since, status, before>>
  BY <1>0, <1>4, <1>7, Touched DEF RecoveryType
<1> QED
  BY <1>2, <1>3, <1>5, <1>6, <1>7, Touched DEF Recovery

-----------------------------------------------------------------------------
(* The landing page.                                                       *)

\* The badge says live only of ages that do not exceed STALE.
LEMMA LiveSaysFresh ==
  ASSUME NEW ages \in [Endpoint -> Nat]
  PROVE  /\ updateFreshness(ages) \in {"unreachable", "error", "stale", "live"}
         /\ updateFreshness(ages) = "live" => \A n \in Endpoint : ages[n] <= STALE
<1>1. CASE \A n \in Endpoint : ages[n] = Never
  BY <1>1 DEF updateFreshness
<1>2. CASE Exceeds(ages, STALE)
  BY <1>2 DEF updateFreshness
<1>3. CASE ~Exceeds(ages, STALE)
  BY <1>3, PageAssumption DEF updateFreshness, Exceeds
<1> QED
  BY <1>1, <1>2, <1>3

\* Taking a round away leaves the others.
LEMMA RoundTaken ==
  ASSUME NEW S, NEW s \in Seq(S), NEW i \in 1..Len(s)
  PROVE  LET rest == [j \in 1..(Len(s) - 1) |-> IF j < i THEN s[j] ELSE s[j + 1]]
         IN rest \in Seq(S) /\ Len(rest) = Len(s) - 1
OBVIOUS

\* The page keeps its types, and a live badge its ages.
LEMMA PageKeeps ==
  ASSUME PageType, LiveUntilTimer, [Next]_vars
  PROVE  PageType' /\ LiveUntilTimer'
<1>0. /\ age \in [Endpoint -> 0..Never] /\ Never \in Nat /\ Old \in Nat /\ Never = Old + 1
      /\ STALE + 1 < Never /\ STALE \in Nat
      /\ rounds \in Seq((SUBSET Endpoint) \ {{}}) /\ Len(rounds) \in Nat
  BY PageAssumption DEF PageType, Never, Old
<1>1. CASE PageStep /\ PollAll
  <2>1. rounds' \in Seq((SUBSET Endpoint) \ {{}}) /\ Len(rounds') <= MaxRounds
    <3>1. Endpoint \in (SUBSET Endpoint) \ {{}}
      <4>1. Endpoint \in SUBSET Endpoint /\ Endpoint # {}
        BY PageAssumption
      <4> QED
        BY ONLY <4>1
    <3>2. CASE Len(rounds) < MaxRounds
      <4>1. rounds' = Append(rounds, Endpoint)
        BY <1>1, <3>2 DEF PollAll
      <4>2. rounds' \in Seq((SUBSET Endpoint) \ {{}}) /\ Len(rounds') = Len(rounds) + 1
        BY <1>0, <3>1, <4>1, AppendProperties
      <4> QED
        BY <1>0, <3>2, <4>2, PageAssumption
    <3>3. CASE ~(Len(rounds) < MaxRounds)
      BY <1>1, <3>3 DEF PollAll, PageType
    <3> QED
      BY <3>2, <3>3
  <2>2. pollIn' \in 0..PollEvery /\ UNCHANGED <<age, freshDue, badge>>
    BY <1>1, PageAssumption DEF PollAll
  <2> QED
    BY <2>1, <2>2 DEF PageType, LiveUntilTimer
<1>2. CASE PageStep /\ FreshnessTimer
  <2>1. badge' = updateFreshness(age) /\ UNCHANGED <<age, rounds, pollIn>> /\ freshDue' = FALSE
    BY <1>2 DEF FreshnessTimer
  <2>2. age \in [Endpoint -> Nat]
    BY <1>0
  <2>3. /\ badge' \in {"unreachable", "error", "stale", "live"}
        /\ badge' = "live" => \A n \in Endpoint : age[n] <= STALE
    BY <2>1, <2>2, LiveSaysFresh
  <2> QED
    BY <2>1, <2>3 DEF PageType, LiveUntilTimer
<1>3. ASSUME NEW i \in DOMAIN rounds, NEW n \in Endpoint, Settle(i, n)
      PROVE  PageType' /\ LiveUntilTimer'
  <2>1. UNCHANGED <<pollIn, freshDue>> /\ i \in 1..Len(rounds) /\ n \in rounds[i]
        /\ rounds[i] \in (SUBSET Endpoint) \ {{}}
    BY <1>0, <1>3, ElementOfSeq, LenProperties DEF Settle
  <2>2. age' \in [Endpoint -> 0..Never] /\ \A m \in Endpoint : age'[m] <= age[m]
    <3>1. CASE age' = [age EXCEPT ![n] = 0]
      BY <1>0, <3>1
    <3>2. CASE UNCHANGED age
      BY <1>0, <3>2
    <3> QED
      BY <1>3, <3>1, <3>2 DEF Settle
  <2>3. age' \in [Endpoint -> Nat]
    BY <1>0, <2>2
  <2>4. CASE rounds[i] = {n}
    <3>1. rounds' = Without(i) /\ badge' = updateFreshness(age')
      BY <1>3, <2>4 DEF Settle
    <3>2. rounds' \in Seq((SUBSET Endpoint) \ {{}}) /\ Len(rounds') = Len(rounds) - 1
      BY <1>0, <2>1, <3>1, RoundTaken DEF Without
    <3>3. /\ badge' \in {"unreachable", "error", "stale", "live"}
          /\ badge' = "live" => \A m \in Endpoint : age'[m] <= STALE
      BY <2>3, <3>1, LiveSaysFresh
    <3>4. badge' = "live" => \A m \in Endpoint : age'[m] <= STALE + 1
      BY <1>0, <2>3, <3>3
    <3>5. Len(rounds') <= MaxRounds
      BY <1>0, <3>2, PageAssumption DEF PageType
    <3> QED
      BY <2>1, <2>2, <3>2, <3>3, <3>4, <3>5 DEF PageType, LiveUntilTimer
  <2>5. CASE rounds[i] # {n}
    <3> DEFINE left == rounds[i] \ {n}
    <3>1. rounds' = [rounds EXCEPT ![i] = left] /\ UNCHANGED badge
      BY <1>3, <2>5 DEF Settle
    <3>2. left \in (SUBSET Endpoint) \ {{}}
      BY <2>1, <2>5
    <3> HIDE DEF left
    <3>3. rounds' \in Seq((SUBSET Endpoint) \ {{}}) /\ Len(rounds') = Len(rounds)
      BY <1>0, <2>1, <3>1, <3>2, ExceptSeq
    <3>4. badge' = "live" =>
            \A m \in Endpoint : age'[m] <= IF freshDue' THEN STALE + 1 ELSE STALE
      <4> DEFINE limit == IF freshDue THEN STALE + 1 ELSE STALE
      <4>1. limit \in Nat
        BY <1>0
      <4>2. badge = "live" => \A m \in Endpoint : age[m] <= limit
        BY DEF LiveUntilTimer
      <4>3. freshDue' = freshDue
        BY <2>1
      <4> HIDE DEF limit
      <4>4. badge' = "live" => \A m \in Endpoint : age'[m] <= limit
        BY <1>0, <2>2, <2>3, <3>1, <4>1, <4>2
      <4> QED
        BY <4>3, <4>4 DEF limit
    <3> QED
      BY <2>1, <2>2, <3>1, <3>3, <3>4 DEF PageType, LiveUntilTimer
  <2> QED
    BY <2>4, <2>5
<1>4. CASE PageClock
  <2>1. /\ pollIn > 0 /\ ~freshDue /\ pollIn' = pollIn - 1 /\ freshDue' = TRUE
        /\ age' = [n \in Endpoint |-> IF age[n] = Never THEN Never ELSE Capped(age[n] + 1, Old)]
        /\ UNCHANGED <<rounds, badge>>
    BY <1>4 DEF PageClock
  <2>2. ASSUME NEW n \in Endpoint
        PROVE  age'[n] \in 0..Never /\ age'[n] <= age[n] + 1
    <3>1. age[n] \in Nat /\ age[n] <= Never
      BY <1>0
    <3>2. CASE age[n] = Never
      BY <1>0, <2>1, <3>1, <3>2
    <3>3. CASE age[n] # Never
      <4>1. age'[n] = Capped(age[n] + 1, Old)
        BY <2>1, <3>3
      <4>2. age[n] <= Old
        BY <1>0, <3>1, <3>3
      <4>3. age'[n] \in 0..Old /\ age'[n] <= age[n] + 1
        BY <1>0, <3>1, <4>1, <4>2, CappedGrows
      <4> QED
        BY <1>0, <4>3
    <3> QED
      BY <3>2, <3>3
  <2>3. age' \in [Endpoint -> 0..Never]
    BY <2>1, <2>2
  <2>4. badge' = "live" => \A n \in Endpoint : age'[n] <= STALE + 1
    <3> SUFFICES ASSUME badge = "live", NEW n \in Endpoint PROVE age'[n] <= STALE + 1
      BY <2>1
    <3>1. age[n] <= STALE /\ age[n] \in Nat
      BY <1>0, <2>1 DEF LiveUntilTimer
    <3>2. age'[n] \in Nat /\ age'[n] <= age[n] + 1
      BY <1>0, <2>2
    <3> QED
      BY <1>0, <3>1, <3>2
  <2>5. pollIn' \in 0..PollEvery
    BY <2>1, PageAssumption DEF PageType
  <2> QED
    BY <2>1, <2>3, <2>4, <2>5 DEF PageType, LiveUntilTimer
<1>5. CASE UNCHANGED pageVars
  BY <1>5 DEF pageVars, PageType, LiveUntilTimer
<1> QED
  BY <1>1, <1>2, <1>3, <1>4, <1>5, Touched DEF Page, PageStep, Tick

-----------------------------------------------------------------------------
(* The runs, and what an export has of them.                               *)

\* The ids of the runs: the current one is of this boot.
LEMMA CurrentRun ==
  ASSUME DeviceType, RunType, CurrentOfBoot
  PROVE  /\ current.id \in RunId \cup {NoRun}
         /\ current.id[2] \in Nat
         /\ current.state # "idle" => current.id \in RunId /\ current.id[1] = boot
         /\ \A id \in RunId : id[1] \in 1..MaxBoot /\ id[2] \in 1..MaxRun
                              /\ id = <<id[1], id[2]>>
<1>1. \A id \in RunId : id[1] \in 1..MaxBoot /\ id[2] \in 1..MaxRun /\ id = <<id[1], id[2]>>
  BY DEF RunId
<1>2. current.id \in RunId \cup {NoRun}
  BY DEF RunType
<1>3. current.id[2] \in Nat
  BY <1>1, <1>2, DeviceAssumption DEF NoRun
<1>4. current.state # "idle" => current.id \in RunId /\ current.id[1] = boot
  BY <1>2 DEF CurrentOfBoot
<1> QED
  BY <1>1, <1>2, <1>3, <1>4

\* The next run has a higher number, and is of this boot too.
LEMMA BeginEffect ==
  ASSUME DeviceType, RunType, CurrentOfBoot, Begin
  PROVE  /\ NextId \in RunId /\ NextId[1] = boot /\ NextId[2] = current.id[2] + 1
         /\ current' = [id |-> NextId, state |-> "running", result |-> "running"]
         /\ UNCHANGED <<boot, log>>
<1>1. boot \in 1..MaxBoot /\ current.id[2] \in Nat /\ boot + current.id[2] <= MaxRun
      /\ MaxRun \in Nat
  BY CurrentRun, DeviceAssumption DEF DeviceType, Begin
<1>2. current.id[2] + 1 \in 1..MaxRun
  BY <1>1
<1> QED
  BY <1>1, <1>2 DEF NextId, RunId, Begin

\* A report appends one entry; a run that is over starts no new report.
LEMMA ReportEffect ==
  ASSUME DeviceType, RunType, CurrentOfBoot, NEW id \in RunId, Report(id)
  PROVE  \E entry \in LogEntry :
           /\ log' = [log EXCEPT ![id] = Append(log[id], entry)]
           /\ entry.event = "phase_start" => log[id] = <<>>
           /\ log[id] = <<>> => ~Over(id)
           /\ UNCHANGED <<boot, current>>
<1>1. log[id] \in Seq(LogEntry) /\ id[1] = boot
  BY DEF RunType, Report
<1>2. PICK entry \in Reportable(id) :
        /\ entry.event = "run_complete" <=> ~(current.id = id /\ Busy)
        /\ log' = [log EXCEPT ![id] = Append(@, entry)]
  BY DEF Report
<1>3. log[id] = <<>> => Last(id) = Entry("none", "none")
  BY DEF Last
<1>4. log[id] # <<>> => Last(id) \in LogEntry
  <2>1. log[id] # <<>> => Len(log[id]) \in 1..Len(log[id])
    BY <1>1, EmptySeq
  <2> QED
    BY <1>1, <2>1, ElementOfSeq DEF Last
<1>5. CASE log[id] = <<>>
  <2>1. Reportable(id) = {Entry("phase_start", "none")}
    BY <1>3, <1>5 DEF Reportable, Entry
  <2>2. entry = Entry("phase_start", "none")
    BY <1>2, <2>1
  <2>3. current.id = id /\ Busy
    BY <1>2, <2>2 DEF Entry
  <2>4. ~Over(id)
    <3>1. boot \in Nat /\ current.id[2] \in Nat
      BY CurrentRun DEF DeviceType
    <3> QED
      BY <1>1, <2>3, <3>1 DEF Over
  <2>5. entry \in LogEntry
    BY <2>2 DEF LogEntry, Entry
  <2> QED
    BY <1>2, <1>5, <2>4, <2>5 DEF Report
<1>6. CASE log[id] # <<>>
  <2>1. Last(id) \in LogEntry
    BY <1>4, <1>6
  <2>2. entry \in LogEntry /\ entry.event # "phase_start"
    <3>1. CASE Last(id).event = "phase_start"
      BY <1>2, <3>1 DEF Reportable, Entry, LogEntry, Result
    <3>2. CASE Last(id).event = "fault"
      BY <1>2, <3>2 DEF Reportable, Entry, LogEntry, Result
    <3>3. CASE Last(id).event = "phase_end"
      <4>1. Last(id).result \in {"none"} \cup Result
        BY <2>1 DEF LogEntry
      <4>2. entry = Entry("run_complete", Last(id).result)
        BY <1>2, <3>3 DEF Reportable
      <4> QED
        BY <4>1, <4>2 DEF Entry, LogEntry
    <3>4. CASE Last(id).event = "run_complete"
      BY <1>2, <3>4 DEF Reportable
    <3> QED
      BY <2>1, <3>1, <3>2, <3>3, <3>4 DEF LogEntry
  <2> QED
    BY <1>2, <1>6, <2>2 DEF Report
<1> QED
  BY <1>5, <1>6

\* The runs take the steps of the service, with or without a reset.
LEMMA ServiceSteps ==
  ASSUME [Next]_vars
  PROVE  /\ [ServiceNext]_serviceVars
         /\ ~Reset => boot' = boot \/ UNCHANGED serviceVars
BY Touched DEF Reset, RunStep, ServiceNext, Begin, Abort, Report, Finish, serviceVars

\* What is over stays over.
LEMMA OverStays ==
  ASSUME DeviceType, RunType, CurrentOfBoot, [ServiceNext]_serviceVars,
         NEW id \in RunId, Over(id)
  PROVE  Over(id)'
<1>0. boot \in Nat /\ current.id[2] \in Nat /\ id[1] \in Nat /\ id[2] \in Nat
  BY CurrentRun DEF DeviceType
<1>1. CASE Begin
  <2>1. boot' = boot /\ current'.id[2] = current.id[2] + 1 /\ ~Busy
    BY <1>1, BeginEffect DEF Begin
  <2> QED
    BY <1>0, <2>1 DEF Over
<1>2. CASE Abort
  <2>1. boot' = boot /\ current'.id = current.id /\ Busy
    BY <1>2 DEF Abort, RunType, Busy
  <2> QED
    BY <1>0, <2>1 DEF Over
<1>3. CASE Restart
  BY <1>0, <1>3 DEF Restart, Over
<1>4. CASE \E other \in RunId : Report(other)
  BY <1>4 DEF Report, Over, Busy
<1>5. CASE \E result \in Result : Finish(result)
  <2>1. boot' = boot /\ current'.id = current.id /\ Busy
    BY <1>5 DEF Finish, RunType
  <2> QED
    BY <1>0, <2>1 DEF Over
<1>6. CASE UNCHANGED serviceVars
  BY <1>6 DEF serviceVars, Over, Busy
<1> QED
  BY <1>1, <1>2, <1>3, <1>4, <1>5, <1>6 DEF ServiceNext

\* The end of a run that is over stays in its log.
LEMMA ReportedStays ==
  ASSUME DeviceType, RunType, CurrentOfBoot, [ServiceNext]_serviceVars,
         NEW id \in RunId, NEW result, Over(id), EndReported(id, result)
  PROVE  EndReported(id, result)'
<1>1. CASE UNCHANGED log
  BY <1>1 DEF EndReported
<1>2. ASSUME NEW other \in RunId, Report(other)
      PROVE  EndReported(id, result)'
  <2>1. PICK entry \in LogEntry :
          /\ log' = [log EXCEPT ![other] = Append(log[other], entry)]
          /\ log[other] = <<>> => ~Over(other)
    BY <1>2, ReportEffect
  <2>2. log \in [RunId -> Seq(LogEntry)]
    BY DEF RunType
  <2>3. CASE other # id
    <3>1. log'[id] = log[id]
      BY <2>1, <2>2, <2>3
    <3> QED
      BY <3>1 DEF EndReported
  <2>4. CASE other = id
    <3>1. log[id] # <<>> /\ log[id] \in Seq(LogEntry) /\ log'[id] = Append(log[id], entry)
      BY <2>1, <2>2, <2>4
    <3>2. PICK i \in DOMAIN log[id] : log[id][i] = Entry("phase_end", result)
      BY <3>1 DEF EndReported
    <3>3. i \in DOMAIN log'[id] /\ log'[id][i] = log[id][i]
      BY <3>1, <3>2, AppendProperties, LenProperties
    <3> QED
      BY <3>2, <3>3 DEF EndReported
  <2> QED
    BY <2>3, <2>4
<1> QED
  BY <1>1, <1>2 DEF ServiceNext, Begin, Abort, Restart, Finish, serviceVars

\* The runs keep their types, and their logs start with phase_start.
LEMMA RunsKeep ==
  ASSUME DeviceType, RunType, CurrentOfBoot, StartIsFirst, [ServiceNext]_serviceVars
  PROVE  /\ current' \in [id : RunId \cup {NoRun},
                          state : {"idle", "running", "aborting", "complete"},
                          result : {"none", "running"} \cup Result]
         /\ log' \in [RunId -> Seq(LogEntry)]
         /\ CurrentOfBoot' /\ StartIsFirst'
<1>0. /\ current \in [id : RunId \cup {NoRun},
                      state : {"idle", "running", "aborting", "complete"},
                      result : {"none", "running"} \cup Result]
      /\ log \in [RunId -> Seq(LogEntry)]
      /\ \A id \in RunId : id # NoRun
  BY CurrentRun DEF RunType, NoRun
<1>1. CASE Begin
  <2>1. /\ NextId \in RunId /\ NextId[1] = boot /\ UNCHANGED <<boot, log>>
        /\ current' = [id |-> NextId, state |-> "running", result |-> "running"]
    BY <1>1, BeginEffect
  <2> QED
    BY <1>0, <2>1 DEF CurrentOfBoot, StartIsFirst
<1>2. CASE Abort
  <2>1. current' = [current EXCEPT !.state = "aborting"] /\ current.state = "running"
        /\ UNCHANGED <<boot, log>>
    BY <1>2 DEF Abort
  <2> QED
    BY <1>0, <2>1 DEF CurrentOfBoot, StartIsFirst
<1>3. CASE Restart
  BY <1>0, <1>3 DEF Restart, Idle, CurrentOfBoot, StartIsFirst
<1>4. ASSUME NEW id \in RunId, Report(id)
      PROVE  log' \in [RunId -> Seq(LogEntry)] /\ StartIsFirst' /\ UNCHANGED <<boot, current>>
  <2>1. PICK entry \in LogEntry :
          /\ log' = [log EXCEPT ![id] = Append(log[id], entry)]
          /\ entry.event = "phase_start" => log[id] = <<>>
          /\ UNCHANGED <<boot, current>>
    BY <1>4, ReportEffect
  <2>2. /\ Append(log[id], entry) \in Seq(LogEntry)
        /\ Len(Append(log[id], entry)) = Len(log[id]) + 1 /\ Len(log[id]) \in Nat
        /\ \A i \in 1..Len(log[id]) : Append(log[id], entry)[i] = log[id][i]
        /\ Append(log[id], entry)[Len(log[id]) + 1] = entry
        /\ DOMAIN Append(log[id], entry) = 1..Len(Append(log[id], entry))
        /\ DOMAIN log[id] = 1..Len(log[id])
        /\ log[id] = <<>> => Len(log[id]) = 0
    BY <1>0, <2>1, AppendProperties, LenProperties
  <2> DEFINE longer == Append(log[id], entry)
  <2> HIDE DEF longer
  <2>3. log' = [log EXCEPT ![id] = longer]
    BY <2>1 DEF longer
  <2>4. log' \in [RunId -> Seq(LogEntry)]
    BY <1>0, <2>2, <2>3 DEF longer
  <2>5. ASSUME NEW i \in DOMAIN longer, longer[i].event = "phase_start" PROVE i = 1
    <3>1. i \in 1..(Len(log[id]) + 1)
      BY <2>2 DEF longer
    <3>2. CASE i = Len(log[id]) + 1
      BY <2>1, <2>2, <2>5, <3>2 DEF longer
    <3>3. CASE i \in 1..Len(log[id])
      <4>1. longer[i] = log[id][i] /\ i \in DOMAIN log[id]
        BY <2>2, <3>3 DEF longer
      <4> QED
        BY <2>5, <4>1 DEF StartIsFirst
    <3> QED
      BY <2>2, <3>1, <3>2, <3>3
  <2>6. StartIsFirst'
    <3> SUFFICES ASSUME NEW other \in RunId, NEW i \in DOMAIN log'[other],
                        log'[other][i].event = "phase_start"
                 PROVE  i = 1
      BY DEF StartIsFirst
    <3>1. CASE other = id
      BY <1>0, <2>3, <2>5, <3>1
    <3>2. CASE other # id
      <4>1. log'[other] = log[other]
        BY <1>0, <2>3, <3>2
      <4> QED
        BY <4>1 DEF StartIsFirst
    <3> QED
      BY <3>1, <3>2
  <2> QED
    BY <2>1, <2>4, <2>6
<1>5. ASSUME NEW result \in Result, Finish(result)
      PROVE  /\ current' = [current EXCEPT !.state = "complete", !.result = result]
             /\ UNCHANGED <<boot, log>> /\ current.state # "idle"
  BY <1>5 DEF Finish, Busy
<1>6. ASSUME NEW result \in Result,
             current' = [current EXCEPT !.state = "complete", !.result = result],
             UNCHANGED <<boot, log>>, current.state # "idle"
      PROVE  /\ current' \in [id : RunId \cup {NoRun},
                              state : {"idle", "running", "aborting", "complete"},
                              result : {"none", "running"} \cup Result]
             /\ CurrentOfBoot' /\ StartIsFirst'
  BY <1>0, <1>6 DEF CurrentOfBoot, StartIsFirst
<1>7. CASE UNCHANGED serviceVars
  BY <1>0, <1>7 DEF serviceVars, CurrentOfBoot, StartIsFirst
<1>8. CASE \E id \in RunId : Report(id)
  BY <1>0, <1>4, <1>8 DEF CurrentOfBoot
<1>9. CASE \E result \in Result : Finish(result)
  BY <1>0, <1>5, <1>6, <1>9
<1> QED
  BY <1>1, <1>2, <1>3, <1>7, <1>8, <1>9 DEF ServiceNext

\* A run that completes has reported its result, or nothing.
LEMMA CompleteIsReported ==
  ASSUME DeviceType, RunType, CurrentOfBoot, [ServiceNext]_serviceVars,
         current.state = "complete" => EndReported(current.id, current.result),
         current'.state = "complete"
  PROVE  EndReported(current.id, current.result)'
<1>1. ASSUME NEW result \in Result, Finish(result)
      PROVE  EndReported(current.id, current.result)'
  <2>1. /\ UNCHANGED log
        /\ current'.id = current.id /\ current'.result = result /\ current.id \in RunId
    BY <1>1, CurrentRun DEF Finish, RunType, Busy
  <2>2. log[current.id] \in Seq(LogEntry)
    BY <2>1 DEF RunType
  <2>3. CASE log[current.id] # <<>>
    <3>1. Last(current.id) = Entry("phase_end", result)
      BY <1>1, <2>3 DEF Finish
    <3>2. Len(log[current.id]) \in DOMAIN log[current.id]
      BY <2>2, <2>3, EmptySeq, LenProperties
    <3>3. log[current.id][Len(log[current.id])] = Entry("phase_end", result)
      BY <2>3, <3>1 DEF Last
    <3>4. EndReported(current.id, result)
      BY <3>2, <3>3 DEF EndReported
    <3> QED
      BY <2>1, <3>4 DEF EndReported
  <2>4. CASE log[current.id] = <<>>
    BY <2>1, <2>4 DEF EndReported
  <2> QED
    BY <2>3, <2>4
<1>2. CASE UNCHANGED current
  <2>1. current.state = "complete" /\ current.id \in RunId /\ current.id[1] = boot
    BY <1>2, CurrentRun
  <2>2. Over(current.id) /\ EndReported(current.id, current.result)
    BY <2>1 DEF Over, Busy
  <2> DEFINE id == current.id
  <2> DEFINE result == current.result
  <2>3. id \in RunId /\ Over(id) /\ EndReported(id, result)
    BY <2>1, <2>2
  <2>4. id' = id /\ result' = result
    BY <1>2
  <2> HIDE DEF id, result
  <2>5. PICK same \in RunId : same = id
    BY <2>3
  <2>6. PICK res : res = result
    OBVIOUS
  <2>7. EndReported(same, res)'
    BY <2>3, <2>5, <2>6, ReportedStays
  <2> QED
    BY <1>2, <2>5, <2>6, <2>7 DEF id, result, EndReported
<1>3. CASE Begin \/ Abort \/ Restart
  BY <1>3 DEF Begin, Abort, Restart, Idle, RunType
<1> QED
  BY <1>1, <1>2, <1>3 DEF ServiceNext, Report, serviceVars

\* The export keeps what it needs to be coherent, until it has the events.
LEMMA RunsEndStep ==
  ASSUME DeviceType, ExportType, RunType, CurrentOfBoot, RunsEnd, [Next]_vars
  PROVE  RunsEnd'
<1>1. [ServiceNext]_serviceVars
  BY ServiceSteps
<1>2. current'.state = "complete" => EndReported(current.id, current.result)'
  BY <1>1, CompleteIsReported DEF RunsEnd
<1>3. ASSUME export' = "events", got'.state = "complete"
      PROVE  Over(run_id)' /\ EndReported(run_id, got.result)'
  <2>1. CASE ExportStep
    <3>1. GetRun /\ UNCHANGED serviceVars
      BY <1>3, <2>1 DEF ExportStep, GetStatus, GetEvents, RequestFails, After, deviceVars
    <3>2. /\ current.id = run_id /\ run_id' = run_id /\ export = "run"
          /\ got' = [got EXCEPT !.state = current.state, !.result = current.result]
      BY <1>3, <3>1 DEF GetRun, After
    <3>3. got'.state = current.state /\ got'.result = current.result /\ run_id \in RunId
      BY <3>2 DEF RunType, ExportType
    <3>4. Over(run_id) /\ EndReported(run_id, current.result)
      BY <1>3, <3>2, <3>3, CurrentRun DEF Over, Busy, RunsEnd
    <3> QED
      BY <3>1, <3>2, <3>3, <3>4 DEF Over, EndReported, Busy, serviceVars
  <2>2. CASE UNCHANGED exportVars
    <3>1. export = "events" /\ got.state = "complete" /\ UNCHANGED <<run_id, got>>
      BY <1>3, <2>2 DEF exportVars
    <3>2. run_id \in RunId /\ Over(run_id) /\ EndReported(run_id, got.result)
      BY <3>1 DEF ExportType, RunsEnd
    <3>3. PICK id \in RunId : id = run_id
      BY <3>2
    <3>4. PICK result : result = got.result
      OBVIOUS
    <3>5. Over(id)' /\ EndReported(id, result)'
      BY <1>1, <3>2, <3>3, <3>4, OverStays, ReportedStays
    <3> QED
      BY <3>1, <3>3, <3>4, <3>5 DEF Over, EndReported
  <2> QED
    BY <2>1, <2>2, Touched
<1> QED
  BY <1>2, <1>3 DEF RunsEnd

\* The export keeps its types, and is coherent once written: its events begin
\* with the phase_start only if they are all of the run's.
LEMMA ExportKeeps ==
  ASSUME DeviceType, ExportType, RunType, CurrentOfBoot, StartIsFirst, RunsEnd,
         ExportCoherent, [Next]_vars
  PROVE  /\ ExportType' /\ ExportCoherent'
         /\ got' \in [state : {"none", "idle", "running", "aborting", "complete"},
                      result : {"none", "running"} \cup Result, events : Seq(LogEntry)]
<1>0. /\ got \in [state : {"none", "idle", "running", "aborting", "complete"},
                  result : {"none", "running"} \cup Result, events : Seq(LogEntry)]
      /\ current.id \in RunId \cup {NoRun}
      /\ current.state \in {"idle", "running", "aborting", "complete"}
      /\ current.result \in {"none", "running"} \cup Result
  BY DEF RunType
<1>1. CASE GetStatus
  BY <1>0, <1>1 DEF GetStatus, HasRun, After, ExportType, ExportCoherent
<1>2. CASE GetRun
  <2>1. ExportType' /\ export' # "written"
    BY <1>2 DEF GetRun, After, ExportType
  <2>2. got' = [got EXCEPT !.state = current.state, !.result = current.result]
        \/ UNCHANGED got
    BY <1>2 DEF GetRun
  <2> QED
    BY <1>0, <2>1, <2>2 DEF ExportCoherent
<1>3. CASE GetEvents
  <2>1. /\ export = "events" /\ export' = "written" /\ UNCHANGED run_id /\ run_id \in RunId
    BY <1>3 DEF GetEvents, After, ExportType
  <2>2. PICK lost \in 0..Len(log[run_id]) :
          got' = [got EXCEPT !.events =
                    IF run_id[1] = boot THEN SubSeq(log[run_id], lost + 1, Len(log[run_id]))
                                        ELSE <<>>]
    BY <1>3 DEF GetEvents
  <2> DEFINE all == log[run_id]
  <2> DEFINE rest == SubSeq(all, lost + 1, Len(all))
  <2>3. all \in Seq(LogEntry) /\ Len(all) \in Nat /\ DOMAIN all = 1..Len(all)
        /\ lost \in 0..Len(all)
    BY <2>1, <2>2, LenProperties DEF RunType
  <2> HIDE DEF all
  <2>4. /\ rest \in Seq(LogEntry) /\ DOMAIN rest = 1..(Len(all) - lost)
        /\ \A i \in 1..(Len(all) - lost) : rest[i] = all[lost + i]
    <3>1. \A i \in (lost + 1)..Len(all) : all[i] \in LogEntry
      BY <2>3, ElementOfSeq
    <3>2. /\ rest \in Seq(LogEntry)
          /\ Len(rest) = IF lost + 1 <= Len(all) THEN Len(all) - (lost + 1) + 1 ELSE 0
          /\ \A i \in 1..(Len(all) - (lost + 1) + 1) : rest[i] = all[lost + 1 + i - 1]
      BY <2>3, <3>1, SubSeqProperties
    <3> HIDE DEF rest
    <3>3. Len(rest) = Len(all) - lost /\ DOMAIN rest = 1..Len(rest)
      <4>1. DOMAIN rest = 1..Len(rest)
        BY <3>2, LenProperties
      <4>2. Len(rest) = Len(all) - lost
        <5> DEFINE n == Len(all)
        <5>1. n \in Nat /\ lost \in 0..n
          BY <2>3
        <5>2. Len(rest) = IF lost + 1 <= n THEN n - (lost + 1) + 1 ELSE 0
          BY <3>2
        <5> HIDE DEF n
        <5>3. Len(rest) = n - lost
          BY <5>1, <5>2
        <5> QED
          BY <5>3 DEF n
      <4> QED
        BY <4>1, <4>2
    <3>4. ASSUME NEW i \in 1..(Len(all) - lost) PROVE rest[i] = all[lost + i]
      <4>1. lost + 1 + i - 1 = lost + i /\ Len(all) - (lost + 1) + 1 = Len(all) - lost
        BY <2>3
      <4> QED
        BY <3>2, <4>1
    <3> QED
      BY <3>2, <3>3, <3>4
  <2>5. got' = [got EXCEPT !.events = IF run_id[1] = boot THEN rest ELSE <<>>]
    BY <2>2 DEF all
  <2> HIDE DEF rest
  <2>6. /\ got'.state = got.state /\ got'.result = got.result
        /\ got'.events \in Seq(LogEntry)
        /\ got'.events = IF run_id[1] = boot THEN rest ELSE <<>>
    <3>1. (IF run_id[1] = boot THEN rest ELSE <<>>) \in Seq(LogEntry)
      BY <2>4, EmptySeq
    <3> QED
      BY <1>0, <2>5, <3>1
  <2>7. ExportCoherent'
    <3> SUFFICES ASSUME got.state = "complete",
                        NEW i \in DOMAIN got'.events, got'.events[i].event = "phase_start"
                 PROVE  \E j \in DOMAIN got'.events :
                          got'.events[j] = Entry("phase_end", got.result)
      BY <2>6 DEF ExportCoherent
    <3>1. got'.events = rest
      <4>1. CASE run_id[1] # boot
        <5>1. got'.events = <<>>
          BY <2>6, <4>1
        <5> QED
          BY <5>1
      <4> QED
        BY <2>6, <4>1
    <3>2. i \in 1..(Len(all) - lost) /\ all[lost + i].event = "phase_start"
      BY <2>4, <3>1
    <3>3. lost + i = 1 /\ lost + i \in DOMAIN all
      <4>1. lost + i \in DOMAIN all
        BY <2>3, <3>2
      <4> QED
        BY <2>1, <3>2, <4>1 DEF StartIsFirst, all
    <3>4. lost = 0
      BY <2>3, <3>2, <3>3
    <3>5. PICK j \in DOMAIN all : all[j] = Entry("phase_end", got.result)
      <4>1. all # <<>>
        BY <3>3
      <4> QED
        BY <2>1, <4>1 DEF RunsEnd, EndReported, all
    <3>6. j \in DOMAIN rest /\ rest[j] = all[j]
      BY <2>3, <2>4, <3>4, <3>5
    <3> QED
      BY <3>1, <3>5, <3>6
  <2> QED
    BY <1>0, <2>1, <2>5, <2>6, <2>7 DEF ExportType
<1>4. CASE RequestFails
  BY <1>0, <1>4 DEF RequestFails, ExportType, ExportCoherent
<1>5. CASE UNCHANGED exportVars
  BY <1>0, <1>5 DEF exportVars, ExportType, ExportCoherent
<1> QED
  BY <1>1, <1>2, <1>3, <1>4, <1>5, Touched DEF ExportStep

-----------------------------------------------------------------------------
(* The invariant, and the properties it gives.                             *)

\* What every reachable state satisfies.
BenchIInv ==
  TypeOK /\ BenchInv /\ ServesOnItsAp /\ ExportCoherent /\ RecoveryGenuine /\ LiveIsFresh

\* The device boots for the first time, and its client has asked nothing.
LEMMA BenchInitially == Init => BenchIInv
<1> SUFFICES ASSUME Init PROVE BenchIInv
  OBVIOUS
<1>0. /\ MaxBoot \in Nat \ {0} /\ AP_START_TIMEOUT \in Nat /\ MaxUptime \in Nat
      /\ MaxWait \in Nat
  BY DeviceAssumption, PollAssumption
<1>1. DeviceType /\ ToldOnce /\ ServesOnItsAp
  <2>1. 1 \in 1..MaxBoot /\ 0 \in 0..AP_START_TIMEOUT /\ 0 \in 0..MaxUptime
    BY <1>0
  <2>2. /\ boot = 1 /\ stage = "nvs" /\ radio = "off" /\ ap_state = "starting"
        /\ started = FALSE /\ waited = 0 /\ uptime = 0
    BY DEF Init, DeviceInit, ServiceInit, PowerUp
  <2> QED
    BY <2>1, <2>2 DEF DeviceType, ToldOnce, ServesOnItsAp
<1>2. ExportType /\ ExportCoherent
  <2>1. CASE export = "status" /\ run_id = NoRun
    BY <2>1 DEF ExportType, ExportCoherent
  <2>2. CASE export = After["start"] /\ run_id \in RunId
    <3>1. export = "run"
      BY <2>2 DEF After
    <3> QED
      BY <2>2, <3>1 DEF ExportType, ExportCoherent
  <2> QED
    BY <2>1, <2>2 DEF Init, ExportInit
<1>3. RecoveryType /\ UptimeGrows /\ RecoveryGenuine
  <2>1. /\ event = "baseline" /\ uptime_before_ms = Unknown /\ due = FALSE /\ since = 0
        /\ status = [boot |-> 0, uptime |-> 0] /\ before = 0
    BY DEF Init, RecoveryInit, NoStatus
  <2>2. /\ Unknown \in 0..Unknown /\ 0 \in 0..MaxWait /\ 0 \in 0..MaxBoot
        /\ 0 \in 0..MaxUptime
    BY <1>0 DEF Unknown
  <2> QED
    BY <2>1, <2>2 DEF RecoveryType, UptimeGrows, RecoveryGenuine
<1>4. PageType /\ LiveUntilTimer /\ LiveIsFresh
  <2>1. /\ age = [n \in Endpoint |-> Never] /\ rounds = <<Endpoint>>
        /\ pollIn = PollEvery /\ freshDue = FALSE /\ badge = "connecting"
    BY DEF Init, PageInit
  <2>2. Endpoint \in (SUBSET Endpoint) \ {{}}
    <3>1. Endpoint # {} /\ Endpoint \in SUBSET Endpoint
      BY PageAssumption
    <3> QED
      BY ONLY <3>1
  <2>3. <<Endpoint>> \in Seq((SUBSET Endpoint) \ {{}}) /\ Len(<<Endpoint>>) = 1
    BY <2>2
  <2>4. Never \in 0..Never /\ MaxRounds >= 1 /\ PollEvery \in 0..PollEvery
    BY PageAssumption DEF Never, Old
  <2> QED
    BY <2>1, <2>3, <2>4 DEF PageType, LiveUntilTimer, LiveIsFresh
<1>5. RunType /\ CurrentOfBoot /\ StartIsFirst /\ RunsEnd
  <2>1. /\ current = Idle /\ log = [id \in RunId |-> <<>>] /\ got = NoPayload
        /\ client \in {"export", "recovery", "page"} /\ export \in {"status", "run"}
    BY DEF Init, DeviceInit, ServiceInit, ExportInit, After
  <2>2. <<>> \in Seq(LogEntry)
    BY EmptySeq
  <2> QED
    BY <2>1, <2>2 DEF Idle, NoPayload, RunType, CurrentOfBoot, StartIsFirst, RunsEnd
<1> QED
  BY <1>1, <1>2, <1>3, <1>4, <1>5 DEF BenchIInv, BenchInv, TypeOK

\* However boots, runs, requests, polls and timers follow each other, the four
\* parts of the bench keep their invariants.
THEOREM BenchInvariant == Spec => []BenchIInv
<1>1. ASSUME BenchIInv, [Next]_vars PROVE BenchIInv'
  <2>1. /\ DeviceType /\ ExportType /\ RecoveryType /\ PageType
        /\ RunType /\ CurrentOfBoot /\ StartIsFirst /\ RunsEnd
        /\ ToldOnce /\ UptimeGrows /\ LiveUntilTimer
        /\ ServesOnItsAp /\ ExportCoherent /\ RecoveryGenuine
    BY <1>1 DEF BenchIInv, BenchInv, TypeOK
  <2>2. DeviceType' /\ ToldOnce' /\ ServesOnItsAp'
    BY <1>1, <2>1, DeviceStep
  <2>3. RecoveryType' /\ UptimeGrows' /\ RecoveryGenuine'
    BY <1>1, <2>1, RecoveryKeeps
  <2>4. PageType' /\ LiveUntilTimer'
    BY <1>1, <2>1, PageKeeps
  <2>5. LiveIsFresh'
    <3>1. age' \in [Endpoint -> Nat] /\ STALE \in Nat
      BY <2>4, PageAssumption DEF PageType, Never, Old
    <3> QED
      BY <2>4, <3>1 DEF LiveUntilTimer, LiveIsFresh
  <2>6. ExportType' /\ ExportCoherent' /\ RunsEnd'
    BY <1>1, <2>1, ExportKeeps, RunsEndStep
  <2>7. RunType' /\ CurrentOfBoot' /\ StartIsFirst'
    BY <1>1, <2>1, ExportKeeps, RunsKeep, ServiceSteps, Touched DEF RunType
  <2> QED
    BY <2>2, <2>3, <2>4, <2>5, <2>6, <2>7 DEF BenchIInv, BenchInv, TypeOK
<1> QED
  BY <1>1, BenchInitially, PTL DEF Spec

\* Every variable keeps its type.
THEOREM BenchTypeCorrect == Spec => []TypeOK
<1>1. BenchIInv => TypeOK
  BY DEF BenchIInv
<1> QED
  BY <1>1, BenchInvariant, PTL

\* The server answers only on a device whose access point is up, whenever the
\* event task tells of it (start_wifi, app_main).
THEOREM ServesOnlyOnItsAp == Spec => []ServesOnItsAp
<1>1. BenchIInv => ServesOnItsAp
  BY DEF BenchIInv
<1> QED
  BY <1>1, BenchInvariant, PTL

\* What dragonbench export writes as a complete run agrees with its events,
\* although three requests are answered at different times (export, in the CLI).
THEOREM ExportIsCoherent == Spec => []ExportCoherent
<1>1. BenchIInv => ExportCoherent
  BY DEF BenchIInv
<1> QED
  BY <1>1, BenchInvariant, PTL

\* With a baseline, the reset tool never takes a status of the boot before for
\* the recovery (poll_status_for_recovery), for any timeout.
THEOREM RecoveryIsGenuine == Spec => []RecoveryGenuine
<1>1. BenchIInv => RecoveryGenuine
  BY DEF BenchIInv
<1> QED
  BY <1>1, BenchInvariant, PTL

\* A live badge on the landing page means fresh data, however many rounds of
\* fetches hang (updateFreshness).
THEOREM LiveIsAlwaysFresh == Spec => []LiveIsFresh
<1>1. BenchIInv => LiveIsFresh
  BY DEF BenchIInv
<1> QED
  BY <1>1, BenchInvariant, PTL
=============================================================================
