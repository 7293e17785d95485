# DragonBench in TLA+

A verification project for DragonBench: the firmware (`src/firmware`), and the
programs around it that act on what it answers: the two pages it serves, the
peer and the export of the CLI, and the recovery poll of the reset tool.
Modules are checked with TLC on small instances; what matters most is proved with
TLAPS for every value of the constants. `main.c` below is
`src/firmware/targets/esp32s3/main/main.c`.

## The system

DragonBench turns an ESP32-S3 board into a device under test: a client asks it
over HTTP to execute a *workload* (idle, CPU, flash, NVS, network, controlled
reboot) and external instruments measure the board meanwhile. The firmware runs
these tasks over shared memory:

| task | code | touches |
|---|---|---|
| `app_main` | main.c 1156-1203 | everything, once, in order; emits `boot`, `reset_reason`, `ready` |
| HTTP server (one task) | main.c 325-566, 905, 1005-1031 | `current_run`, the ring (read), station status (read), the config queue |
| one workload task per run | main.c 264-323 | `current_run`, the ring, the RTC marker |
| `sta_config_task` | main.c 969-1003 | station variables, retry timer, driver, NVS |
| event loop (`wifi_event`) | main.c 1052-1089 | station and AP variables, retry timer, driver |
| `esp_timer` (`sta_retry_fire`) | main.c 950-955 | station state, driver |

`state_lock` protects `current_run` and the event ring. The station variables and
`event_seq` have no lock.

### Components

**Run engine** (`db_run.c`, main.c 138-152, 264-323, 443-515, 1159-1167).
State: `current_run` (id, workload, state, abort flag, result), `run_counter`,
`boot_nonce`, the locals of each workload task, the RTC marker and
`previous_reboot_run_id`. Operations: begin (POST runs), abort (POST abort),
finish (workload task, or the error path of POST runs), controlled restart, any
other reset. Hard: a workload task outlives its run (it finishes the run, then
reports `run_complete`, then perhaps restarts the chip 250 ms later); the abort
flag is read several times; `db_run_finish` takes no run id. Correct when a task
works only on its own run, an acknowledged abort decides the result, events tell
one coherent story per run, the marker names the right run, and no run blocks
the engine.

**Run request parsing** (main.c 443-471, `db_workload_parse`,
`db_request_validate`). No state. Correct when a run is what the body asked for:
numbers are doubles on the way to 16 and 32-bit fields.

**Workload bodies** (main.c 145-262). State: the locals of a loop that goes on
until a deadline or an abort, and what it works on: the scratch partition or the
inactive OTA slot, the key `payload` in NVS, or one TCP connection. Hard: the
flash outlives resets and may fail at every step; offsets wrap; `send` and `recv`
have no timeout. Correct when the running image is untouched, blocks are erased
before they are written, the reported bytes were really written or sent, the
credentials' neighbour is cleaned up, and a run ends.

**Event ring** (main.c 105-136, 522-564). State: ring slots, head, count,
`event_seq`. Operations: emit (several tasks), snapshot and send (HTTP task).
Hard: numbering happens outside the lock, transmission happens after it, lines
have a maximum length. Correct when a response is a coherent view of the latest
lines, and a slow client stalls nobody.

**Station configuration and retry** (main.c 911-1031, 1072-1088;
`db_network.c`). State: the submission queue of length one, the published
request id and result, station state, reason, retry count, `sta_reconfiguring`,
the retry timer, NVS, the driver. Hard: four tasks without a lock; driver events
are handled later than they happen; a submission may replace a pending one; ids
wrap. Correct when each accepted submission is answered, what reads as applied is
in force, a lost link is always retried, and the old link does not read as the
new one.

**Boot and access point** (main.c 1091-1203). An ordered start that stops before
the HTTP server when the access point does not come up.

**Landing page script** (main.c 691-785). State: the time of the last answer per
endpoint, rounds of fetches under way, the freshness badge. Hard: fetches have no
timeout and rounds overlap. Correct when the badge does not call old data live.

**Setup page script** (main.c 787-900). State: the request it waits for, a fetch
in flight. Hard: late, lost and reordered answers, ids that wrap or start again
after a reset. Correct when what it says of a submission is true.

**CLI** (`cli/dragonbench/main.py`): one request per command, except `export`,
which joins three while the device goes on, and `traffic-peer`, the other end of
the network workloads. **Reset tool** (`tools/reset_characterization.py`):
triggers a reset and polls the status until it is one of the boot after it; the
device may answer for a second before it resets. Correct when the payload, the
counts and the recovery they report as evidence are genuine. **Other tools**
(`tools/phase2_*.py`, `analyze_summary.py`): serial capture and log analysis.

## Modules

| module | models | kind |
|---|---|---|
| `RunService` | what clients are promised about runs and their events | abstract specification |
| `RunLifecycle` | run engine, reboot marker, resets | state machine, 11 variables; implements `RunService` |
| `RunLifecycleProofs` | its runs, tasks and aborts | TLAPS |
| `RunServiceProofs` | its events and reboot marker, and that it implements `RunService` | TLAPS |
| `EventLog` | what clients are promised about the event stream | abstract specification |
| `EventRing` | `emit_event`, `events_get`, `state_lock` | state machine; implements `EventLog` |
| `EventRingProofs` | its theorems, with the refinement | TLAPS |
| `RequestId` | serial-number arithmetic of request ids, for every word size | operators |
| `RetryBackoff` | `db_sta_retry_delay_ms` | operators, one recursive function |
| `DbNetwork`, `DbNetworkProofs` | the two as their callers use them: ids issued around the wrap, retries in a row | state machine, TLAPS |
| `StationService` | what clients are promised about submissions | abstract specification |
| `StationConfig` | station configuration, retry, driver | state machine over four tasks; implements `StationService` |
| `StationConfigProofs` | its theorems, with the safety part of the refinement | TLAPS |
| `SetupPage` | the script of `/setup`, on top of `StationService` | state machine over page, device and another client |
| `SetupPageProofs` | its theorems | TLAPS |
| `RunRequest` | the checks of a run request | operators |
| `BodyLoop` | what workload bodies share | variables, operators |
| `FlashCycle` | `partition_cycle`, `run_nvs`, the flash | actions over `BodyLoop` |
| `Traffic` | `run_network`, `traffic_peer`, TCP between them | actions over `BodyLoop` |
| `Workload` | `runs_post` to verdict: the four modules above composed, with resets | state machine |
| `WorkloadProofs` | its theorems | TLAPS |
| `Device` | boot, access point, and `RunService` after it | actions over `RunService` |
| `CliExport`, `RecoveryPoll`, `Dashboard` | export, reset tool, landing page | actions over `Device` |
| `Bench` | the device with one of these clients | state machine |
| `BenchProofs` | its theorems | TLAPS |
| `MCRunLifecycle`, `MCEventRing`, `MCStationConfig`, `MCSetupPage`, `MCWorkload`, `MCBench` | small instances | TLC |

### RunLifecycle and RunService

One section of code between a take and a give of `state_lock` is one action;
each read of the flag (`should_abort`), each event and each write of the marker
outside the lock is an action of its own, and they interleave. The handlers of
the HTTP server never overlap each other (`httpd` is its place inside
`runs_post`: creating the task, or finishing the run it could not start a task
for). `task[w]` is a task handle with the program counter and locals of
`workload_task`:

    start -> phase_start -> body -> verdict -> fault_check -> (fault) ->
    phase_end -> finish -> run_complete -> reboot_check -> (marker_magic ->
    marker_id -> restart)

`RunService` is the engine as a client sees it: id, state and result of the
current run, and the events of each run in their order. It says which event may
come next and when: `fault` and `phase_end` before the run ends, with the result
it ends with, `run_complete` only after it. `RunsKept` maps `current_run` and
`log` to it; everything else a task does is a stutter.

A body is abstracted to the ways its loop can end: at the deadline, aborted, or
failed. `BodyDeadline` keeps the difference between bodies that look at the abort
flag once more after the loop and those of `wait_abortable` that do not.
`run_id` is a pair of boot and counter (two boots drawing the same 32-bit
nonce are left out). `log`, `ack` and `outcome` are history variables. `log` is
the event lines of a run in the order its task emits them (the serial log; the
ring is `EventRing`). `ack` says whether an abort was acknowledged before or
after the task decided its result. A hard reset may happen in any state; power
loss leaves an arbitrary magic in RTC memory, a panic leaves it alone. Abort and
status requests that are refused change nothing and have no action.

### EventRing and EventLog

`++event_seq` on a 64-bit variable by tasks of equal standing is a data race:
`SeqLoad` and `SeqStore` interleave (torn halves are left out: a carry between
the words needs 2^32 events). `EmitTake` and `Commit` are the section under
`state_lock`; `Commit` writes the slot's own `seq` from `event_seq` as it is by
then. A line is its number, its emitter, and what happened to its text: JSON,
cut at 511 bytes, or `{}` when it could not be printed. `events_get` allocates
(or answers 503), copies under the lock, sends line by line after it, and stops
at the first failed send. The two chunks of a line are one step.

`EventLog` keeps the latest `Capacity` lines and serves one of its views. The
refinement maps the log to the ring read from its oldest slot
(`snapshot_events_locked`) and the view being served to the copy.

### StationConfig

One action is what a task does up to its next access that matters to a decision
of another task; `sta_state` and `sta_last_reason`, by which no task decides, are
written together with their neighbours. `published` is the pair that a status
shows; its two parts are written by two actions. Reading it, again in two steps
and in the opposite order, is the business of `SetupPage`. A submission with
the password of the one before it is left out: the properties tell submissions
apart by it. `sta_retry_count++`
is one step and counts up to the number of fast retries, which is all the
control depends on (the delays themselves are `RetryBackoff`). Delays of 100 and
300 ms are left out: nothing orders other tasks after them. `MaxAttempts` stands
for the 20 tries of `configure_sta`.

The driver is external and modelled from how main.c uses it:
`esp_wifi_connect` does nothing unless the station is idle, and an idle driver
always accepts it;
`esp_wifi_disconnect` drops the link and queues a disconnect with reason
ASSOC_LEAVE; `esp_wifi_set_config` is refused while connecting; a link can come
up or be lost at any time, and its events reach `wifi_event` later. A write of
`nvs_set_str` may reach the flash without `nvs_commit`. One assumption is made
about the network: a peer does not itself disconnect the station with reason 8,
which the firmware takes for its own leave and does not retry. And one about the
driver: `sta_retry_fire` and `sta_schedule_retry` ignore what `esp_wifi_connect`
returns (main.c 954, 961). After an error there is no event and nothing is
scheduled, so the link would stay down; `RetryNotLost` and `LostLinkRetried` rest on
an idle driver returning none.

Ids start at 0 as in the firmware; their wrap is the subject of `RequestId`,
whose modulus is a constant (2^32 in the firmware), and of `SetupPage`.

`StationService` is the station as a client sees it: a counter, one waiting and
one submission being applied, and the published pair, whose two halves still
change one after the other. `Service` in `StationConfig` maps the queue and the
program counter of `sta_config_task` to it; everything else the four tasks do is
a stutter.

### SetupPage

The page against `StationService` (by `ServiceKept`, what the firmware does is one
of its behaviours). Each callback of the script is an action: `FormSubmit`, the
three ways a submission ends (`PostAnswered`, `PostRefused`, `PostFails`), `Poll`,
`PollReply` with `render`, and `PollFails` (no connection, bad JSON, or the abort
after four seconds). A submission given up by the page may still reach the device.
Another client submits too. `serial` numbers the accepted submissions across
resets and is history: it says which submission an id or a result really stands
for. Two things are assumed. A reset breaks every connection, so no answer from
before a reset is delivered after it. And a device that resets has issued few
ids: to a page that waits for an id above 2^31 the 0 published after a reset
reads as newer, and the page would say "replaced"; 2^31 submissions are not
reached by hand.

### RunRequest, BodyLoop, FlashCycle, Traffic, Workload

`RunRequest` translates the checks of `runs_post` field by field. A JSON number is
a double; the model counts it in halves, so that an odd number is a fraction, and
the widths of the C types are constants, so that a cast wraps (`Stored`).
`Documented` is the schema of `openapi.yaml` field by field, and no more: `rate_bps`
has no maximum in it, and `workload` is any string. Where the schema promises more
than the firmware gives is a definition of its own, `OnlyDocumented`: an unknown
workload, a `rate_bps` above 2^32 - 1 (refused by main.c 464), a network workload
without a peer. `RequestHonoured` says that nothing else which the schema allows is
refused; it does not say that code and schema agree about these three. Numbers are
judged; a field of another JSON type is passed over, and its default runs
(`AsAsked`). Bodies of `JSON_BODY_MAX` bytes and more, bodies cut short on the way,
and hosts of more than 253 bytes in at most 253 characters are left out.

`Workload` starts with a POST and goes on to the verdict of `workload_task`; a
client whose request was accepted asks for the same workload again, and a reset
may come while a body runs. What happens to a run outside its body is
`RunLifecycle`'s business. Bodies run one at a time and share the program counter,
the two counters and the verdict of `BodyLoop`.

`FlashCycle` has one action per driver call. The flash is kept block by block
(`image`, `old`, `blank`, `data`, `broken`, `mixed`) and outlives runs and resets.
Each call may fail, and a failing one may have left anything behind; a worn block
takes data and does not keep it. Writing a block that is not blank gives
`mixed`, which is what must never happen. `fault` is history. An erase block is one
`IO_BLOCK`, as in the code, so every block is erased; the 512 bytes `run_nvs`
writes at a time count as a block too.

`Traffic` has both ends of a connection. TCP is external: at most `Buffer` units
on their way in each direction; a closed end answers data with a reset; lwIP and
the host reset a connection closed with unread data; the link may be lost for
good, and then nobody is told. The peer may be busy with another device
(`listen(1)`), and its loop, its one-second timeout and its deadline are those of
`traffic_peer`. Delays for `rate_bps` let time pass and change nothing.

### Device, CliExport, RecoveryPoll, Dashboard, Bench

`Device` is `app_main` in order: `nvs_flash_init`, `start_wifi` up to
`esp_wifi_start`, the wait for the bit that `wifi_event` sets, the reading back,
`start_http`. Each may fail in the way the code has for it: `ESP_ERROR_CHECK`
panics and boots again, `start_wifi` returns false and `app_main` stops before
the HTTP server. The access point starts early, late, badly or never, and
`wifi_event` sets its state (`ApStart`) and then the bit (`ApStartedBit`), so
`start_wifi` may give up between the two. Once it
serves, its runs are those of `RunService` (by `RunsKept`, what the engine does
is one of its behaviours).

`CliExport` makes the three requests of `export` (or two, with an id given) one
after the other. The ring may have lost any number of the oldest lines of a run,
and all lines of earlier boots; those it has are taken to be whole, as a line that
was cut or emitted as `{}` says nothing of its run. `RecoveryPoll` reads the baseline, triggers
(`HardResetPulse` at once, `TriggerSoftware` as a run whose restart comes later),
and polls; the clock of the device and of the poll advance together. `Dashboard`
has the two intervals and the rounds of fetches, each of which settles when it
likes, or never.

`Bench` composes the device with one of the three, chosen at the start: they do
not interact with each other. Power may be cycled at any time.

## Runs

| run | instance | shows |
|---|---|---|
| `RunEngine` | 2 task handles, 2 runs in the first boot and 1 in the second; idle, receiving, flash and rebooting workloads; fair | type, `OwnRun`, `RunInv`, `AbortHonoured`, `PreviousRunTruthful`, `RunStateOrder`, `OutcomeFinal`, `RunTerminates`; the engine implements `RunService` (`RunsKept`) |
| `RingLog` | 2 emitters, 2 slots, 3 events, fair | type, `EventRing` implements `EventLog` (`LogSpec`), `SeqConsecutive`, `EmitterNeverStalls` |
| `DbNetwork` | modulus 32 from every start, 120 retries in a row | `LaterIsNewer`, `NewerIsAhead`, `DelayAsDocumented` |
| `Sta` | 2 submissions, 2 passwords, 2 tries, 1 event of the network waiting, fair | type, `AppliedIsInForce`, `RetryNotLost`, `LostLinkRetried`; `StationConfig` implements `StationService` with its fairness (`ServiceKept`) |
| `Page` | 2 submissions of the page under way, 2 accepted in all, modulus 6 from every start, or 1 reset, fair | type, `ReplacedIsTrue`, `FailureNotOlder`, `PollsGoOn`, `ReplacementNoticed` |
| `Workload` | every workload, host and field value at an edge; 3 runs and resets; 2 blocks; counters to 7 units, blocks of 2, buffers of 1; fair | type, `RequestHonoured`, `RunningImageIntact`, `ErasedBeforeWritten`, `FlashReportTrue`, `NvsLeftClean`, `EvidenceAgrees`, `NetworkRunEnds` |
| `Bench` | 2 runs, 3 boots, a wait of 2 ticks for the access point, polls for 3, baseline up to 2, 2 endpoints, stale after 2, 2 rounds, fair | type, `ServesOnItsAp`, `BootSettles` (once resets stop), `ExportCoherent`, `RecoveryGenuine`, `LiveIsFresh` |

Two runs and two task handles are what an older task overlapping a newer run
needs; a third run can only begin after the second has finished, in the same
situation again. Two boots are what a marker passes between, and one run in the
second is enough to be confused with one of the first. Three events in two slots
reach every pair of head and count the ring can have, an empty, a partly full, a
full and a wrapped one, with a response begun in each. Two submissions are what a
replacement of a pending one, and a request id next to another's result, need;
one network with two passwords tells any two submissions apart.
Two tries let the driver refuse a configuration and take it afterwards.
`MaxQueued` bounds what the network adds to the event queue;
`esp_wifi_disconnect` adds one more, so an old event and the leave wait together.
With modulus 6 and two submissions from every start, the ids of a page wrap past
0 and past the half of the word.

In `Workload`, a loop goes on while it has counted less than seven units, so four
blocks are written: two laps of a partition of two, the second over the first. Three runs and resets let a run stop in any
state, a reset come, and another run find what it left; flash is the only state
they share. A buffer of one unit below a block of two makes every read short,
lets `sendall` stop in the middle of a block, and fills both directions of an
echo, so that both ends wait to send. A connection carries at most four blocks
each way. In `Bench`, uptimes are told apart up to 6, which is more than baseline
and wait together (`PollAssumption`), and only for the client that looks at them.
Ages are told apart beyond three times `STALE`, where the badge changes last, and
two rounds are what overlapping needs. The client that triggers resets may use
one boot more than the others.

Deadlock checking is off because every instance really stops: bounded runs,
events or submissions have been used up, the device waits for requests, or its
access point has failed and `app_main` has returned.

### Disagreements found

Each of these runs checks one statement of the repository and finds it broken:

| run | statement | what happens |
|---|---|---|
| `RunFault` | `tests/test_contract.py:145`, failures emit `fault` before `phase_end` | the abort flag is read once for the result and again for the fault (main.c 307, 310): an abort in between gives `fail` without `fault` |
| `RunAbortReboot` | `openapi.yaml:36`, "Request cooperative abort" | a run reported `aborted` still reboots: main.c 316 reads the flag of the run that is current by then |
| `RingLines` | `openapi.yaml:39`, "application/x-ndjson" | a line longer than 511 bytes (a long `host`) is cut |
| `StaOldLink` | main.c 995, "only once the old connection can no longer read as current" | a retry already decided, or a `GOT_IP` still queued, makes the old link read as connected after that |
| `PageFailure` | `openapi.yaml:51`, the id is echoed "once that submission has been processed, with network.sta_config_result" | id and result are two unlocked reads against two unlocked writes: the page says "Could not apply" about a submission that was applied, because the next one failed |

Behaviours the models contain and no property judges, because the repository says
nothing that settles them:

* a run accepted between `db_run_finish` and `esp_restart` is cut off by the older
  run's restart;
* overlapping tasks commit event numbers out of order or twice: the race at
  main.c 110 is in `EventRing`, no document promises anything about the numbers of
  calls that overlap, and `SeqConsecutive` is stated for calls that do not;
* the second NVS write of `nvs_save_sta` fails after the first one succeeded, and
  the next boot finds the new ssid with the old password;
* a `duration_ms`, `port`, `rate_bps` or `host` of the wrong JSON type, and a
  host of more than 253 characters, all of which `openapi.yaml` forbids, are not
  refused: the run is made with the default, or refused for having no peer if it is a
  network run;
* a persistent failure at an `ESP_ERROR_CHECK` (main.c 1157, 1048-1049) makes the
  device panic and boot for ever; `BootSettles` assumes that resets stop and claims
  nothing of it;
* with a baseline of a few seconds, a status read late in the new boot has an
  uptime that is no lower, and the tool records it as a stale one of the old
  session (`Stale` in a later boot);
* a software trigger whose request fails ends the reset tool with an exception,
  and the records of the events before it are not summarised;
* a source or echo peer ends with an uncaught `ConnectionResetError` when the
  device closes first, and any peer with an uncaught timeout when nobody connects,
  so no counts are reported; a sink does not (`EvidenceAgrees`);
* an access point that starts after `start_wifi` has given up sets `ap_state` to
  active on a device that never starts its HTTP server.

Seen while reading and outside the models: a timeout while the CLI reads a body is
not the `URLError` that `main.py:40` catches; an error of `esp_wifi_connect` is ignored
(main.c 954, 961, 1185) and ends the retries until something else starts them again; `--duration` below 0.001 becomes a
`duration_ms` of 0, which the device refuses;
a fetch of the landing page that answers late writes an older state over a newer
one, as the badge speaks of the time of answers only; a first-time ssid of 32 characters in Kconfig
is refused by `configure_sta` at boot, and the access point does not start either.

A disagreement that a property states as its exception: `openapi.yaml:29` gives
`rate_bps` the type integer with minimum 0 and no maximum, and main.c 464 refuses
every value above 2^32 - 1 with 400. `RequestHonoured` passes because `OnlyDocumented`
names these bodies, not because the two agree; the same holds of a network workload
without `host` or `port`, which the schema allows.

## Fairness

`RunLifecycle!FairSpec` is weakly fair to each workload task and to the HTTP task
inside `runs_post`: FreeRTOS runs every ready task, tasks are created with the
same priority, and the deadline of a body always comes. Clients, resets and the
bodies of network workloads get none: `send` and `recv` have no timeout, so
`RunTerminates` leaves those workloads out. `EventRing!FairSpec` is weakly fair
to the steps of emitters and of the copy, and strongly fair to taking
`state_lock`, because a FreeRTOS mutex queues its waiters; no send need ever
return. `StationConfig!FairSpec` is weakly fair to the three tasks; the driver
and the network owe nothing. `SetupPage!FairSpec` is weakly fair to the page's two
timers (`setInterval` for `Poll`, the abort for `PollFails`) and to the device's
work on what it has accepted; nobody has to answer. `ReplacementNoticed` therefore
assumes that some polls are answered, as a condition in the property.
`Workload!FairSpec` is weakly fair to the tasks of both ends of a connection and
to both deadlines; the link, the clients and the hardware owe nothing, so
`NetworkRunEnds` speaks of a network that works. `Bench!FairSpec` is weakly fair to
`app_main`, to time and to the timers and polls of the client; the event that says
that the access point has started need never come. Nothing in the code ends a
series of panics or power cycles, so `BootSettles` has it as a premise
(`ResetsStop`, that `boot` changes no more from some time on): what it shows is that the
last boot, whichever that is, gets through start_wifi's wait to an end. `MaxBoot` and
`BootBound` limit only the boots before that one; a bound alone must not be the
reason why a liveness property holds.

## Proofs

Every invariant that a run checks is also a theorem of the specification, and so
are the two action properties and the refinements `RunsKept` and `LogSpec`; of
`ServiceKept` the safety part is. Each module that is proved about ends with the
strengthening its proof needs, in named parts, which TLC was let check on the
instance of the run first. In each proof module there is one lemma per action or
group of actions; the inductive step cites them by case.

The assumptions on the constants are those a declaration states: bounds are
natural numbers, sizes are positive, the modulus is even and above 4. Those that
say more: the bodies of `Workload` have fields that JSON can have (`BodyAssumption`);
fewer than half the ids are issued within what is compared (`PageAssumption`,
`StationAssumption`), as db_network.h demands; uptimes are told apart beyond the
wait (`PollAssumption`); no emitter is the HTTP task (`RingAssumption`); the
landing page asks something (`PageAssumption` of `Dashboard`).

### Run engine

`RunLifecycleProofs`, for every set of task handles and workloads and any
number of runs and boots:

* `TypeCorrect`: `TypeOK` is an invariant. One lemma per group of steps, since
  every other proof rests on it.
* `Invariant`: `TypeOK /\ RunInv` is inductive. The code nowhere checks that a
  task's run is current; `OwnRun` holds because a run can begin only when
  `current_run` is idle or complete, and every active task keeps it busy. That
  needs `Creating` (no task is active between begin and creation), `CurrentRun`
  (`current_run` is the latest of this boot and its abort flag agrees with the
  acknowledgements), `Untouched` (nothing is recorded for later ids) and, for
  `AbortHonoured`, `VerdictAgrees` (what a task has decided agrees with the
  acknowledgement it will be judged by when it finishes). TLC checks the same
  conjunction as an invariant of `RunEngine`.
* `TaskKeepsItsRun` (`OwnRun`), `AbortsHonoured` (`AbortHonoured`) from it.
* `ResultsFinal` (`OutcomeFinal`) and `RunsMoveForward` (`RunStateOrder`): what
  each step does to `outcome` and `current_run`, under the invariant.

`RunServiceProofs` builds on that invariant:

* `LogInvariant`: `LogInv` says what the log of a run ends with at each program
  counter of its task (`Reported`), that a task which outlives its run has a finished
  run of this boot to itself (`Outlives`), that a run without a copy in a task has
  said nothing (`Unreported`), and that a task about to restart leaves a marker which
  names a run of this boot that has reported `run_complete` (`MarkerTrue`,
  `PreviousTrue` after the boot).
* `PreviousRunIsTrue` (`PreviousRunTruthful`) from `PreviousTrue`: power loss or a
  panic may leave the magic, but then the reset reason gives it away.
* `EngineKeepsService` (`RunsKept`): `log` and `current_run` change only in steps of
  `RunService`, and only when that allows the event.

### Event ring

`EventRingProofs`, for any capacity and any number of emitters and events:
`RingInvariant` (`CallsCounted`: no number runs ahead of the calls; `LinesReal`: every slot
in use holds a line; `InTurn`: without overlaps only one
call is under way and its number is the latest; `Responding`: what the client has
is the beginning of the copy), and from it `RingTypeCorrect`,
`NumbersAreConsecutive` (`SeqConsecutive`) and `RingImplementsLog` (`LogSpec`). The
heart of the last is that reading the slots from the oldest on, modulo the
capacity, commutes with a commit, whether the ring is full or not.

### Request ids and backoff

`DbNetworkProofs`, for every even modulus above 4: the next id is never zero
(`NextIsId`), the order is strict (`NewerIsStrict`), the next id is newer, the wrap
included (`NextIsNewer`). `LaterIsAlwaysNewer` and `NewerIsAlwaysAhead` follow from
`IdInv`: as many ids were issued as lie between the two, zero left out. The second
says that the comparison of unsigned differences is modular counting.

`DelayIsAsDocumented` speaks of the recursive `doubled`, for every attempt. A
function that satisfies its equation is given in closed form (`LoopEnds`), so
`doubled` satisfies it (`Doubling`); the induction over the attempts is the one over
the steps of the station (`RetryInv`: where the loop has got to by this retry).

### Station

`StationConfigProofs`, for any submissions, passwords and tries. `StationInv` has
four parts:

* `TriesLeft`: as long as the task still configures, it has an attempt left;
* `IdsKnown`: no id is ahead of the counter, and each stands for its credentials;
* `AppliedByTask`: what the task has applied is what the driver has, and what it
  publishes, which gives `AppliedReadsTruly` (`AppliedIsInForce`);
* `LinkCared`: who is about to bring an idle link back. The task that reconfigures
  (`ReconfiguringBusy`), an event that is still to be handled (`LossTold`), whoever
  left the network on purpose (`LeaverConnects`), or the timer or the event loop
  after the last event (`RetryPending`). `RetryIsNotLost` (`RetryNotLost`) is what remains of it
  when every task waits: all four places that stop the timer or skip a retry hand the
  link over to one of the others.

`StationKeepsService` is the safety part of `ServiceKept`: each step is one of
`StationService` or a stutter. Its fairness is checked by TLC.

### Setup page

`SetupPageProofs`, for every modulus and number of submissions under way. `PageInv`
orders ids by the submissions they stand for (`origin`): `InOrder` runs from what is
published over what is applied to what waits, `StatusInOrder` carries it over the two
reads of a status, and `IdsIssued` says that every id in the system was issued at
most `made` steps before the counter, the wrap included, so that none is newer than
it (`IssuedIsNotNewer`). `AnswersKnown` says when an answered submission can still be
the latest: while its id is the counter, or when a reset has taken the counter back
to zero. `ReplacedIsAlwaysTrue` (`ReplacedIsTrue`) follows because neither case lets
the status look newer; `FailureIsNotOlder` (`FailureNotOlder`) from `StatusInOrder`,
also for an id issued a second time after a reset.

### Workloads

`WorkloadProofs`, for any partition, block and buffer size, bounds and set of bodies.
`WorkloadInv` is

* `InPlace` and `Judged`: which bodies are at which place, and what became of the
  request; from it `RunsAreAsAsked` (`RequestHonoured`);
* `FlashInv`: the block between its erasure and the comparison (`BlockInHand`) and the
  laps so far (`LapInv`: the blocks counted are those before the offset, or all, and
  all of them but the one in hand hold what was written last), which gives `RunningImageSafe`,
  `WritesFollowErasures`, `FlashRunsReportTruly` and `NvsIsLeftClean`. The last step of
  `FlashReportTrue` counts the blocks of a lap with the theorems on finite sets;
* `TrafficInv`: what the peer has counted and what is on its way add up to what was
  sent (`Connection`), a block is cut short only for a peer or a network that is gone
  (`WholeBlocks`), and a sink says nothing that could make the device's closing a
  reset (`SinkSilent`), which gives
  `PeersEvidenceAgrees` (`EvidenceAgrees`).

### Bench

`BenchProofs`, for any number of boots, runs, endpoints and rounds, and any waits.
`BenchInv` has the parts for `RunService` (`CurrentOfBoot`, `StartIsFirst`, `RunsEnd`: a
run that is over has reported its end) that `ExportIsCoherent` needs although the
device goes on between the requests; `ToldOnce` (the access point event) for
`ServesOnlyOnItsAp`; `UptimeGrows` (in the boot of the baseline the uptime has only grown) for `RecoveryIsGenuine`; and `LiveUntilTimer` for `LiveIsAlwaysFresh`.

### Only model-checked

Liveness, which the prover does not support: `RunTerminates`, `EmitterNeverStalls`,
`LostLinkRetried`, `PollsGoOn`, `ReplacementNoticed`, `NetworkRunEnds`, `BootSettles`,
and the fairness that `ServiceKept` includes. The five disagreements are
counterexamples on small instances.

## Not modelled

HTTP routing, reading of bodies, and the JSON of read-only handlers: they change
nothing and judge only their own bytes. Sensors; mDNS; names and identity strings
(`db_network_identity`, `db_mdns_hostname`): formatting. Rendering of the pages, and
`web/index.html`, the development copy of the landing page. `analyze_summary.py` and the
`phase2_*` scripts, and the serial capture of the reset tool: text processing of
logs. Values of durations: nothing is said about how long a wait or an abort
takes (a `rate_bps` of 1 makes `run_network` wait nine hours between two looks at
the flag).

## Plan

Done: run engine, its abstract service and its proofs; event ring; request ids;
backoff; station; setup page; run requests and workload bodies; boot, export,
reset tool and landing page; for each its inductive invariant, the invariants of
its run, and the refinements.

Next: make the proofs that split by program counter shorter where lemmas repeat
(`StationConfigProofs`, `WorkloadProofs`), and the action properties that liveness
rests on as theorems: what a step may never undo (a handed-over link, a lap, a
response under way).
