--------------------------- MODULE StationConfig ----------------------------
(***************************************************************************)
(* Station Wi-Fi of the firmware: POST /api/v1/network/sta, the task that  *)
(* applies submissions one at a time, the disconnect and address events,   *)
(* the retry timer, and the driver they all call.                          *)
(*                                                                         *)
(* Four tasks share the variables of sta and published without a lock: the *)
(* HTTP server, sta_config_task, the event loop and esp_timer.  An action  *)
(* is what a task does up to its next access that matters to a decision of *)
(* another task; sta_state and sta_last_reason, which no task decides by,  *)
(* are written together with what is next to them.  The driver is          *)
(* external, modelled from how main.c uses it.                             *)
(***************************************************************************)
EXTENDS RequestId, Sequences

CONSTANTS Ssid, Password,
          MaxPosts,      \* bound: accepted submissions
          MaxAttempts,   \* configure_sta is tried 20 times
          MaxQueued      \* bound: driver events waiting in the event loop

DB_STA_FAST_RETRIES == 3

ASSUME StationAssumption ==
  /\ MaxPosts \in Nat /\ MaxPosts < Half
  /\ MaxAttempts \in Nat \ {0} /\ MaxQueued \in Nat \ {0}

Cred == [ssid : Ssid, password : Password]
NoCred == [ssid |-> "", password |-> ""]

Disconnected(reason) == [kind |-> "disconnected", reason |-> reason, by |-> NoCred]
GotIp(cred) == [kind |-> "got_ip", reason |-> "none", by |-> cred]

VARIABLES
  request_counter,
  sta_config_queue,  \* length one, overwritten
  sta,        \* sta_configured, sta_state, sta_ssid, sta_last_reason,
              \* sta_retry_count (up to DB_STA_FAST_RETRIES), sta_reconfiguring
  published,  \* sta_config_request_id and sta_config_result
  nvs,        \* what nvs_load_sta would find
  cfg,        \* sta_config_task: pc, the submission it applies, tries
  evt,        \* event loop: pc and the event it handles
  tmr,        \* retry timer: armed or not, and where sta_retry_fire is
  wifi,       \* driver: its config, the link and its credentials, its events
  submitted,  \* history: the credentials of each request id, 0 for the saved
  address     \* history: the credentials of the link behind the last GOT_IP

vars == <<request_counter, sta_config_queue, sta, published, nvs, cfg, evt,
          tmr, wifi, submitted, address>>
requests == <<request_counter, sta_config_queue, submitted>>

NoResult == [value |-> "none", of |-> 0]

\* app_main has started the station, with saved credentials or without.
Init ==
  /\ \E saved \in Cred \cup {NoCred} :
       LET configured == saved # NoCred
       IN /\ nvs = saved
          /\ sta = [configured |-> configured, ssid |-> saved.ssid,
                    state |-> IF configured THEN "connecting" ELSE "unconfigured",
                    last_reason |-> "none", retry_count |-> 0,
                    reconfiguring |-> FALSE]
          /\ wifi = [config |-> saved, by |-> saved, events |-> <<>>,
                     link |-> IF configured THEN "connecting" ELSE "idle"]
          /\ submitted = [id \in Word |-> IF id = 0 THEN saved ELSE NoCred]
  /\ request_counter = 0 /\ sta_config_queue = <<>>
  /\ published = [id |-> 0, result |-> NoResult]
  /\ cfg = [pc |-> "receive", id |-> 0, cred |-> NoCred, tries |-> 0,
            applied |-> FALSE]
  /\ evt = [pc |-> "idle", event |-> GotIp(NoCred)]
  /\ tmr = [armed |-> FALSE, pc |-> "idle"]
  /\ address = NoCred

-----------------------------------------------------------------------------
(* The driver (external).                                                  *)

\* Connecting does nothing unless the station is idle.  An idle driver is assumed
\* to accept it: the code ignores the error that esp_wifi_connect may return, and
\* after one there is neither an event nor a retry.
esp_wifi_connect ==
  wifi' = IF wifi.link = "idle"
          THEN [wifi EXCEPT !.link = "connecting", !.by = wifi.config]
          ELSE wifi

\* Leaving a network is reported like a loss, with a reason of its own.
esp_wifi_disconnect ==
  wifi' = IF wifi.link = "idle" THEN wifi
          ELSE [wifi EXCEPT !.link = "idle",
                            !.events = Append(@, Disconnected("assoc_leave"))]

Driver ==
  /\ \/ /\ wifi.link = "connecting"
        /\ wifi' = [wifi EXCEPT !.link = "associated"]
     \/ /\ wifi.link = "associated" /\ Len(wifi.events) < MaxQueued
        /\ wifi' = [wifi EXCEPT !.link = "up", !.events = Append(@, GotIp(wifi.by))]
     \/ /\ wifi.link # "idle" /\ Len(wifi.events) < MaxQueued
        /\ wifi' = [wifi EXCEPT !.link = "idle",
                                !.events = Append(@, Disconnected("lost"))]
  /\ UNCHANGED <<requests, sta, published, nvs, cfg, evt, tmr, address>>

-----------------------------------------------------------------------------
(* The HTTP server.                                                        *)

\* Mutant: the submission waits behind an older one.
Overwritten_Append(request) == Append(sta_config_queue, request)
\* xQueueOverwrite: a pending submission is replaced.
Overwritten(request) == <<request>>

\* POST /api/v1/network/sta with valid credentials.
network_sta_post(cred) ==
  LET id == db_request_id_next(request_counter)
  IN /\ request_counter < MaxPosts
     /\ cred # submitted[request_counter]   \* bound: none is sent again unchanged
     /\ request_counter' = id
     /\ sta_config_queue' = Overwritten([id |-> id, cred |-> cred])
     /\ submitted' = [submitted EXCEPT ![id] = cred]
     /\ UNCHANGED <<sta, published, nvs, cfg, evt, tmr, wifi, address>>

-----------------------------------------------------------------------------
(* sta_schedule_retry: an immediate connect is the caller's next step.     *)

Immediate == sta.retry_count < DB_STA_FAST_RETRIES

\* Mutant: no timer, the station gives up after the fast retries.
CountRetry_GivesUp ==
  /\ sta' = [sta EXCEPT !.retry_count = IF Immediate THEN @ + 1 ELSE @]
  /\ UNCHANGED tmr

CountRetry ==
  IF Immediate
  THEN /\ sta' = [sta EXCEPT !.retry_count = @ + 1, !.state = "connecting"]
       /\ UNCHANGED tmr
  ELSE tmr' = [tmr EXCEPT !.armed = TRUE] /\ UNCHANGED sta

-----------------------------------------------------------------------------
(* sta_config_task.                                                        *)

CfgStep(from, to) == cfg.pc = from /\ cfg' = [cfg EXCEPT !.pc = to]

Receive ==
  /\ cfg.pc = "receive" /\ sta_config_queue # <<>>
  /\ cfg' = [pc |-> "reconfigure", id |-> sta_config_queue[1].id,
             cred |-> sta_config_queue[1].cred, tries |-> 0, applied |-> FALSE]
  /\ sta_config_queue' = <<>>
  /\ UNCHANGED <<request_counter, submitted, sta, published, nvs, evt, tmr,
                 wifi, address>>

Reconfigure ==
  /\ CfgStep("reconfigure", "stop_timer")
  /\ sta' = [sta EXCEPT !.reconfiguring = TRUE]
  /\ UNCHANGED <<requests, published, nvs, evt, tmr, wifi, address>>

StopTimer ==
  /\ CfgStep("stop_timer", "disconnect")
  /\ tmr' = [tmr EXCEPT !.armed = FALSE]
  /\ UNCHANGED <<requests, sta, published, nvs, evt, wifi, address>>

Disconnect ==
  /\ CfgStep("disconnect", "configure")
  /\ esp_wifi_disconnect
  /\ UNCHANGED <<requests, sta, published, nvs, evt, tmr, address>>

\* The driver takes no configuration while it is connecting, and may fail.
configure_sta ==
  /\ cfg.pc = "configure"
  /\ cfg' = [cfg EXCEPT !.pc = "save_ssid", !.applied = TRUE]
  /\ wifi.link # "connecting"
  /\ wifi' = [wifi EXCEPT !.config = cfg.cred]
  /\ sta' = [sta EXCEPT !.ssid = cfg.cred.ssid]
  /\ UNCHANGED <<requests, published, nvs, evt, tmr, address>>

ConfigureFails ==
  /\ cfg.pc = "configure"
  /\ cfg' = [cfg EXCEPT !.tries = @ + 1,
               !.pc = IF cfg.tries + 1 < MaxAttempts THEN "configure" ELSE "settle"]
  /\ UNCHANGED <<requests, sta, published, nvs, evt, tmr, wifi, address>>

\* nvs_save_sta writes the ssid, then the password; a failure is only logged.
SaveSsid(ok) ==
  /\ CfgStep("save_ssid", IF ok THEN "save_password" ELSE "configured")
  /\ nvs' = IF ok THEN [nvs EXCEPT !.ssid = cfg.cred.ssid] ELSE nvs
  /\ UNCHANGED <<requests, sta, published, evt, tmr, wifi, address>>

SavePassword(ok) ==
  /\ CfgStep("save_password", "configured")
  /\ nvs' = IF ok THEN [nvs EXCEPT !.password = cfg.cred.password] ELSE nvs
  /\ UNCHANGED <<requests, sta, published, evt, tmr, wifi, address>>

Configured ==
  /\ CfgStep("configured", "settle")
  /\ sta' = [sta EXCEPT !.configured = TRUE]
  /\ UNCHANGED <<requests, published, nvs, evt, tmr, wifi, address>>

\* sta_retry_count, sta_state, sta_last_reason.
Settle ==
  /\ CfgStep("settle", "publish_result")
  /\ sta' = [sta EXCEPT !.retry_count = 0, !.last_reason = "none",
               !.state = IF sta.configured THEN "connecting" ELSE "unconfigured"]
  /\ UNCHANGED <<requests, published, nvs, evt, tmr, wifi, address>>

\* Mutant: a failure is published like a success.
Outcome_Applied == "applied"
Outcome == IF cfg.applied THEN "applied" ELSE "failed"

\* Mutant: the id is published before the result.
PublishResult_IdFirst ==
  /\ CfgStep("publish_result", "publish_id")
  /\ published' = [published EXCEPT !.id = cfg.id]
  /\ UNCHANGED <<requests, sta, nvs, evt, tmr, wifi, address>>

PublishResult ==
  /\ CfgStep("publish_result", "publish_id")
  /\ published' = [published EXCEPT !.result =
       [value |-> Outcome, of |-> cfg.id]]
  /\ UNCHANGED <<requests, sta, nvs, evt, tmr, wifi, address>>

PublishId ==
  /\ CfgStep("publish_id", "release")
  /\ published' = [published EXCEPT !.id = cfg.id]
  /\ UNCHANGED <<requests, sta, nvs, evt, tmr, wifi, address>>

\* Mutant: reconnecting is left to the disconnect event.
Release_NoRetry ==
  /\ CfgStep("release", "receive")
  /\ sta' = [sta EXCEPT !.reconfiguring = FALSE]
  /\ UNCHANGED <<requests, published, nvs, evt, tmr, wifi, address>>

Release ==
  /\ CfgStep("release", IF sta.configured THEN "schedule" ELSE "receive")
  /\ sta' = [sta EXCEPT !.reconfiguring = FALSE]
  /\ UNCHANGED <<requests, published, nvs, evt, tmr, wifi, address>>

CfgSchedule ==
  /\ CfgStep("schedule", IF Immediate THEN "connect" ELSE "receive")
  /\ CountRetry
  /\ UNCHANGED <<requests, published, nvs, evt, wifi, address>>

CfgConnect ==
  /\ CfgStep("connect", "receive")
  /\ esp_wifi_connect
  /\ UNCHANGED <<requests, sta, published, nvs, evt, tmr, address>>

-----------------------------------------------------------------------------
(* wifi_event, in the event loop.                                          *)

EvtStep(from, to) == evt.pc = from /\ evt' = [evt EXCEPT !.pc = to]

StaDisconnected ==
  /\ evt.pc = "idle" /\ wifi.events # <<>> /\ Head(wifi.events).kind = "disconnected"
  /\ evt' = [pc |-> "check", event |-> Head(wifi.events)]
  /\ wifi' = [wifi EXCEPT !.events = Tail(@)]
  /\ sta' = [sta EXCEPT !.last_reason = Head(wifi.events).reason,
                        !.state = "disconnected"]
  /\ UNCHANGED <<requests, published, nvs, cfg, tmr, address>>

RetryWanted == sta.configured /\ ~sta.reconfiguring

EvtCheck ==
  /\ EvtStep("check", IF evt.event.reason # "assoc_leave" /\ RetryWanted
                      THEN "schedule" ELSE "idle")
  /\ UNCHANGED <<requests, sta, published, nvs, cfg, tmr, wifi, address>>

EvtSchedule ==
  /\ EvtStep("schedule", IF Immediate THEN "connect" ELSE "idle")
  /\ CountRetry
  /\ UNCHANGED <<requests, published, nvs, cfg, wifi, address>>

EvtConnect ==
  /\ EvtStep("connect", "idle")
  /\ esp_wifi_connect
  /\ UNCHANGED <<requests, sta, published, nvs, cfg, tmr, address>>

StaGotIp ==
  /\ evt.pc = "idle" /\ wifi.events # <<>> /\ Head(wifi.events).kind = "got_ip"
  /\ evt' = [pc |-> "got_ip", event |-> Head(wifi.events)]
  /\ wifi' = [wifi EXCEPT !.events = Tail(@)]
  /\ sta' = [sta EXCEPT !.state = "connected"]
  /\ address' = Head(wifi.events).by
  /\ UNCHANGED <<requests, published, nvs, cfg, tmr>>

EvtStopTimer ==
  /\ EvtStep("got_ip", "reset_count")
  /\ tmr' = [tmr EXCEPT !.armed = FALSE]
  /\ UNCHANGED <<requests, sta, published, nvs, cfg, wifi, address>>

EvtResetCount ==
  /\ EvtStep("reset_count", "idle")
  /\ sta' = [sta EXCEPT !.retry_count = 0]
  /\ UNCHANGED <<requests, published, nvs, cfg, tmr, wifi, address>>

-----------------------------------------------------------------------------
(* sta_retry_fire, in esp_timer; stopping the timer does not stop it.      *)

TimerFires ==
  /\ tmr.armed /\ tmr.pc = "idle"
  /\ tmr' = [armed |-> FALSE, pc |-> IF RetryWanted THEN "state" ELSE "idle"]
  /\ UNCHANGED <<requests, sta, published, nvs, cfg, evt, wifi, address>>

TimerState ==
  /\ tmr.pc = "state" /\ tmr' = [tmr EXCEPT !.pc = "connect"]
  /\ sta' = [sta EXCEPT !.state = "connecting"]
  /\ UNCHANGED <<requests, published, nvs, cfg, evt, wifi, address>>

TimerConnect ==
  /\ tmr.pc = "connect" /\ tmr' = [tmr EXCEPT !.pc = "idle"]
  /\ esp_wifi_connect
  /\ UNCHANGED <<requests, sta, published, nvs, cfg, evt, address>>

-----------------------------------------------------------------------------
CfgTask ==
  \/ Receive \/ Reconfigure \/ StopTimer \/ Disconnect
  \/ configure_sta \/ ConfigureFails
  \/ \E ok \in BOOLEAN : SaveSsid(ok) \/ SavePassword(ok)
  \/ Configured \/ Settle \/ PublishResult \/ PublishId \/ Release \/ CfgSchedule \/ CfgConnect

EventLoop == StaDisconnected \/ EvtCheck \/ EvtSchedule \/ EvtConnect
             \/ StaGotIp \/ EvtStopTimer \/ EvtResetCount
TimerTask == TimerFires \/ TimerState \/ TimerConnect

Next ==
  \/ CfgTask \/ EventLoop \/ TimerTask \/ Driver
  \/ \E cred \in Cred : network_sta_post(cred)

Spec == Init /\ [][Next]_vars

\* The tasks run and an armed timer expires; the network owes nothing.
FairSpec ==
  Spec /\ WF_vars(CfgTask) /\ WF_vars(EventLoop) /\ WF_vars(TimerTask)

-----------------------------------------------------------------------------
(* Properties.                                                             *)

Result == [value : {"none", "applied", "failed"}, of : Word]
CfgPC == {"receive", "reconfigure", "stop_timer", "disconnect", "configure",
          "save_ssid", "save_password", "configured", "settle",
          "publish_result", "publish_id", "release", "schedule", "connect"}

\* Where sta_config_task has nothing to answer.
AfterPublishing == {"receive", "release", "schedule", "connect"}

Event == [kind : {"disconnected", "got_ip"}, reason : {"none", "assoc_leave", "lost"},
          by : Cred \cup {NoCred}]

\* Every variable keeps its type.
TypeOK ==
  /\ request_counter \in Word
  /\ sta_config_queue \in Seq([id : Id, cred : Cred]) /\ Len(sta_config_queue) <= 1
  /\ sta \in [configured : BOOLEAN, ssid : Ssid \cup {""},
              state : {"unconfigured", "connecting", "connected", "disconnected"},
              last_reason : {"none", "assoc_leave", "lost"},
              retry_count : 0..DB_STA_FAST_RETRIES, reconfiguring : BOOLEAN]
  /\ published \in [id : Word, result : Result]
  /\ nvs \in [ssid : Ssid \cup {""}, password : Password \cup {""}]
  /\ cfg \in [pc : CfgPC, id : Word, cred : Cred \cup {NoCred}, tries : 0..MaxAttempts,
             applied : BOOLEAN]
  /\ evt \in [pc : {"idle", "check", "schedule", "connect", "got_ip", "reset_count"},
             event : Event]
  /\ tmr \in [armed : BOOLEAN, pc : {"idle", "state", "connect"}]
  /\ wifi \in [config : Cred \cup {NoCred}, by : Cred \cup {NoCred}, events : Seq(Event),
              link : {"idle", "connecting", "associated", "up"}]
  /\ submitted \in [Word -> Cred \cup {NoCred}]
  /\ address \in Cred \cup {NoCred}

\* A station that is configured but not connected is always being worked on:
\* when every task waits, the retry timer is armed.  Each of the four places
\* that stop the timer or skip a retry leaves it to another one.  It rests on an
\* idle driver accepting every connect: an error that sta_retry_fire (main.c:954)
\* or sta_schedule_retry (961) gets back is ignored, and the link then stays idle
\* with no retry armed.
RetryNotLost ==
  (/\ sta.configured /\ wifi.link = "idle" /\ wifi.events = <<>>
   /\ cfg.pc = "receive" /\ sta_config_queue = <<>>
   /\ evt.pc = "idle" /\ tmr.pc = "idle")
  => tmr.armed

\* Once a submission reads as applied, and until the next one is configured,
\* the driver, and the ssid the status shows, are those of that submission.
AppliedIsInForce ==
  (/\ published.result.value = "applied" /\ published.result.of = published.id
   /\ cfg.pc \notin {"save_ssid", "save_password", "configured", "settle",
                     "publish_result"})
  => wifi.config = submitted[published.id] /\ sta.ssid = wifi.config.ssid

\* What clients see of the queue and of the task.
Waiting == IF sta_config_queue = <<>> THEN 0 ELSE sta_config_queue[1].id
Applying == IF cfg.pc \in AfterPublishing THEN 0 ELSE cfg.id
Phase == IF cfg.pc \in AfterPublishing THEN "idle"
         ELSE IF cfg.pc = "publish_id" THEN "publishing" ELSE "applying"

\* The station keeps the promises clients rely on: "a newer pending submission
\* replaces an older one" (openapi.yaml), a result is visible before its id, and
\* what was accepted and not replaced is answered.
Service == INSTANCE StationService WITH
  waiting <- Waiting, applying <- Applying, phase <- Phase
ServiceKept == Service!ServiceSpec

\* docs/TARGET_ESP32S3.md: "A lost station connection is retried ...
\* indefinitely".  Like RetryNotLost it rests on an idle driver accepting every
\* connect; one refused at main.c:954 or 961 would be the last.
LostLinkRetried ==
  (sta.configured /\ wifi.link = "idle") ~> wifi.link # "idle"

-----------------------------------------------------------------------------
(* Statements of the repository's documents that the code breaks.          *)

Settled == evt.pc = "idle" /\ wifi.events = <<>> /\ tmr.pc = "idle"

\* main.c, sta_config_task, "Publish the outcome only once the old connection
\* can no longer read as current": a connected station, after a submission
\* reads as applied, is connected with that submission's credentials.
OldLinkNeverCurrent ==
  (/\ Settled /\ cfg.pc = "receive"
   /\ published.result.value = "applied" /\ sta.state = "connected")
  => address = submitted[published.id]

-----------------------------------------------------------------------------
(* The strengthening that makes the safety properties inductive.           *)

\* No id is ahead of the counter, and every id stands for its credentials.
IdsKnown ==
  /\ request_counter <= MaxPosts
  /\ published.id <= request_counter /\ cfg.id <= request_counter
  /\ sta_config_queue # <<>> =>
       /\ sta_config_queue[1].id <= request_counter
       /\ sta_config_queue[1].cred = submitted[sta_config_queue[1].id]
  /\ cfg.pc # "receive" => cfg.cred = submitted[cfg.id]

\* As long as the task still configures, it has an attempt left.
TriesLeft ==
  cfg.pc \in {"reconfigure", "stop_timer", "disconnect", "configure"} =>
    cfg.tries < MaxAttempts

\* What the task has applied is what the driver has, and what it publishes.
AppliedByTask ==
  /\ cfg.applied => wifi.config = cfg.cred /\ sta.ssid = cfg.cred.ssid
  /\ cfg.pc = "publish_id" /\ published.result.value = "applied" => cfg.applied

\* Settle is over, and the station not yet reconnected.
Settling == {"publish_result", "publish_id", "release", "schedule"}

LastEvent == wifi.events[Len(wifi.events)]
LeftLast == wifi.events # <<>> /\ LastEvent.reason = "assoc_leave"

ReconfiguringBusy ==
  sta.reconfiguring => cfg.pc \notin {"receive", "reconfigure", "schedule", "connect"}

\* As long as events wait, the last of them tells why the link is idle.
LossTold ==
  wifi.link = "idle" =>
    /\ wifi.events # <<>> => LastEvent.kind = "disconnected"
    /\ evt.pc \in {"got_ip", "reset_count"} => wifi.events # <<>>

\* Whoever left the network on purpose goes on to connect.
LeaverConnects ==
  wifi.link = "idle" /\ LeftLast =>
    /\ sta.configured => cfg.pc # "receive" \/ evt.pc = "connect"
    /\ cfg.pc \in Settling /\ sta.retry_count > 0 => evt.pc = "connect"

\* After the last event it is the turn of the timer or of the event loop.
RetryPending ==
  (wifi.link = "idle" /\ wifi.events = <<>> /\ sta.configured /\ cfg.pc = "receive") =>
    \/ tmr.armed \/ tmr.pc # "idle"
    \/ evt.pc \in {"schedule", "connect"}
    \/ evt.pc = "check" /\ evt.event.reason # "assoc_leave"

\* Who is about to bring the idle link back.
LinkCared == ReconfiguringBusy /\ LossTold /\ LeaverConnects /\ RetryPending

StationInv == TriesLeft /\ IdsKnown /\ AppliedByTask /\ LinkCared
=============================================================================
