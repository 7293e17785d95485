------------------------------- MODULE Device -------------------------------
(***************************************************************************)
(* The device as host tools see it: nothing while app_main brings up the   *)
(* access point, then the runs of RunService, until a reset.  app_main and *)
(* the event task, which is told that the access point has started, share  *)
(* ap_state and the event group.                                           *)
(***************************************************************************)
EXTENDS RunService

CONSTANTS AP_START_TIMEOUT,  \* AP_START_TIMEOUT_MS, in ticks
          MaxUptime          \* bound: the uptime that is told apart

ASSUME DeviceAssumption ==
  /\ AP_START_TIMEOUT \in Nat /\ MaxUptime \in Nat
  /\ MaxRun \in Nat /\ MaxBoot \in Nat \ {0}

VARIABLES stage,     \* where app_main is
          radio,     \* esp_wifi_start has been called, the event is being handled, it is
             \* handled
          ap_state,
          started,   \* AP_STARTED_BIT
          waited,    \* how long start_wifi has waited for the bit
          uptime

bootVars == <<stage, radio, ap_state, started, waited>>
deviceVars == <<serviceVars, bootVars, uptime>>

Capped(n, cap) == IF n < cap THEN n ELSE cap

PowerUp ==
  /\ stage = "nvs" /\ radio = "off" /\ ap_state = "starting"
  /\ started = FALSE /\ waited = 0 /\ uptime = 0

DeviceInit == ServiceInit /\ PowerUp

\* Any reset starts app_main over and forgets the runs.
Reset ==
  /\ Restart
  /\ stage' = "nvs" /\ radio' = "off" /\ ap_state' = "starting"
  /\ started' = FALSE /\ waited' = 0 /\ uptime' = 0

At(from, to) == stage = from /\ stage' = to
FailsAt(from) == At(from, "stopped") /\ ap_state' = "failed"

\* ESP_ERROR_CHECK: the chip panics and starts again.
Panic(from) == stage = from /\ Reset

NvsFlashInit ==
  \/ Panic("nvs")
  \/ At("nvs", "wifi") /\ UNCHANGED <<serviceVars, radio, ap_state, started, waited, uptime>>

\* start_wifi up to esp_wifi_start.
WifiStart ==
  /\ \/ At("wifi", "wait") /\ radio' = "starting" /\ UNCHANGED ap_state
     \/ FailsAt("wifi") /\ radio' \in {"off", "starting"}
  /\ UNCHANGED <<serviceVars, started, waited, uptime>>

\* wifi_event, AP_START: at any time once Wi-Fi was started.  start_wifi may give
\* up between the state and the bit.
ApStart ==
  /\ radio = "starting"
  /\ \/ ap_state' = "active" /\ radio' = "active"
     \/ ap_state' = "failed" /\ radio' = "told"
  /\ UNCHANGED <<serviceVars, stage, started, waited, uptime>>

ApStartedBit ==
  /\ radio = "active" /\ radio' = "told" /\ started' = TRUE
  /\ UNCHANGED <<serviceVars, stage, ap_state, waited, uptime>>

EventTask == ApStart \/ ApStartedBit

\* Mutant: what xEventGroupWaitBits returns is not looked at.
ApStarted_AnyWait == TRUE
ApStarted == started /\ ap_state = "active"

\* Mutant: portMAX_DELAY for the timeout.
WaitOver_NoTimeout == started
WaitOver == started \/ waited = AP_START_TIMEOUT

WaitBits ==
  /\ WaitOver
  /\ \/ ApStarted /\ At("wait", "observe") /\ UNCHANGED ap_state
     \/ ~ApStarted /\ FailsAt("wait")
  /\ UNCHANGED <<serviceVars, radio, started, waited, uptime>>

\* Reading back the configuration; then mDNS, which may fail.
Observe ==
  /\ \/ At("observe", "http") /\ UNCHANGED ap_state
     \/ FailsAt("observe")
  /\ UNCHANGED <<serviceVars, radio, started, waited, uptime>>

StartHttp ==
  \/ Panic("http")
  \/ At("http", "ready") /\ UNCHANGED <<serviceVars, radio, ap_state, started, waited, uptime>>

BootStep == NvsFlashInit \/ WifiStart \/ WaitBits \/ Observe \/ StartHttp

\* Requests are answered.
Serving == stage = "ready"

RunStep == Serving /\ ServiceNext /\ ~Restart /\ UNCHANGED <<bootVars, uptime>>

\* The uptime is kept only for a client that looks at it.
TimePasses(watched) ==
  /\ uptime' = IF watched THEN Capped(uptime + 1, MaxUptime) ELSE 0
  /\ waited' = IF stage = "wait" THEN Capped(waited + 1, AP_START_TIMEOUT) ELSE waited
  /\ UNCHANGED <<serviceVars, stage, radio, ap_state, started>>
=============================================================================
