---------------------------- MODULE RecoveryPoll ----------------------------
(***************************************************************************)
(* run_event of reset_characterization.py: read the uptime, trigger a      *)
(* reset, and poll the status until it is one of the boot after it.        *)
(***************************************************************************)
EXTENDS Device

CONSTANTS MaxWait,      \* how long poll_status_for_recovery polls, in ticks
          MaxBaseline   \* bound: uptime when an event begins

ASSUME PollAssumption ==
  MaxWait \in Nat /\ MaxBaseline \in Nat /\ MaxUptime > MaxBaseline + MaxWait

Unknown == MaxUptime + 1

VARIABLES event,             \* where run_event is
          uptime_before_ms,  \* a number of ticks, or Unknown
          due,               \* the CONTROLLED_REBOOT that was accepted is to come
          since,             \* time since the trigger
          status,            \* boot and uptime of the last status
          before             \* history: the boot at the baseline

recoveryVars == <<event, uptime_before_ms, due, since, status, before>>

NoStatus == [boot |-> 0, uptime |-> 0]

RecoveryInit ==
  /\ event = "baseline" /\ uptime_before_ms = Unknown /\ due = FALSE
  /\ since = 0 /\ status = NoStatus /\ before = 0

\* Any failure leaves the baseline unknown.
Baseline ==
  /\ event = "baseline" /\ uptime <= MaxBaseline
  /\ event' = "trigger" /\ before' = boot
  /\ \/ Serving /\ uptime_before_ms' = uptime
     \/ uptime_before_ms' = Unknown
  /\ UNCHANGED <<deviceVars, due, since, status>>

Triggered(where) == event = "trigger" /\ event' = where /\ UNCHANGED before

\* The pulse on RTS resets the chip at once.
HardResetPulse ==
  /\ Triggered("poll") /\ Reset
  /\ UNCHANGED <<uptime_before_ms, due, since, status>>

\* The run is accepted and ends with a restart, or the request fails: a
\* refusal or a lost answer ends the whole script.
TriggerSoftware ==
  /\ \/ Triggered("poll") /\ Serving /\ due' = TRUE
     \/ Triggered("failed") /\ due' \in IF Serving THEN BOOLEAN ELSE {FALSE}
  /\ UNCHANGED <<deviceVars, uptime_before_ms, since, status>>

ControlledReboot ==
  /\ due /\ due' = FALSE /\ Reset
  /\ UNCHANGED <<event, uptime_before_ms, since, status, before>>

\* Mutant: an equal uptime counts as a new boot.
Stale_Equal == uptime_before_ms # Unknown /\ uptime > uptime_before_ms
Stale == uptime_before_ms # Unknown /\ uptime >= uptime_before_ms

\* An answer may come after the deadline if its poll began before.
PollAnswered ==
  /\ event = "poll" /\ Serving
  /\ status' = [boot |-> boot, uptime |-> uptime]
  /\ event' = IF Stale THEN "poll" ELSE "recovered"
  /\ UNCHANGED <<deviceVars, uptime_before_ms, due, since, before>>

PollEnds ==
  /\ event = "poll" /\ since = MaxWait
  /\ event' = IF status = NoStatus THEN "silent" ELSE "stale"
  /\ UNCHANGED <<deviceVars, uptime_before_ms, due, since, status, before>>

RecoveryStep ==
  \/ Baseline \/ HardResetPulse \/ TriggerSoftware
  \/ ControlledReboot \/ PollAnswered \/ PollEnds

\* The clock of the poll.
PollClock ==
  /\ ~(event = "poll" /\ since = MaxWait)
  /\ since' = IF event = "poll" THEN since + 1 ELSE since
  /\ UNCHANGED <<event, uptime_before_ms, due, status, before>>
=============================================================================
