------------------------------ MODULE BodyLoop ------------------------------
(***************************************************************************)
(* What the workload bodies of main.c share: a loop that goes on until the *)
(* deadline or an abort, two counters, and a verdict.  One body runs at a  *)
(* time, so all bodies share one program counter.                          *)
(***************************************************************************)
EXTENDS RunRequest

CONSTANTS IO_BLOCK,  \* bytes of a block, in units
          MaxBytes   \* bound: a loop that has counted this much is slow from then on

ASSUME LoopAssumption == IO_BLOCK \in Nat \ {0} /\ MaxBytes \in Nat

VARIABLES
  workload,         \* the workload of the run
  pc,               \* where the body is
  ok,               \* what the body returns
  a, b,             \* operations_or_bytes and bytes_rx
  expired,          \* the deadline has passed
  abort_requested,  \* current_run.abort_requested
  result            \* the verdict of workload_task

loopVars == <<workload, pc, ok, a, b, expired, abort_requested, result>>
flags == <<expired, abort_requested>>

FlashLoad == {"FLASH_WRITE", "OTA_PARTITION_WRITE"}
WaitLoad == {"BOOT", "IDLE", "WIFI_ASSOCIATED_IDLE", "CONTROLLED_REBOOT"}

should_abort == abort_requested

\* The loop condition of every body.
Going == ~expired /\ ~should_abort
MayGo == Going /\ a < MaxBytes /\ b < MaxBytes

GoTo(place) == pc' = place /\ UNCHANGED <<workload, ok, a, b, flags, result>>

\* "return ok && !should_abort()".
Return(value) ==
  /\ pc' = "verdict" /\ ok' = (value /\ ~should_abort)
  /\ UNCHANGED <<workload, a, b, flags, result>>
=============================================================================
