--------------------------- MODULE MCRunLifecycle ---------------------------
(* Small instances of RunLifecycle for TLC. *)
EXTENDS RunLifecycle

CONSTANTS w1, w2
MCWorker == {w1, w2}

\* One workload of each kind of body, and the one that restarts the chip.
MCWorkload == {"IDLE", "NET_RX", "FLASH_WRITE", "CONTROLLED_REBOOT"}
\* Where only the order of runs and reboots matters.
RebootLoads == {"IDLE", "CONTROLLED_REBOOT"}
=============================================================================
