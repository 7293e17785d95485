----------------------------- MODULE MCWorkload -----------------------------
(* A small instance of Workload for TLC. *)
EXTENDS Workload

\* Every boundary of a field, a half beside it, and the other kinds of values.
Edges(low, high) ==
  {Absent, OtherType} \cup
    {Number(2 * edge + beside) : edge \in {low, high}, beside \in {-2, -1, 0, 1, 2}}

\* One number at a time is at an edge, for every workload and host.
Numbers ==
  (Edges(1, MaxDuration) \X {Number(2)} \X {Absent})
    \cup ({Absent} \X Edges(1, Word16 - 1) \X {Absent})
    \cup ({Absent} \X {Number(2)} \X Edges(0, Word32 - 1))

Bodies ==
  {[workload |-> wl, host |-> host,
    duration_ms |-> numbers[1], port |-> numbers[2], rate_bps |-> numbers[3]] :
     wl \in (Known \ {"BOOT", "CONTROLLED_REBOOT"}) \cup {"unknown", "missing"},
     host \in {"absent", "other", "plain", "odd", "long"}, numbers \in Numbers}
=============================================================================
