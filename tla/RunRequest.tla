----------------------------- MODULE RunRequest -----------------------------
(***************************************************************************)
(* Which bodies of POST /api/v1/runs become runs: the field checks of      *)
(* runs_post, db_workload_parse and db_request_validate.                   *)
(*                                                                         *)
(* A JSON number is a double; the models count it in halves, so an odd     *)
(* number of halves is a fraction.  The widths of the C types and the      *)
(* longest duration are constants.                                         *)
(***************************************************************************)
EXTENDS Integers

CONSTANTS MaxDuration,   \* 3600000
          DefaultDuration,   \* 30000
          Word16,        \* 2^16
          Word32         \* 2^32

ASSUME RequestAssumption ==
  /\ {MaxDuration, Word16, Word32} \subseteq Nat \ {0}
  /\ MaxDuration < Word32 /\ DefaultDuration \in 1..MaxDuration

NetLoad == {"NET_TX", "NET_RX", "NET_BIDIRECTIONAL"}
Known == NetLoad \cup
  {"BOOT", "IDLE", "WIFI_ASSOCIATED_IDLE", "CPU_STRESS", "FLASH_WRITE",
   "NVS_WRITE", "OTA_PARTITION_WRITE", "CONTROLLED_REBOOT"}

\* A field of the body: absent, of another JSON type, or a number of halves.
Absent == [kind |-> "absent", halves |-> 0]
OtherType == [kind |-> "other", halves |-> 0]
Number(halves) == [kind |-> "number", halves |-> halves]

\* Mutant: fractions are cut off.
IsWhole_Cut(halves, width) == TRUE
\* "value != (double)(uintN_t)value", for a value that is not negative.
IsWhole(halves, width) == halves = 2 * ((halves \div 2) % width)

InRange(halves, low, high) == 2 * low <= halves /\ halves <= 2 * high

\* A number is judged; anything else leaves the field as it was.
Refused(field, low, high, width) ==
  /\ field.kind = "number"
  /\ ~(InRange(field.halves, low, high) /\ IsWhole(field.halves, width))
Stored(field, default, width) ==
  IF field.kind = "number" THEN (field.halves \div 2) % width ELSE default

\* A host that does not fit is dropped, and so is one that is no string.
StoredHost(host) == IF host \in {"plain", "odd"} THEN host ELSE ""

Parsed(asked) ==
  /\ asked.workload \in Known
  /\ ~Refused(asked.duration_ms, 1, MaxDuration, Word32)
  /\ ~Refused(asked.port, 1, Word16 - 1, Word16)
  /\ ~Refused(asked.rate_bps, 0, Word32 - 1, Word32)

RequestOf(asked) ==
  [workload |-> asked.workload,
   duration_ms |-> Stored(asked.duration_ms, DefaultDuration, Word32),
   port |-> Stored(asked.port, 0, Word16),
   rate_bps |-> Stored(asked.rate_bps, 0, Word32),
   host |-> StoredHost(asked.host)]

\* "plain" stands for a host of the characters the firmware supports.
db_request_validate(request) ==
  /\ request.duration_ms \in 1..MaxDuration
  /\ request.workload \in NetLoad => request.host = "plain" /\ request.port # 0

Accepted(asked) == Parsed(asked) /\ db_request_validate(RequestOf(asked))

-----------------------------------------------------------------------------
(* protocol/openapi.yaml: what the schema of the body allows.              *)

Integer_(field, low, high) ==
  field.kind = "absent" \/
  (field.kind = "number" /\ field.halves % 2 = 0
     /\ 2 * low <= field.halves /\ field.halves <= 2 * high)

\* An integer without a maximum.
Natural_(field) ==
  field.kind = "absent" \/
  (field.kind = "number" /\ field.halves % 2 = 0 /\ 0 <= field.halves)

\* The workload is any string: the schema does not list the names.  "missing" is
\* a body without one.
Documented(asked) ==
  /\ asked.workload # "missing"
  /\ Integer_(asked.duration_ms, 1, MaxDuration)
  /\ Integer_(asked.port, 1, Word16 - 1)
  /\ Natural_(asked.rate_bps)
  /\ asked.host \notin {"other", "long"}

\* Where the schema promises more than the firmware does: names that are no
\* workload, a rate that needs more than 32 bits, and a network workload that
\* does not name its peer.
OnlyDocumented(asked) ==
  \/ asked.workload \notin Known
  \/ asked.rate_bps.kind = "number" /\ asked.rate_bps.halves > 2 * (Word32 - 1)
  \/ asked.workload \in NetLoad /\ (asked.host # "plain" \/ asked.port = Absent)

\* A number runs as it was asked for.  A field that is absent runs as the
\* default, and so does one of another JSON type, which the code passes over.
AsAsked(field, stored, default) ==
  IF field.kind = "number" THEN field.halves = 2 * stored ELSE stored = default
=============================================================================
