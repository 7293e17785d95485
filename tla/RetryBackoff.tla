---------------------------- MODULE RetryBackoff ----------------------------
(***************************************************************************)
(* db_sta_retry_delay_ms: how long the station waits before a retry.       *)
(***************************************************************************)
EXTENDS Naturals

DB_STA_FAST_RETRIES == 3
DB_STA_BACKOFF_MIN_MS == 5000
DB_STA_BACKOFF_MAX_MS == 60000

\* The delay after the loop has run up to step times.
doubled[step \in Nat] ==
  IF step = 0 THEN DB_STA_BACKOFF_MIN_MS
  ELSE LET delay == doubled[step - 1]
       IN IF delay < DB_STA_BACKOFF_MAX_MS THEN 2 * delay ELSE delay

\* Mutant: the last doubling passes the ceiling.
db_sta_retry_delay_ms_NoCeiling(attempt) ==
  IF attempt < DB_STA_FAST_RETRIES THEN 0
  ELSE doubled[attempt - DB_STA_FAST_RETRIES]

db_sta_retry_delay_ms(attempt) ==
  IF attempt < DB_STA_FAST_RETRIES THEN 0
  ELSE LET delay == doubled[attempt - DB_STA_FAST_RETRIES]
       IN IF delay < DB_STA_BACKOFF_MAX_MS THEN delay ELSE DB_STA_BACKOFF_MAX_MS
=============================================================================
