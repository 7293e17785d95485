------------------------------ MODULE DbNetwork -----------------------------
(***************************************************************************)
(* The arithmetic of firmware/common/db_network.c as its callers use it:   *)
(* network_sta_post issues request ids around the wrap of a small word,    *)
(* while a client compares two ids it saw at any times, and                *)
(* sta_schedule_retry counts the retries of a station that never gets an   *)
(* address.                                                                *)
(***************************************************************************)
EXTENDS RequestId, RetryBackoff

CONSTANT MaxAttempt   \* bound: retries in a row

VARIABLES seen,    \* an id a client remembers
          issued,  \* the id issued last
          age,     \* ids issued since seen was
          sta_retry_count,
          delay_ms  \* the latest wait

ids == <<seen, issued, age>>
retries == <<sta_retry_count, delay_ms>>
vars == <<ids, retries>>

Init ==
  /\ seen \in Id /\ issued = seen /\ age = 0
  /\ sta_retry_count = 0 /\ delay_ms = 0

Issue ==
  /\ age < Half
  /\ issued' = db_request_id_next(issued) /\ age' = age + 1
  /\ UNCHANGED <<seen, retries>>

sta_schedule_retry ==
  /\ sta_retry_count < MaxAttempt
  /\ delay_ms' = db_sta_retry_delay_ms(sta_retry_count)
  /\ sta_retry_count' = sta_retry_count + 1
  /\ UNCHANGED ids

Next == Issue \/ sta_schedule_retry

Spec == Init /\ [][Next]_vars

-----------------------------------------------------------------------------
\* db_network.h: "Ordering is well-defined while compared IDs are less than
\* 2^31 apart": a later id is newer, and an earlier one is not.
LaterIsNewer ==
  age \in 1..(Half - 2) => /\ db_request_id_is_newer(issued, seen)
                           /\ ~db_request_id_is_newer(seen, issued)

\* The comparison is the one of the definition: newer means ahead, by less
\* than half the word, in modular counting.
NewerIsAhead ==
  \A other \in Id :
    db_request_id_is_newer(other, issued) <=>
      \E ahead \in 1..(Half - 1) : other = (issued + ahead) % Modulus

\* docs/TARGET_ESP32S3.md: "retried three times immediately, then with backoff
\* doubling from 5 s to a 60 s ceiling": the loop computes the closed form.
DelayAsDocumented ==
  sta_retry_count > 0 =>
    LET n == sta_retry_count - 1
    IN delay_ms = IF n < 3 THEN 0
                  ELSE IF n < 7 THEN 5000 * 2^(n - 3) ELSE 60000

-----------------------------------------------------------------------------
(* The strengthening that makes them inductive.                            *)

\* As many ids were issued since seen as lie between the two, zero left out.
IdInv ==
  /\ seen \in Id /\ issued \in Id /\ age \in 0..Half
  /\ \/ issued = seen + age
     \/ issued + (Modulus - 1) = seen + age

\* Each retry needs the loop one step further than the one before it.
RetryInv ==
  /\ sta_retry_count \in Nat
  /\ sta_retry_count >= 3 =>
       doubled[sta_retry_count - 3] =
         IF sta_retry_count < 7 THEN 5000 * 2^(sta_retry_count - 3) ELSE 80000
=============================================================================
