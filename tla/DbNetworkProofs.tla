--------------------------- MODULE DbNetworkProofs --------------------------
(***************************************************************************)
(* The order of request ids, for every word size, 2^32 included: what the  *)
(* operators compute, and what a client that remembers an id may conclude. *)
(***************************************************************************)
EXTENDS DbNetwork, TLAPS

\* A difference of two ids is a word, and zero only for equal ids.
LEMMA DistanceInWord ==
  ASSUME NEW a \in Word, NEW b \in Word
  PROVE  distance(a, b) \in Word /\ (distance(a, b) = 0 <=> a = b)
BY ModulusAssumption DEF Word, distance

\* The two differences of distinct ids add up to one turn of the word.
LEMMA DistancesAddUp ==
  ASSUME NEW a \in Word, NEW b \in Word, a # b
  PROVE  distance(a, b) + distance(b, a) = Modulus
BY ModulusAssumption DEF Word, distance

\* db_request_id_next stays in the word and never returns the reserved zero.
THEOREM NextIsId == \A current \in Word : db_request_id_next(current) \in Id
BY ModulusAssumption DEF Word, Id, db_request_id_next

\* No id is newer than itself, and of two ids at most one is newer: a client
\* and the firmware cannot both take the other's id for the newer one.
THEOREM NewerIsStrict ==
  \A a, b \in Word :
    db_request_id_is_newer(a, b) => a # b /\ ~db_request_id_is_newer(b, a)
<1> SUFFICES ASSUME NEW a \in Word, NEW b \in Word, db_request_id_is_newer(a, b)
             PROVE  a # b /\ ~db_request_id_is_newer(b, a)
  OBVIOUS
<1>1. distance(a, b) # 0 /\ distance(a, b) < Half
  BY DEF db_request_id_is_newer
<1>2. a # b
  BY <1>1, DistanceInWord
<1>3. distance(a, b) + distance(b, a) = Modulus
  BY <1>2, DistancesAddUp
<1>4. distance(a, b) \in Nat /\ distance(b, a) \in Nat
  BY DistanceInWord, ModulusAssumption DEF Word
<1>5. Modulus = 2 * Half /\ Half \in Int
  BY ModulusAssumption DEF Half
<1>6. ~(distance(b, a) < Half)
  BY <1>1, <1>3, <1>4, <1>5
<1> QED
  BY <1>2, <1>6 DEF db_request_id_is_newer

\* Every id is followed by a newer one, across the wrap that skips zero.
THEOREM NextIsNewer ==
  \A current \in Word : db_request_id_is_newer(db_request_id_next(current), current)
<1> SUFFICES ASSUME NEW current \in Word
             PROVE  db_request_id_is_newer(db_request_id_next(current), current)
  OBVIOUS
<1> DEFINE d == distance(db_request_id_next(current), current)
<1>1. d \in {1, 2}
  BY ModulusAssumption DEF Word, distance, db_request_id_next
<1>2. 2 < Half
  BY ModulusAssumption DEF Half
<1> QED
  BY <1>1, <1>2, ModulusAssumption DEF db_request_id_is_newer, Half

-----------------------------------------------------------------------------
(* Ids that a client saw at different times.                               *)

\* Half the word.
LEMMA HalfWord ==
  /\ Half \in Nat /\ Modulus = 2 * Half /\ Half > 2 /\ Modulus \in Nat
  /\ Word = 0..(Modulus - 1) /\ Id = 1..(Modulus - 1)
BY ModulusAssumption DEF Half, Word, Id

\* A sum of two words is reduced by one turn at most.
LEMMA ReducedOnce ==
  ASSUME NEW a \in Nat, NEW b \in Nat, a + b < 2 * Modulus
  PROVE  /\ a + b < Modulus => (a + b) % Modulus = a + b
         /\ a + b >= Modulus => (a + b) % Modulus = a + b - Modulus
<1>1. Modulus \in Nat /\ Modulus > 0
  BY HalfWord
<1> QED
  BY <1>1

\* The ids between the one remembered and the latest are counted, around the
\* wrap too.
LEMMA IdInvariant == Spec => []IdInv
<1>1. Init => IdInv
  BY HalfWord DEF Init, IdInv
<1>2. IdInv /\ [Next]_vars => IdInv'
  <2> SUFFICES ASSUME IdInv, [Next]_vars PROVE IdInv'
    OBVIOUS
  <2>1. CASE Issue
    <3>1. /\ seen \in 1..(Modulus - 1) /\ issued \in 1..(Modulus - 1) /\ age \in Nat
          /\ age < Half /\ age' = age + 1 /\ seen' = seen
          /\ issued' = IF issued + 1 = Modulus THEN 1 ELSE issued + 1
          /\ \/ issued = seen + age
             \/ issued + (Modulus - 1) = seen + age
      BY <2>1, HalfWord DEF Issue, IdInv, db_request_id_next
    <3>2. issued' \in 1..(Modulus - 1) /\ age' \in 0..Half
      BY <3>1, HalfWord
    <3>3. CASE issued + 1 = Modulus
      <4>1. issued = seen + age /\ issued' = 1
        BY <3>1, <3>3, HalfWord
      <4>2. issued' + (Modulus - 1) = seen' + age'
        BY <3>1, <3>3, <4>1, HalfWord
      <4> QED
        BY <3>1, <3>2, <4>2, HalfWord DEF IdInv
    <3>4. CASE issued + 1 # Modulus
      <4>1. \/ issued' = seen' + age'
            \/ issued' + (Modulus - 1) = seen' + age'
        BY <3>1, <3>4, HalfWord
      <4> QED
        BY <3>1, <3>2, <4>1, HalfWord DEF IdInv
    <3> QED
      BY <3>3, <3>4
  <2>2. CASE UNCHANGED ids
    BY <2>2 DEF ids, IdInv
  <2> QED
    BY <2>1, <2>2 DEF Next, sta_schedule_retry, vars
<1> QED
  BY <1>1, <1>2, PTL DEF Spec

\* A client that sees an id later than another takes it for the newer one, and
\* never the other way round, while fewer than half the word lie between them
\* (db_request_id_is_newer).
THEOREM LaterIsAlwaysNewer == Spec => []LaterIsNewer
<1>1. IdInv => LaterIsNewer
  <2> SUFFICES ASSUME IdInv, age \in 1..(Half - 2)
               PROVE  /\ db_request_id_is_newer(issued, seen)
                      /\ ~db_request_id_is_newer(seen, issued)
    BY DEF LaterIsNewer
  <2>1. /\ seen \in 1..(Modulus - 1) /\ issued \in 1..(Modulus - 1)
        /\ age \in Nat /\ age >= 1 /\ age <= Half - 2
    BY HalfWord DEF IdInv
  <2>2. /\ distance(issued, seen) \in 1..(Half - 1)
        /\ distance(seen, issued) >= Half
    <3>1. CASE issued = seen + age
      BY <2>1, <3>1, HalfWord DEF distance
    <3>2. CASE issued + (Modulus - 1) = seen + age
      BY <2>1, <3>2, HalfWord DEF distance
    <3> QED
      BY <3>1, <3>2 DEF IdInv
  <2>3. distance(seen, issued) \in Int
    BY <2>1, HalfWord DEF distance
  <2> QED
    BY <2>2, <2>3, HalfWord DEF db_request_id_is_newer
<1> QED
  BY <1>1, IdInvariant, PTL

\* The comparison of two 32-bit numbers is the one of modular counting: newer
\* means ahead by less than half the word (db_request_id_is_newer).
THEOREM NewerIsAlwaysAhead == Spec => []NewerIsAhead
<1>1. IdInv => NewerIsAhead
  <2> SUFFICES ASSUME IdInv, NEW other \in Id
               PROVE  db_request_id_is_newer(other, issued) <=>
                        \E ahead \in 1..(Half - 1) : other = (issued + ahead) % Modulus
    BY DEF NewerIsAhead
  <2>1. other \in 1..(Modulus - 1) /\ issued \in 1..(Modulus - 1)
    BY HalfWord DEF IdInv
  <2>2. \A ahead \in 1..(Half - 1) :
          /\ issued + ahead < Modulus => (issued + ahead) % Modulus = issued + ahead
          /\ issued + ahead >= Modulus => (issued + ahead) % Modulus = issued + ahead - Modulus
    <3> TAKE ahead \in 1..(Half - 1)
    <3>1. issued \in Nat /\ ahead \in Nat /\ issued + ahead < 2 * Modulus
      BY <2>1, HalfWord
    <3> QED
      BY ONLY <3>1, ReducedOnce
  <2> DEFINE d == distance(other, issued)
  <2>3. ASSUME db_request_id_is_newer(other, issued)
        PROVE  \E ahead \in 1..(Half - 1) : other = (issued + ahead) % Modulus
    <3>1. d \in Nat /\ d # 0 /\ d < Half
      BY <2>1, <2>3, HalfWord DEF distance, db_request_id_is_newer
    <3>2. d \in 1..(Half - 1)
      BY <3>1, HalfWord
    <3>3. issued + d = other \/ (issued + d = other + Modulus)
      BY <2>1, HalfWord DEF distance
    <3> HIDE DEF d
    <3>4. other = (issued + d) % Modulus
      BY <2>1, <2>2, <3>2, <3>3, HalfWord
    <3> QED
      BY <3>2, <3>4
  <2>4. ASSUME NEW ahead \in 1..(Half - 1), other = (issued + ahead) % Modulus
        PROVE  db_request_id_is_newer(other, issued)
    <3>1. other = issued + ahead \/ other = issued + ahead - Modulus
      BY <2>1, <2>2, <2>4, HalfWord
    <3>2. d = ahead
      BY <2>1, <3>1, HalfWord DEF distance
    <3> QED
      BY <3>2, HalfWord DEF db_request_id_is_newer
  <2> QED
    BY <2>3, <2>4
<1> QED
  BY <1>1, IdInvariant, PTL

-----------------------------------------------------------------------------
(* The waits of a station that never gets an address.                      *)

\* A function that does what the loop does, step for step, exists.
LEMMA LoopEnds ==
  \E f : f = [step \in Nat |->
    IF step = 0 THEN DB_STA_BACKOFF_MIN_MS
    ELSE LET delay == f[step - 1]
         IN IF delay < DB_STA_BACKOFF_MAX_MS THEN 2 * delay ELSE delay]
<1> DEFINE closed == [step \in Nat |->
      IF step = 0 THEN 5000 ELSE IF step = 1 THEN 10000 ELSE IF step = 2 THEN 20000
      ELSE IF step = 3 THEN 40000 ELSE 80000]
<1>1. closed = [step \in Nat |->
        IF step = 0 THEN DB_STA_BACKOFF_MIN_MS
        ELSE LET delay == closed[step - 1]
             IN IF delay < DB_STA_BACKOFF_MAX_MS THEN 2 * delay ELSE delay]
  BY DEF DB_STA_BACKOFF_MIN_MS, DB_STA_BACKOFF_MAX_MS
<1> HIDE DEF closed
<1> QED
  BY ONLY <1>1, Zenon

\* So one more step of the loop doubles the delay that is below the ceiling.
LEMMA Doubling ==
  /\ doubled[0] = 5000
  /\ \A step \in Nat \ {0} :
       doubled[step] = IF doubled[step - 1] < 60000 THEN 2 * doubled[step - 1]
                       ELSE doubled[step - 1]
<1>1. doubled = [step \in Nat |->
        IF step = 0 THEN DB_STA_BACKOFF_MIN_MS
        ELSE LET delay == doubled[step - 1]
             IN IF delay < DB_STA_BACKOFF_MAX_MS THEN 2 * delay ELSE delay]
  BY LoopEnds DEF doubled
<1> QED
  BY <1>1 DEF DB_STA_BACKOFF_MIN_MS, DB_STA_BACKOFF_MAX_MS

\* The delays of the attempts in between.
LEMMA Powers ==
  ASSUME NEW k \in Nat
  PROVE  /\ k = 3 => 5000 * 2^(k - 3) = 5000
         /\ k = 4 => 5000 * 2^(k - 3) = 10000
         /\ k = 5 => 5000 * 2^(k - 3) = 20000
         /\ k = 6 => 5000 * 2^(k - 3) = 40000
<1>1. 2^0 = 1 /\ 2^1 = 2 /\ 2^2 = 4 /\ 2^3 = 8
  OBVIOUS
<1>2. CASE k = 3
  BY <1>1, <1>2
<1>3. CASE k = 4
  BY <1>1, <1>3
<1>4. CASE k = 5
  BY <1>1, <1>4
<1>5. CASE k = 6
  BY <1>1, <1>5
<1> QED
  BY <1>2, <1>3, <1>4, <1>5

\* However often the station has failed, the loop gives what the documents say:
\* the induction over the attempts is the one over the steps of the station
\* (db_sta_retry_delay_ms, sta_schedule_retry).
THEOREM DelayIsAsDocumented == Spec => []DelayAsDocumented
<1> DEFINE I == RetryInv /\ DelayAsDocumented
<1>1. Init => I
  BY DEF Init, RetryInv, DelayAsDocumented
<1>2. I /\ [Next]_vars => I'
  <2> SUFFICES ASSUME I, [Next]_vars PROVE I'
    OBVIOUS
  <2>1. CASE UNCHANGED retries
    BY <2>1 DEF retries, RetryInv, DelayAsDocumented
  <2>2. CASE sta_schedule_retry
    <3> DEFINE n == sta_retry_count
    <3>1. /\ n \in Nat /\ sta_retry_count' = n + 1
          /\ delay_ms' = db_sta_retry_delay_ms(n)
          /\ n >= 3 => doubled[n - 3] = IF n < 7 THEN 5000 * 2^(n - 3) ELSE 80000
      BY <2>2 DEF sta_schedule_retry, RetryInv
    <3> HIDE DEF n
    <3>2. n + 1 \in Nat /\ (n + 1) - 3 = n - 2 /\ (n + 1) - 1 = n
      BY <3>1
    <3>3. CASE n < 3
      <4>1. delay_ms' = 0
        BY <3>1, <3>3 DEF db_sta_retry_delay_ms, DB_STA_FAST_RETRIES
      <4>2. DelayAsDocumented'
        BY <3>1, <3>2, <3>3, <4>1 DEF DelayAsDocumented
      <4>3. n + 1 >= 3 => n - 2 = 0 /\ n + 1 = 3
        BY <3>1, <3>3
      <4>4. n + 1 >= 3 => doubled[n - 2] = 5000 * 2^((n + 1) - 3)
        BY <3>2, <4>3, Doubling, Powers
      <4>5. RetryInv'
        BY <3>1, <3>2, <4>3, <4>4 DEF RetryInv
      <4> QED
        BY <4>2, <4>5
    <3>4. CASE n >= 3
      <4>1. delay_ms' = IF doubled[n - 3] < 60000 THEN doubled[n - 3] ELSE 60000
        BY <3>1, <3>4
           DEF db_sta_retry_delay_ms, DB_STA_FAST_RETRIES, DB_STA_BACKOFF_MAX_MS
      <4>2. doubled[n - 2] = IF doubled[n - 3] < 60000 THEN 2 * doubled[n - 3]
                             ELSE doubled[n - 3]
        BY <3>1, <3>4, Doubling
      <4>3. \/ n = 3 /\ doubled[n - 3] = 5000
            \/ n = 4 /\ doubled[n - 3] = 10000
            \/ n = 5 /\ doubled[n - 3] = 20000
            \/ n = 6 /\ doubled[n - 3] = 40000
            \/ n >= 7 /\ doubled[n - 3] = 80000
        <5>1. n = 3 \/ n = 4 \/ n = 5 \/ n = 6 \/ n >= 7
          BY <3>1, <3>4
        <5> QED
          BY <3>1, <3>4, <5>1, Powers
      <4>4. delay_ms' = IF n < 7 THEN 5000 * 2^(n - 3) ELSE 60000
        BY <3>1, <4>1, <4>3, Powers
      <4>5. doubled[n - 2] = IF n + 1 < 7 THEN 5000 * 2^((n + 1) - 3) ELSE 80000
        <5>1. \/ n + 1 = 4 /\ doubled[n - 2] = 10000
              \/ n + 1 = 5 /\ doubled[n - 2] = 20000
              \/ n + 1 = 6 /\ doubled[n - 2] = 40000
              \/ n + 1 >= 7 /\ doubled[n - 2] = 80000
          BY <3>1, <4>2, <4>3
        <5> QED
          BY ONLY <3>2, <5>1, Powers
      <4>6. DelayAsDocumented'
        BY <3>1, <3>2, <3>4, <4>4 DEF DelayAsDocumented
      <4>7. RetryInv'
        BY <3>1, <3>2, <4>5 DEF RetryInv
      <4> QED
        BY <4>6, <4>7
    <3> QED
      BY <3>1, <3>3, <3>4
  <2> QED
    BY <2>1, <2>2 DEF Next, Issue, vars
<1>3. I => DelayAsDocumented
  OBVIOUS
<1> HIDE DEF I
<1> QED
  BY <1>1, <1>2, <1>3, PTL DEF Spec
=============================================================================
