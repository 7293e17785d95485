--------------------------- MODULE EventRingProofs --------------------------
(***************************************************************************)
(* Proofs, for a ring of any size and any number of emitting tasks, that   *)
(* events_get reads the ring as the log of the latest lines, that the      *)
(* numbers of the lines have no gap unless two calls overlapped, and that  *)
(* the ring implements EventLog.                                           *)
(***************************************************************************)
EXTENDS EventRing, SequenceTheorems, TLAPS

-----------------------------------------------------------------------------
(* The arithmetic of the ring.                                             *)

Wrap(n) == n % DB_EVENT_CAPACITY

\* Going around the ring once at most.
LEMMA Around ==
  \A n \in 0..(2 * DB_EVENT_CAPACITY - 1) :
    Wrap(n) =
      IF n < DB_EVENT_CAPACITY THEN n ELSE n - DB_EVENT_CAPACITY
<1> DEFINE size == DB_EVENT_CAPACITY
<1> SUFFICES ASSUME NEW n \in 0..(2 * size - 1)
             PROVE  n % size = IF n < size THEN n ELSE n - size
  BY DEF Wrap
<1>0. size \in Nat \ {0}
  BY RingAssumption
<1> HIDE DEF size
<1>1. CASE n < size
  BY <1>0, <1>1
<1>2. CASE n >= size
  <2>1. n = size * 1 + (n - size) /\ n - size \in 0..(size - 1)
    BY <1>0, <1>2
  <2> QED
    BY <1>0, <1>2, <2>1, Z3
<1> QED
  BY <1>0, <1>1, <1>2

\* The slot of the oldest of count lines, and that of the line at index i.
Oldest(head, count) == Wrap(head + DB_EVENT_CAPACITY - count)
SlotOf(head, count, i) == Wrap(Oldest(head, count) + i - 1)

Count == 0..DB_EVENT_CAPACITY
Index == 1..DB_EVENT_CAPACITY

\* Indices are mapped to slots.
LEMMA SlotIs ==
  ASSUME NEW head \in Slots, NEW count \in Count, NEW i \in Index
  PROVE  /\ SlotOf(head, count, i) \in Slots
         /\ SlotOf(head, count, i) =
              LET place == head - count + i - 1
              IN IF place < 0 THEN place + DB_EVENT_CAPACITY
                 ELSE IF place < DB_EVENT_CAPACITY THEN place
                 ELSE place - DB_EVENT_CAPACITY
<1> DEFINE size == DB_EVENT_CAPACITY
           oldest == Oldest(head, count)
<1>0. /\ size \in Nat \ {0} /\ head \in 0..(size - 1) /\ count \in 0..size
      /\ i \in 1..size
  BY RingAssumption DEF Slots, Count, Index
<1>a. \A n \in 0..(2 * size - 1) : Wrap(n) = IF n < size THEN n ELSE n - size
  BY Around
<1>1. oldest = IF head < count THEN head + size - count ELSE head - count
  <2> DEFINE n == head + size - count
  <2>1. n \in 0..(2 * size - 1)
    BY <1>0
  <2>2. oldest = Wrap(n)
    BY DEF Oldest
  <2> HIDE DEF size, oldest, n
  <2>3. oldest = IF n < size THEN n ELSE n - size
    BY <1>a, <2>1, <2>2
  <2> QED
    BY <1>0, <2>3 DEF n
<1>2. SlotOf(head, count, i) = IF oldest + i - 1 < size THEN oldest + i - 1
                               ELSE oldest + i - 1 - size
  <2> DEFINE n == oldest + i - 1
  <2>1. SlotOf(head, count, i) = Wrap(n)
    BY DEF SlotOf
  <2> HIDE DEF size, oldest
  <2>2. n \in 0..(2 * size - 1)
    BY <1>0, <1>1
  <2> HIDE DEF n
  <2>3. SlotOf(head, count, i) = IF n < size THEN n ELSE n - size
    BY <1>a, <2>1, <2>2
  <2> QED
    BY <1>0, <1>1, <2>3 DEF n
<1> HIDE DEF size, oldest
<1>3. SlotOf(head, count, i) = LET place == head - count + i - 1
                               IN IF place < 0 THEN place + size
                                  ELSE IF place < size THEN place ELSE place - size
  BY <1>0, <1>1, <1>2
<1>4. SlotOf(head, count, i) \in 0..(size - 1)
  BY <1>0, <1>3
<1> QED
  BY <1>3, <1>4 DEF size, Slots

\* Two lines are never in one slot.
LEMMA Apart ==
  ASSUME NEW head \in Slots, NEW count \in Count, NEW i \in Index, NEW j \in Index,
         SlotOf(head, count, i) = SlotOf(head, count, j)
  PROVE  i = j
<1>1. \A k \in Index :
        SlotOf(head, count, k) =
          LET place == head - count + k - 1
          IN IF place < 0 THEN place + DB_EVENT_CAPACITY
             ELSE IF place < DB_EVENT_CAPACITY THEN place
             ELSE place - DB_EVENT_CAPACITY
  BY SlotIs
<1> DEFINE r == SlotOf(head, count, i)
           t == SlotOf(head, count, j)
<1>2. /\ r = LET place == head - count + i - 1
              IN IF place < 0 THEN place + DB_EVENT_CAPACITY
                 ELSE IF place < DB_EVENT_CAPACITY THEN place
                 ELSE place - DB_EVENT_CAPACITY
      /\ t = LET place == head - count + j - 1
              IN IF place < 0 THEN place + DB_EVENT_CAPACITY
                 ELSE IF place < DB_EVENT_CAPACITY THEN place
                 ELSE place - DB_EVENT_CAPACITY
      /\ r = t
  BY <1>1
<1> HIDE DEF r, t
<1> QED
  BY <1>2, RingAssumption DEF Slots, Count, Index

\* The next line goes after the newest one, or takes the slot of the oldest.
LEMMA HeadSlot ==
  ASSUME NEW head \in Slots, NEW count \in Count
  PROVE  head = SlotOf(head, count, IF count < DB_EVENT_CAPACITY THEN count + 1 ELSE 1)
<1> DEFINE i == IF count < DB_EVENT_CAPACITY THEN count + 1 ELSE 1
<1>1. i \in Index
  BY RingAssumption DEF Count, Index
<1>2. SlotOf(head, count, i) =
              LET place == head - count + i - 1
              IN IF place < 0 THEN place + DB_EVENT_CAPACITY
                 ELSE IF place < DB_EVENT_CAPACITY THEN place
                 ELSE place - DB_EVENT_CAPACITY
  BY <1>1, SlotIs
<1> QED
  BY <1>2, RingAssumption DEF Slots, Count

\* How many of count lines the next line pushes out, and where head goes.
Dropped(count) == IF count < DB_EVENT_CAPACITY THEN 0 ELSE 1
After(head) == Wrap(head + 1)

\* All lines but the new one were there.
LEMMA KeptIndex ==
  ASSUME NEW count \in Count
  PROVE  /\ Counted(count) \in Nat \ {0}
         /\ \A i \in 1..Counted(count) :
              i # Counted(count) => i + Dropped(count) \in 1..count
BY RingAssumption DEF Count, Counted, Dropped

\* A new line makes the window of the lines one longer or moves it on by one.
LEMMA Moves ==
  ASSUME NEW head \in Slots, NEW count \in Count
  PROVE  /\ After(head) \in Slots
         /\ Counted(count) \in Count \ {0}
         /\ Counted(count) = count + 1 - Dropped(count)
         /\ \A i \in 1..Counted(count) :
              /\ i \in Index
              /\ i < Counted(count) => i + Dropped(count) \in 1..count
              /\ SlotOf(After(head), Counted(count), i) =
                   IF i = Counted(count) THEN head
                   ELSE SlotOf(head, count, i + Dropped(count))
<1> DEFINE size == DB_EVENT_CAPACITY
<1>0. size \in Nat \ {0} /\ head \in 0..(size - 1) /\ count \in 0..size
  BY RingAssumption DEF Slots, Count
<1>1. After(head) = IF head + 1 < size THEN head + 1 ELSE 0
  <2> DEFINE n == head + 1
  <2>1. n \in 0..(2 * size - 1)
    BY <1>0
  <2>2. \A m \in 0..(2 * size - 1) : Wrap(m) = IF m < size THEN m ELSE m - size
    BY Around
  <2> HIDE DEF size, n
  <2>3. Wrap(n) = IF n < size THEN n ELSE n - size
    BY <2>1, <2>2
  <2> QED
    BY <1>0, <2>3 DEF n, After
<1>2. Counted(count) = count + 1 - Dropped(count) /\ Counted(count) \in 1..size
      /\ Dropped(count) = IF count < size THEN 0 ELSE 1
  BY <1>0 DEF Counted, Dropped
<1>3. After(head) \in Slots /\ Counted(count) \in Count \ {0}
  BY <1>0, <1>1, <1>2 DEF Slots, Count
<1>4. ASSUME NEW i \in 1..Counted(count)
      PROVE  /\ i \in Index
             /\ i < Counted(count) => i + Dropped(count) \in 1..count
             /\ SlotOf(After(head), Counted(count), i) =
                  IF i = Counted(count) THEN head
                  ELSE SlotOf(head, count, i + Dropped(count))
  <2>1. i \in Index /\ (i < Counted(count) => i + Dropped(count) \in 1..count)
    BY <1>0, <1>2 DEF Index
  <2> DEFINE new == SlotOf(After(head), Counted(count), i)
  <2>2. new = LET place == After(head) - Counted(count) + i - 1
              IN IF place < 0 THEN place + size
                 ELSE IF place < size THEN place ELSE place - size
    BY <1>3, <2>1, SlotIs
  <2>3. CASE i = Counted(count)
    <3> HIDE DEF size, new
    <3>1. new = head
      BY <1>0, <1>1, <1>2, <2>2, <2>3
    <3> QED
      BY <2>1, <2>3, <3>1 DEF new
  <2>4. CASE i # Counted(count)
    <3> DEFINE old == SlotOf(head, count, i + Dropped(count))
    <3>1. i + Dropped(count) \in Index
      BY <1>0, <1>2, <2>1, <2>4 DEF Index
    <3>2. old = LET place == head - count + (i + Dropped(count)) - 1
                IN IF place < 0 THEN place + size
                   ELSE IF place < size THEN place ELSE place - size
      BY <3>1, SlotIs
    <3> HIDE DEF size, new, old
    <3>3. new = old
      BY <1>0, <1>1, <1>2, <2>2, <2>4, <3>2
    <3> QED
      BY <2>1, <2>4, <3>3 DEF new, old
  <2> QED
    BY <2>3, <2>4
<1> QED
  BY <1>2, <1>3, <1>4

-----------------------------------------------------------------------------
(* What a commit does to the lines.                                        *)

View(slots, head, count) == [i \in 1..count |-> slots[SlotOf(head, count, i)].json]

\* The lines snapshot_events_locked copies, now and after a step.
LEMMA ViewIs ==
  /\ snapshot_events_locked = View(events, event_head, event_count)
  /\ snapshot_events_locked' = View(events', event_head', event_count')
BY DEF snapshot_events_locked, start, View, SlotOf, Oldest, Wrap

\* The kept lines move by those dropped, and the new one is the last.
Shifted(view, count, line) ==
  [i \in 1..Counted(count) |->
     IF i = Counted(count) THEN line ELSE view[i + Dropped(count)]]

\* Overwriting the slot at the head changes no line that is kept.
LEMMA SlotWritten ==
  ASSUME NEW slots, DOMAIN slots = Slots, NEW head \in Slots, NEW count \in Count,
         NEW cell
  PROVE  View([slots EXCEPT ![head] = cell], After(head), Counted(count)) =
           Shifted(View(slots, head, count), count, cell.json)
<1> DEFINE new == [slots EXCEPT ![head] = cell]
<1> SUFFICES ASSUME NEW i \in 1..Counted(count)
             PROVE  new[SlotOf(After(head), Counted(count), i)].json =
                      IF i = Counted(count) THEN cell.json
                      ELSE View(slots, head, count)[i + Dropped(count)]
  BY DEF View, Shifted
<1>1. CASE i = Counted(count)
  BY <1>1, Moves
<1>2. CASE i # Counted(count)
  <2> DEFINE k == i + Dropped(count)
             newest == IF count < DB_EVENT_CAPACITY THEN count + 1 ELSE 1
  <2>2. k \in 1..count /\ SlotOf(After(head), Counted(count), i) = SlotOf(head, count, k)
    BY <1>2, Moves, KeptIndex
  <2>3. k \in Index /\ newest \in Index /\ k # newest
    BY <2>2, RingAssumption DEF Count, Index, Dropped
  <2>4. SlotOf(head, count, k) # head
    BY <2>3, HeadSlot, Apart
  <2>5. SlotOf(head, count, k) \in Slots
    BY <2>3, SlotIs
  <2>6. new[SlotOf(head, count, k)].json = slots[SlotOf(head, count, k)].json
    BY <2>4, <2>5
  <2>7. View(slots, head, count)[k] = slots[SlotOf(head, count, k)].json
    BY <2>2 DEF View
  <2> HIDE DEF k, new
  <2>8. new[SlotOf(After(head), Counted(count), i)].json = View(slots, head, count)[k]
    BY <2>2, <2>6, <2>7
  <2> QED
    BY <1>2, <2>8 DEF k
<1> QED
  BY <1>1, <1>2

\* A commit appends the emitter's line, and a full ring loses its oldest one.
LEMMA CommitView ==
  ASSUME TypeOK, NEW e \in Emitter, Commit(e)
  PROVE  /\ snapshot_events_locked' =
              Shifted(snapshot_events_locked, event_count, emit[e].line)
         /\ event_count' = Counted(event_count) /\ event_head' = After(event_head)
         /\ event_head \in Slots /\ event_count \in Count
<1> DEFINE cell == [seq |-> event_seq, json |-> emit[e].line]
<1>1. DOMAIN events = Slots /\ event_head \in Slots /\ event_count \in Count
  BY DEF TypeOK, Count
<1>2. /\ events' = [events EXCEPT ![event_head] = cell]
      /\ event_head' = After(event_head) /\ event_count' = Counted(event_count)
  BY DEF Commit, After, Wrap
<1>3. View(events', event_head', event_count') =
        Shifted(View(events, event_head, event_count), event_count, cell.json)
  BY <1>1, <1>2, SlotWritten
<1> QED
  BY <1>1, <1>2, <1>3, ViewIs

\* What leaves the ring alone leaves the lines alone.
LEMMA SameView ==
  ASSUME UNCHANGED ring
  PROVE  UNCHANGED snapshot_events_locked
BY DEF ring, snapshot_events_locked, start

-----------------------------------------------------------------------------
(* What the steps of emit_event do to their task.                          *)

Calling == [pc : {"idle", "store", "lock", "commit"}, loaded : 0..MaxEvents,
            line : Line \cup {NoLine}]

\* No step of a task touches another one's call.
LEMMA EmitEffect ==
  ASSUME emit \in [Emitter -> Calling], NEW e \in Emitter, EmitStep(e)
  PROVE  /\ \A other \in Emitter \ {e} : emit'[other] = emit[other]
         /\ SeqLoad(e) => emit'[e] = [emit[e] EXCEPT !.pc = "store", !.loaded = event_seq]
         /\ SeqStore(e) =>
              \E text \in Text :
                emit'[e] = [emit[e] EXCEPT !.pc = "lock",
                              !.line = [seq |-> Numbered(e), by |-> e, text |-> text]]
         /\ EmitTake(e) => emit'[e] = [emit[e] EXCEPT !.pc = "commit"]
         /\ Commit(e) => emit'[e] = [emit[e] EXCEPT !.pc = "idle"]
<1>1. SeqLoad(e) => emit' = [emit EXCEPT ![e] = [emit[e] EXCEPT !.pc = "store", !.loaded = event_seq]]
  BY DEF SeqLoad
<1>2. SeqStore(e) =>
        \E text \in Text :
          emit' = [emit EXCEPT ![e] = [emit[e] EXCEPT !.pc = "lock",
                     !.line = [seq |-> Numbered(e), by |-> e, text |-> text]]]
  BY DEF SeqStore
<1>3. EmitTake(e) => emit' = [emit EXCEPT ![e] = [emit[e] EXCEPT !.pc = "commit"]]
  BY DEF EmitTake
<1>4. Commit(e) => emit' = [emit EXCEPT ![e] = [emit[e] EXCEPT !.pc = "idle"]]
  BY DEF Commit
<1>5. \A new : emit' = [emit EXCEPT ![e] = new] =>
        emit'[e] = new /\ \A other \in Emitter \ {e} : emit'[other] = emit[other]
  OBVIOUS
<1>6. SeqStore(e) => \A other \in Emitter \ {e} : emit'[other] = emit[other]
  BY <1>2, <1>5
<1> QED
  BY <1>1, <1>2, <1>3, <1>4, <1>5, <1>6 DEF EmitStep

-----------------------------------------------------------------------------
(* Type correctness, and numbers that do not run ahead.                    *)

\* The initial states have their types.
LEMMA InitType == Init => TypeOK
<1> SUFFICES ASSUME Init PROVE TypeOK
  OBVIOUS
<1>1. 0 \in 0..MaxEvents /\ 0 \in Slots /\ 0 \in 0..DB_EVENT_CAPACITY
  BY RingAssumption DEF Slots
<1>2. events \in [Slots -> [seq : 0..MaxEvents, json : Line \cup {NoLine}]]
  BY <1>1 DEF Init
<1>3. emit \in [Emitter -> [pc : {"idle", "store", "lock", "commit"},
                           loaded : 0..MaxEvents, line : Line \cup {NoLine}]]
  BY <1>1 DEF Init
<1>4. <<>> \in Seq(Line)
  BY EmptySeq
<1>5. reply \in [status : {"none", "unavailable", "open", "complete", "broken"},
                lines : Seq(Line)] /\ snapshot \in Seq(Line)
  BY <1>4 DEF Init, Reply
<1> QED
  BY <1>1, <1>2, <1>3, <1>5 DEF Init, TypeOK

\* A step of a call keeps the types and the numbers of the calls.
LEMMA EmitStepType ==
  ASSUME TypeOK, CallsCounted, LinesReal, NEW e \in Emitter, EmitStep(e)
  PROVE  TypeOK' /\ CallsCounted' /\ (emit[e].pc # "commit" => LinesReal')
<1>0. /\ emit \in [Emitter -> Calling] /\ event_seq \in 0..MaxEvents
      /\ begun \in 0..MaxEvents /\ MaxEvents \in Nat /\ emit[e] \in Calling
  BY RingAssumption DEF TypeOK, Calling
<1>c. UNCHANGED client
  BY DEF EmitStep, SeqLoad, SeqStore, EmitTake, Commit
<1>f. \A new \in Calling : [emit EXCEPT ![e] = new] \in [Emitter -> Calling]
  BY <1>0
<1>1. CASE SeqLoad(e)
  <2>1. /\ begun' = begun + 1 /\ begun < MaxEvents /\ overlapped' \in BOOLEAN
        /\ UNCHANGED <<event_seq, ring, state_lock>>
    BY <1>1 DEF SeqLoad, TypeOK
  <2>2. emit' \in [Emitter -> Calling]
    <3>1. [emit[e] EXCEPT !.pc = "store", !.loaded = event_seq] \in Calling
      BY <1>0 DEF Calling
    <3> QED
      BY <1>1, <1>f, <3>1 DEF SeqLoad
  <2>3. TypeOK'
    BY <1>0, <1>c, <2>1, <2>2 DEF TypeOK, Calling, ring, client
  <2>4. /\ \A other \in Emitter \ {e} : emit'[other] = emit[other]
        /\ emit'[e].pc = "store" /\ emit'[e].loaded = event_seq
    BY <1>0, <1>1, EmitEffect DEF Calling
  <2>5. CallsCounted'
    BY <1>0, <2>1, <2>4 DEF CallsCounted, Calling
  <2>6. LinesReal'
    BY <2>1, <2>4, SameView DEF LinesReal, ring
  <2> QED
    BY <2>3, <2>5, <2>6
<1>2. CASE SeqStore(e)
  <2>1. PICK text \in Text :
          emit' = [emit EXCEPT ![e].pc = "lock",
                     ![e].line = [seq |-> Numbered(e), by |-> e, text |-> text]]
    BY <1>2 DEF SeqStore
  <2> DEFINE line == [seq |-> Numbered(e), by |-> e, text |-> text]
  <2>2. emit[e].loaded \in 0..MaxEvents /\ emit[e].loaded < begun
    BY <1>0, <1>2 DEF SeqStore, CallsCounted, Calling
  <2>3. Numbered(e) \in 1..MaxEvents /\ event_seq' = Numbered(e) /\ event_seq' <= begun
    BY <1>0, <1>2, <2>2 DEF SeqStore, Numbered
  <2>4. line \in Line
    BY <2>3 DEF Line
  <2> HIDE DEF line
  <2>5. emit' \in [Emitter -> Calling]
    <3>1. [emit[e] EXCEPT !.pc = "lock", !.line = line] \in Calling
      BY <1>0, <2>4 DEF Calling
    <3>2. emit' = [emit EXCEPT ![e] = [emit[e] EXCEPT !.pc = "lock", !.line = line]]
      BY <2>1 DEF line
    <3> QED
      BY <1>f, <3>1, <3>2
  <2>6. UNCHANGED <<ring, state_lock, calls>>
    BY <1>2 DEF SeqStore
  <2>7. TypeOK'
    BY <1>0, <1>c, <2>3, <2>5, <2>6 DEF TypeOK, Calling, ring, client, calls
  <2>8. /\ \A other \in Emitter \ {e} : emit'[other] = emit[other]
        /\ emit'[e].pc = "lock" /\ emit'[e].line = line
    BY <1>0, <2>1 DEF Calling, line
  <2>9. CallsCounted'
    BY <2>3, <2>6, <2>8 DEF CallsCounted, calls
  <2>10. LinesReal'
    BY <2>4, <2>6, <2>8, SameView DEF LinesReal, ring
  <2> QED
    BY <2>7, <2>9, <2>10
<1>3. CASE EmitTake(e)
  <2>1. state_lock' = e /\ UNCHANGED <<event_seq, ring, calls>>
    BY <1>3 DEF EmitTake
  <2>2. emit' \in [Emitter -> Calling]
    <3>1. [emit[e] EXCEPT !.pc = "commit"] \in Calling
      BY <1>0 DEF Calling
    <3> QED
      BY <1>3, <1>f, <3>1 DEF EmitTake
  <2>3. TypeOK'
    BY <1>c, <2>1, <2>2 DEF TypeOK, Calling, ring, client, calls
  <2>4. /\ \A other \in Emitter \ {e} : emit'[other] = emit[other]
        /\ emit'[e].pc = "commit" /\ emit'[e].line = emit[e].line
    BY <1>0, <1>3, EmitEffect DEF Calling
  <2>5. CallsCounted'
    BY <2>1, <2>4 DEF CallsCounted, calls
  <2>6. emit[e].pc = "lock"
    BY <1>3 DEF EmitTake
  <2>7. LinesReal'
    BY <2>1, <2>4, <2>6, SameView DEF LinesReal, ring
  <2> QED
    BY <2>3, <2>5, <2>7
<1>4. CASE Commit(e)
  <2>1. /\ emit[e].pc = "commit" /\ state_lock' = "free" /\ UNCHANGED <<event_seq, calls>>
        /\ events' = [events EXCEPT ![event_head] = [seq |-> event_seq, json |-> emit[e].line]]
    BY <1>4 DEF Commit
  <2>2. emit' \in [Emitter -> Calling]
    <3>1. [emit[e] EXCEPT !.pc = "idle"] \in Calling
      BY <1>0 DEF Calling
    <3> QED
      BY <1>4, <1>f, <3>1 DEF Commit
  <2>3. [seq |-> event_seq, json |-> emit[e].line] \in [seq : 0..MaxEvents, json : Line \cup {NoLine}]
    BY <1>0 DEF Calling
  <2>4. events' \in [Slots -> [seq : 0..MaxEvents, json : Line \cup {NoLine}]]
    BY <2>1, <2>3 DEF TypeOK
  <2>5. event_head' \in Slots /\ event_count' \in 0..DB_EVENT_CAPACITY
    BY <1>4, CommitView, Moves DEF Count
  <2>6. TypeOK'
    BY <1>c, <2>1, <2>2, <2>4, <2>5 DEF TypeOK, Calling, client, calls
  <2>7. /\ \A other \in Emitter \ {e} : emit'[other] = emit[other]
        /\ emit'[e].pc = "idle"
    BY <1>0, <1>4, EmitEffect DEF Calling
  <2>8. CallsCounted'
    BY <2>1, <2>7 DEF CallsCounted, calls
  <2> QED
    BY <2>1, <2>6, <2>8
<1> QED
  BY <1>1, <1>2, <1>3, <1>4 DEF EmitStep

\* After a commit the kept lines are still lines.
LEMMA CommitLines ==
  ASSUME TypeOK, LinesReal, NEW e \in Emitter, Commit(e)
  PROVE  LinesReal'
<1> DEFINE view == snapshot_events_locked
<1>1. \A other \in Emitter :
        emit'[other].pc \in {"lock", "commit"} =>
          emit[other].pc \in {"lock", "commit"} /\ emit'[other].line = emit[other].line
  <2>1. emit \in [Emitter -> Calling] /\ emit[e] \in Calling
    BY DEF TypeOK, Calling
  <2> QED
    BY <2>1, EmitEffect DEF EmitStep, Calling
<1>2. emit[e].line \in Line
  BY DEF Commit, LinesReal
<1>3. ASSUME NEW i \in 1..event_count' PROVE view'[i] \in Line
  <2>1. /\ view' = Shifted(view, event_count, emit[e].line)
        /\ event_count' = Counted(event_count)
        /\ event_head \in Slots /\ event_count \in Count
    BY CommitView
  <2>2. i \in 1..Counted(event_count)
    BY <2>1
  <2> HIDE DEF view
  <2>3. view'[i] = IF i = Counted(event_count) THEN emit[e].line
                   ELSE view[i + Dropped(event_count)]
    BY <2>1, <2>2 DEF Shifted
  <2>4. CASE i = Counted(event_count)
    BY <1>2, <2>3, <2>4
  <2>5. CASE i # Counted(event_count)
    <3>1. i + Dropped(event_count) \in 1..event_count
      BY <2>1, <2>2, <2>5, KeptIndex
    <3> QED
      BY <2>3, <2>5, <3>1 DEF LinesReal, view
  <2> QED
    BY <2>4, <2>5
<1> QED
  BY <1>1, <1>3 DEF LinesReal

\* A step of events_get keeps the types, and the numbers and lines.
LEMMA GetStepType ==
  ASSUME TypeOK, RingInv, EventsGet \/ EventsUnavailable \/ SnapshotStep \/ SendStep
  PROVE  TypeOK' /\ CallsCounted' /\ LinesReal'
<1>0. UNCHANGED <<event_seq, ring, emit, calls>>
  BY DEF EventsGet, EventsUnavailable, SnapshotStep, SnapshotTake, SnapshotCopy,
     SendStep, SendLine, SendEnd, SendFails
<1>1. CallsCounted' /\ LinesReal'
  BY <1>0, SameView DEF RingInv, CallsCounted, LinesReal, calls, ring
<1>2. /\ state_lock' \in Emitter \cup {"free", "httpd"}
      /\ httpd' \in {"idle", "lock", "copy", "send"}
  BY DEF TypeOK, EventsGet, EventsUnavailable, SnapshotStep, SnapshotTake, SnapshotCopy,
     SendStep, SendLine, SendEnd, SendFails
<1>3. <<>> \in Seq(Line) /\ reply.lines \in Seq(Line) /\ snapshot \in Seq(Line)
  BY EmptySeq DEF TypeOK
<1>4. snapshot' \in Seq(Line)
  <2>1. CASE SnapshotCopy
    <3>1. event_count \in Nat
      BY RingAssumption DEF TypeOK
    <3>2. snapshot_events_locked \in [1..event_count -> Line]
      BY DEF RingInv, LinesReal, snapshot_events_locked
    <3>3. snapshot_events_locked \in Seq(Line)
      BY <3>1, <3>2, SeqDef
    <3> QED
      BY <2>1, <3>3 DEF SnapshotCopy
  <2>2. CASE ~SnapshotCopy
    BY <1>3, <2>2 DEF EventsGet, EventsUnavailable, SnapshotStep, SnapshotTake,
       SendStep, SendLine, SendEnd, SendFails
  <2> QED
    BY <2>1, <2>2
<1>5. \A status \in {"none", "unavailable", "open", "complete", "broken"},
         lines \in Seq(Line) :
        Reply(status, lines) \in
          [status : {"none", "unavailable", "open", "complete", "broken"}, lines : Seq(Line)]
  BY DEF Reply
<1>6. reply' \in [status : {"none", "unavailable", "open", "complete", "broken"},
                  lines : Seq(Line)]
  <2>1. CASE SendLine
    <3>1. Len(reply.lines) \in Nat /\ Len(snapshot) \in Nat
      BY <1>3, LenProperties
    <3>2. Len(reply.lines) + 1 \in 1..Len(snapshot)
      BY <2>1, <3>1 DEF SendLine
    <3>3. snapshot[Len(reply.lines) + 1] \in Line
      BY <1>3, <3>2, ElementOfSeq
    <3>4. Append(reply.lines, snapshot[Len(reply.lines) + 1]) \in Seq(Line)
      BY <1>3, <3>3, AppendProperties
    <3> QED
      BY <1>5, <2>1, <3>4 DEF SendLine
  <2>2. CASE EventsUnavailable \/ SnapshotCopy \/ SendEnd \/ SendFails
    <3>1. CASE EventsUnavailable
      BY <1>3, <1>5, <3>1 DEF EventsUnavailable
    <3>2. CASE SnapshotCopy
      BY <1>3, <1>5, <3>2 DEF SnapshotCopy
    <3>3. CASE SendEnd
      BY <1>3, <1>5, <3>3 DEF SendEnd
    <3>4. CASE SendFails
      BY <1>3, <1>5, <3>4 DEF SendFails
    <3> QED
      BY <2>2, <3>1, <3>2, <3>3, <3>4
  <2>3. CASE EventsGet \/ SnapshotTake
    BY <2>3 DEF EventsGet, SnapshotTake, TypeOK
  <2> QED
    BY <2>1, <2>2, <2>3 DEF SnapshotStep, SendStep
<1> QED
  BY <1>0, <1>1, <1>2, <1>4, <1>6 DEF TypeOK, ring, calls

\* Every step keeps the types, the numbers and the lines.
LEMMA NextType ==
  TypeOK /\ RingInv /\ [Next]_vars => TypeOK' /\ CallsCounted' /\ LinesReal'
<1> SUFFICES ASSUME TypeOK, RingInv, [Next]_vars
             PROVE  TypeOK' /\ CallsCounted' /\ LinesReal'
  OBVIOUS
<1>1. ASSUME NEW e \in Emitter, EmitStep(e)
      PROVE  TypeOK' /\ CallsCounted' /\ LinesReal'
  <2>1. CASE Commit(e)
    BY <1>1, <2>1, EmitStepType, CommitLines DEF RingInv
  <2>2. CASE ~Commit(e)
    <3>1. emit[e].pc # "commit"
      BY <1>1, <2>2 DEF EmitStep, SeqLoad, SeqStore, EmitTake
    <3> QED
      BY <1>1, <3>1, EmitStepType DEF RingInv
  <2> QED
    BY <2>1, <2>2
<1>2. CASE UNCHANGED vars
  <2>1. UNCHANGED ring
    BY <1>2 DEF vars, ring
  <2> QED
    BY <1>2, <2>1, SameView
    DEF vars, ring, calls, client, TypeOK, RingInv, CallsCounted, LinesReal
<1> QED
  BY <1>1, <1>2, GetStepType DEF Next

-----------------------------------------------------------------------------
(* One call at a time, and no gap in its numbers.                          *)

\* A step of a call keeps the turns.
LEMMA EmitInTurn ==
  ASSUME TypeOK, InTurn, NEW e \in Emitter, EmitStep(e)
  PROVE  InTurn'
<1> SUFFICES ASSUME ~overlapped'
             PROVE  /\ \A one, other \in Emitter :
                         emit'[one].pc # "idle" /\ emit'[other].pc # "idle" => one = other
                    /\ \A one \in Emitter :
                         /\ emit'[one].pc = "store" => emit'[one].loaded = event_seq'
                         /\ emit'[one].pc \in {"lock", "commit"} =>
                              emit'[one].line.seq = event_seq'
  BY DEF InTurn
<1>0. emit \in [Emitter -> Calling] /\ emit[e] \in Calling
  BY DEF TypeOK, Calling
<1>1. /\ \A other \in Emitter \ {e} : emit'[other] = emit[other]
      /\ \A other \in Emitter \ {e} : emit[other].pc = "idle"
  <2>1. \A other \in Emitter \ {e} : emit'[other] = emit[other]
    BY <1>0, EmitEffect
  <2>2. \A other \in Emitter \ {e} : emit[other].pc = "idle"
    BY DEF EmitStep, SeqLoad, SeqStore, EmitTake, Commit, InTurn, calls
  <2> QED
    BY <2>1, <2>2
<1>2. /\ emit'[e].pc = "store" => emit'[e].loaded = event_seq'
      /\ emit'[e].pc \in {"lock", "commit"} => emit'[e].line.seq = event_seq'
  <2>1. CASE SeqLoad(e)
    BY <1>0, <2>1, EmitEffect DEF SeqLoad, Calling
  <2>2. CASE SeqStore(e)
    <3>1. PICK text \in Text :
            emit'[e] = [emit[e] EXCEPT !.pc = "lock",
                          !.line = [seq |-> Numbered(e), by |-> e, text |-> text]]
      BY <1>0, <2>2, EmitEffect
    <3>2. emit'[e].pc = "lock" /\ emit'[e].line.seq = Numbered(e)
      BY <1>0, <3>1 DEF Calling
    <3> QED
      BY <2>2, <3>2 DEF SeqStore, Numbered
  <2>3. CASE EmitTake(e)
    BY <1>0, <2>3, EmitEffect DEF EmitTake, Calling, InTurn, calls
  <2>4. CASE Commit(e)
    BY <1>0, <2>4, EmitEffect DEF Commit, Calling
  <2> QED
    BY <2>1, <2>2, <2>3, <2>4 DEF EmitStep
<1> QED
  BY <1>1, <1>2

\* Every step keeps the turns.
LEMMA NextInTurn == TypeOK /\ InTurn /\ [Next]_vars => InTurn'
<1> SUFFICES ASSUME TypeOK, InTurn, [Next]_vars PROVE InTurn'
  OBVIOUS
<1>1. CASE UNCHANGED <<event_seq, emit, calls>>
  BY <1>1 DEF InTurn, calls
<1>2. EventsGet \/ EventsUnavailable \/ SnapshotStep \/ SendStep =>
        UNCHANGED <<event_seq, emit, calls>>
  BY DEF EventsGet, EventsUnavailable, SnapshotStep, SnapshotTake, SnapshotCopy,
     SendStep, SendLine, SendEnd, SendFails
<1>3. UNCHANGED vars => UNCHANGED <<event_seq, emit, calls>>
  BY DEF vars, calls
<1> QED
  BY <1>1, <1>2, <1>3, EmitInTurn DEF Next

\* The number a line under way has already taken.
Taken == IF \E e \in Emitter : emit[e].pc \in {"lock", "commit"} THEN 1 ELSE 0

\* A commit in its turn adds the next number to the kept ones.
LEMMA CommitConsecutive ==
  ASSUME TypeOK, LinesReal, InTurn, SeqConsecutive, NEW e \in Emitter, Commit(e),
         ~overlapped
  PROVE  SeqConsecutive'
<1> DEFINE view == snapshot_events_locked
           line == emit[e].line
<1>0. /\ emit \in [Emitter -> Calling] /\ emit[e] \in Calling /\ event_seq \in Nat
      /\ event_count \in Nat /\ emit[e].pc = "commit" /\ ~overlapped'
      /\ UNCHANGED event_seq
  BY RingAssumption DEF TypeOK, Calling, Commit, calls
<1>1. line.seq = event_seq /\ (event_count > 0 => view[event_count].seq = event_seq - 1)
  BY <1>0 DEF InTurn, SeqConsecutive
<1>2. \A other \in Emitter : emit'[other].pc = "idle"
  <2>1. emit'[e].pc = "idle" /\ \A other \in Emitter \ {e} : emit'[other] = emit[other]
    BY <1>0, EmitEffect DEF EmitStep, Calling
  <2> QED
    BY <1>0, <2>1 DEF InTurn
<1>3. /\ view' = Shifted(view, event_count, line)
      /\ event_count' = Counted(event_count)
      /\ event_head \in Slots /\ event_count \in Count
  BY CommitView
<1>4. event_count' \in Nat \ {0}
  BY <1>3, KeptIndex
<1>5. \A i \in 1..event_count' : view'[i] = IF i = event_count' THEN line
                                           ELSE view[i + Dropped(event_count)]
  BY <1>3, Zenon DEF Shifted
<1>6. event_count' = event_count + 1 - Dropped(event_count) /\ Dropped(event_count) \in {0, 1}
  BY <1>3, Moves DEF Dropped
<1>7. \A i \in 1..(event_count - 1) : view[i + 1].seq = view[i].seq + 1
  BY <1>0 DEF SeqConsecutive
<1>8. view'[event_count'].seq = event_seq'
  BY <1>0, <1>1, <1>4, <1>5
<1>9. ASSUME NEW i \in 1..(event_count' - 1)
      PROVE  view'[i + 1].seq = view'[i].seq + 1
  <2> DEFINE k == i + Dropped(event_count)
  <2> HIDE DEF view, line
  <2>1. /\ i \in 1..event_count' /\ i + 1 \in 1..event_count' /\ i # event_count'
        /\ k \in 1..event_count /\ (i + 1) + Dropped(event_count) = k + 1
    BY <1>0, <1>4, <1>6
  <2>2. view'[i] = view[k]
    BY <1>5, <2>1
  <2>3. CASE i + 1 = event_count'
    <3>1. view'[i + 1] = line /\ k = event_count /\ event_count > 0
      BY <1>0, <1>4, <1>5, <1>6, <2>1, <2>3
    <3>2. view[k].seq = event_seq - 1
      BY <1>1, <3>1
    <3> QED
      BY <1>0, <1>1, <2>2, <3>1, <3>2
  <2>4. CASE i + 1 # event_count'
    <3>1. view'[i + 1] = view[k + 1]
      BY <1>5, <2>1, <2>4
    <3>2. k \in 1..(event_count - 1)
      BY <1>0, <1>4, <1>6, <2>1, <2>4
    <3> QED
      BY <1>7, <2>2, <3>1, <3>2
  <2> QED
    BY <2>3, <2>4
<1>10. \A s \in Slots : events'[s].seq = events'[s].json.seq
  <2>1. events' = [events EXCEPT ![event_head] = [seq |-> event_seq, json |-> line]]
    BY DEF Commit
  <2>2. \A s \in Slots : events[s].seq = events[s].json.seq
    BY <1>0 DEF SeqConsecutive
  <2> QED
    BY <1>1, <2>1, <2>2 DEF TypeOK
<1>11. event_seq' - 0 = event_seq'
  BY <1>0
<1> QED
  BY <1>0, <1>2, <1>8, <1>9, <1>10, <1>11 DEF SeqConsecutive

\* What changes neither the ring nor the number the next line will have.
LEMMA SameNumbers ==
  ASSUME SeqConsecutive, ~overlapped, UNCHANGED ring,
         event_seq' - Taken' = event_seq - Taken
  PROVE  SeqConsecutive'
BY SameView DEF SeqConsecutive, Taken, ring

\* Every step keeps the numbers consecutive.
LEMMA NextConsecutive ==
  TypeOK /\ RingInv /\ SeqConsecutive /\ [Next]_vars => SeqConsecutive'
<1> SUFFICES ASSUME TypeOK, RingInv, SeqConsecutive, [Next]_vars, ~overlapped'
             PROVE  SeqConsecutive'
  BY DEF SeqConsecutive
<1>0. emit \in [Emitter -> Calling] /\ event_seq \in Nat
  BY DEF TypeOK, Calling
<1>1. CASE UNCHANGED <<event_seq, ring, emit, calls>>
  BY <1>1, SameNumbers DEF Taken, calls
<1>2. ASSUME NEW e \in Emitter, EmitStep(e)
      PROVE  SeqConsecutive'
  <2>a. emit[e] \in Calling /\ \A other \in Emitter \ {e} : emit'[other] = emit[other]
    BY <1>0, <1>2, EmitEffect
  <2>b. ~overlapped
    BY <1>2 DEF EmitStep, SeqLoad, SeqStore, EmitTake, Commit, calls
  <2>0. /\ emit[e] \in Calling /\ ~overlapped
        /\ \A other \in Emitter \ {e} : emit'[other] = emit[other]
    BY <2>a, <2>b
  <2>1. \A other \in Emitter \ {e} : emit[other].pc = "idle" /\ emit'[other].pc = "idle"
    BY <1>2, <2>0 DEF EmitStep, SeqLoad, SeqStore, EmitTake, Commit, RingInv, InTurn, calls
  <2>2. /\ Taken = IF emit[e].pc \in {"lock", "commit"} THEN 1 ELSE 0
        /\ Taken' = IF emit'[e].pc \in {"lock", "commit"} THEN 1 ELSE 0
    BY <2>1 DEF Taken
  <2>3. CASE SeqLoad(e)
    <3>1. Taken' = 0 /\ Taken = 0
      BY <1>0, <2>0, <2>2, <2>3, EmitEffect DEF SeqLoad, Calling
    <3>2. UNCHANGED event_seq /\ UNCHANGED ring
      BY <2>3 DEF SeqLoad
    <3> QED
      BY <2>0, <3>1, <3>2, SameNumbers
  <2>4. CASE SeqStore(e)
    <3>1. Taken' = 1 /\ Taken = 0
      <4>1. PICK text \in Text :
              emit'[e] = [emit[e] EXCEPT !.pc = "lock",
                            !.line = [seq |-> Numbered(e), by |-> e, text |-> text]]
        BY <1>0, <1>2, <2>4, EmitEffect
      <4>2. emit'[e].pc = "lock" /\ emit[e].pc = "store"
        BY <2>0, <2>4, <4>1 DEF SeqStore, Calling
      <4> QED
        BY <2>2, <4>2
    <3>2. event_seq' = event_seq + 1
      BY <2>0, <2>4 DEF SeqStore, RingInv, InTurn
    <3>3. UNCHANGED ring /\ event_seq' - Taken' = event_seq - Taken
      BY <1>0, <2>4, <3>1, <3>2 DEF SeqStore
    <3> QED
      BY <2>0, <3>3, SameNumbers
  <2>5. CASE EmitTake(e)
    <3>1. Taken' = 1 /\ Taken = 1
      BY <1>0, <1>2, <2>0, <2>2, <2>5, EmitEffect DEF EmitTake, Calling
    <3> QED
      BY <2>0, <2>5, <3>1, SameNumbers DEF EmitTake, calls
  <2>6. CASE Commit(e)
    BY <2>0, <2>6, CommitConsecutive DEF RingInv
  <2> QED
    BY <1>2, <2>3, <2>4, <2>5, <2>6 DEF EmitStep
<1>3. EventsGet \/ EventsUnavailable \/ SnapshotStep \/ SendStep =>
        UNCHANGED <<event_seq, ring, emit, calls>>
  BY DEF EventsGet, EventsUnavailable, SnapshotStep, SnapshotTake, SnapshotCopy,
     SendStep, SendLine, SendEnd, SendFails
<1>4. UNCHANGED vars => UNCHANGED <<event_seq, ring, emit, calls>>
  BY DEF vars, ring, calls
<1> QED
  BY <1>1, <1>2, <1>3, <1>4 DEF Next

-----------------------------------------------------------------------------
(* The refinement of EventLog.                                             *)

\* Every step keeps what the client has in step with the copy.
LEMMA NextResponding == TypeOK /\ Responding /\ [Next]_vars => Responding'
<1> SUFFICES ASSUME TypeOK, Responding, [Next]_vars PROVE Responding'
  OBVIOUS
<1>0. /\ reply.lines \in Seq(Line) /\ snapshot \in Seq(Line)
      /\ Len(reply.lines) \in Nat /\ Len(snapshot) \in Nat /\ Len(<<>>) = 0
  BY EmptySeq, LenProperties DEF TypeOK
<1>1. CASE UNCHANGED client
  BY <1>1 DEF client, Responding
<1>2. CASE EventsGet \/ SnapshotTake
  BY <1>2 DEF EventsGet, SnapshotTake, Responding
<1>3. CASE EventsUnavailable
  BY <1>3 DEF EventsUnavailable, Responding, Reply
<1>4. CASE SnapshotCopy
  <2>1. httpd' = "send" /\ reply'.status = "open" /\ reply'.lines = <<>>
    BY <1>4 DEF SnapshotCopy, Reply
  <2>2. TypeOK' => Len(snapshot') \in Nat
    BY LenProperties DEF TypeOK
  <2> QED
    BY <1>0, <2>1, <2>2 DEF Responding
<1>5. CASE SendLine
  <2>1. Len(reply.lines) + 1 \in 1..Len(snapshot)
    BY <1>0, <1>5 DEF SendLine
  <2>2. snapshot[Len(reply.lines) + 1] \in Line
    BY <1>0, <2>1, ElementOfSeq
  <2>3. /\ reply'.lines = Append(reply.lines, snapshot[Len(reply.lines) + 1])
        /\ reply'.status = "open" /\ httpd' = "send" /\ snapshot' = snapshot
    BY <1>5 DEF SendLine, Reply
  <2>4. /\ Len(reply'.lines) = Len(reply.lines) + 1
        /\ \A i \in 1..Len(reply.lines) : reply'.lines[i] = reply.lines[i]
        /\ reply'.lines[Len(reply.lines) + 1] = snapshot[Len(reply.lines) + 1]
    BY <1>0, <2>2, <2>3, AppendProperties
  <2>5. \A i \in 1..Len(reply'.lines) : reply'.lines[i] = snapshot[i]
    <3> SUFFICES ASSUME NEW i \in 1..Len(reply'.lines)
                 PROVE  reply'.lines[i] = snapshot[i]
      OBVIOUS
    <3>1. CASE i = Len(reply.lines) + 1
      BY <2>4, <3>1
    <3>2. CASE i # Len(reply.lines) + 1
      <4>1. i \in 1..Len(reply.lines)
        BY <1>0, <2>4, <3>2
      <4> QED
        BY <1>5, <2>4, <4>1 DEF SendLine, Responding
    <3> QED
      BY <3>1, <3>2
  <2> QED
    BY <1>0, <2>1, <2>3, <2>4, <2>5 DEF Responding
<1>6. CASE SendEnd \/ SendFails
  BY <1>6 DEF SendEnd, SendFails, Responding, Reply
<1>7. (\E e \in Emitter : EmitStep(e)) \/ UNCHANGED vars => UNCHANGED client
  BY DEF EmitStep, SeqLoad, SeqStore, EmitTake, Commit, vars, client
<1> QED
  BY <1>1, <1>2, <1>3, <1>4, <1>5, <1>6, <1>7 DEF Next, SnapshotStep, SendStep

\* The abstract log keeps its latest lines just as the ring does.
LEMMA RecordShifts ==
  ASSUME NEW log \in Seq(Line), Len(log) \in Count, NEW line \in Line
  PROVE  LET longer == Append(log, line)
         IN (IF Len(longer) > DB_EVENT_CAPACITY THEN Tail(longer) ELSE longer) =
              Shifted(log, Len(log), line)
<1> DEFINE n == Len(log)
           longer == Append(log, line)
           new == IF Len(longer) > DB_EVENT_CAPACITY THEN Tail(longer) ELSE longer
           moved == Shifted(log, n, line)
<1>0. /\ n \in Nat /\ DB_EVENT_CAPACITY \in Nat \ {0} /\ n <= DB_EVENT_CAPACITY
      /\ \A i \in 1..n : log[i] \in Line
  BY RingAssumption, LenProperties, ElementOfSeq DEF Count
<1>1. /\ longer \in Seq(Line) /\ longer # <<>> /\ Len(longer) = n + 1
      /\ \A i \in 1..n : longer[i] = log[i]
      /\ longer[n + 1] = line
  BY AppendProperties
<1>2. Counted(n) \in Nat \ {0}
      /\ \A i \in 1..Counted(n) : i # Counted(n) => i + Dropped(n) \in 1..n
  BY KeptIndex
<1>3. Counted(n) = n + 1 - Dropped(n) /\ Dropped(n) = IF n < DB_EVENT_CAPACITY THEN 0 ELSE 1
  BY <1>0 DEF Counted, Dropped
<1>4. moved \in Seq(Line) /\ Len(moved) = Counted(n)
  <2>1. moved \in [1..Counted(n) -> Line]
    BY <1>0, <1>2 DEF Shifted
  <2>2. moved \in Seq(Line)
    BY <1>2, <2>1, SeqDef
  <2>3. DOMAIN moved = 1..Len(moved) /\ DOMAIN moved = 1..Counted(n) /\ Len(moved) \in Nat
    BY <2>1, <2>2, LenProperties
  <2> HIDE DEF moved
  <2> QED
    BY <1>2, <2>2, <2>3
<1>5. new \in Seq(Line) /\ Len(new) = Counted(n)
      /\ \A i \in 1..Counted(n) : new[i] = longer[i + Dropped(n)]
  <2>1. CASE n < DB_EVENT_CAPACITY
    <3> HIDE DEF longer, n
    <3>1. new = longer /\ Counted(n) = n + 1 /\ Dropped(n) = 0
      BY <1>0, <1>1, <1>3, <2>1
    <3> QED
      BY <1>0, <1>1, <3>1
  <2>2. CASE n = DB_EVENT_CAPACITY
    <3> HIDE DEF longer, n
    <3>1. new = Tail(longer) /\ Counted(n) = n /\ Dropped(n) = 1
      BY <1>0, <1>1, <1>3, <2>2
    <3>2. /\ Tail(longer) \in Seq(Line) /\ Len(Tail(longer)) = Len(longer) - 1
          /\ \A i \in 1..Len(Tail(longer)) : Tail(longer)[i] = longer[i + 1]
      BY <1>1, HeadTailProperties
    <3> QED
      BY <1>0, <1>1, <3>1, <3>2
  <2>3. n < DB_EVENT_CAPACITY \/ n = DB_EVENT_CAPACITY
    <3> HIDE DEF n
    <3> QED
      BY <1>0
  <2> QED
    BY <2>1, <2>2, <2>3
<1>6. ASSUME NEW i \in 1..Counted(n) PROVE new[i] = moved[i]
  <2>1. moved[i] = IF i = Counted(n) THEN line ELSE log[i + Dropped(n)]
    BY DEF Shifted
  <2>2. CASE i = Counted(n)
    <3>1. i + Dropped(n) = n + 1
      BY <1>0, <1>3, <2>2
    <3> QED
      BY <1>1, <1>5, <2>1, <2>2, <3>1
  <2>3. CASE i # Counted(n)
    <3>1. i + Dropped(n) \in 1..n
      BY <1>2, <2>3
    <3> QED
      BY <1>1, <1>5, <2>1, <2>3, <3>1
  <2> QED
    BY <2>2, <2>3
<1> HIDE DEF new, moved
<1>7. new = moved
  BY <1>4, <1>5, <1>6, SeqEqual
<1> QED
  BY <1>7 DEF new, moved

\* The lines in use are a log of as many lines.
LEMMA ViewIsLog ==
  ASSUME TypeOK, LinesReal
  PROVE  /\ snapshot_events_locked \in Seq(Line)
         /\ Len(snapshot_events_locked) = event_count
<1> DEFINE view == snapshot_events_locked
<1>1. event_count \in Nat
  BY RingAssumption DEF TypeOK
<1>2. view \in [1..event_count -> Line]
  BY DEF LinesReal, snapshot_events_locked
<1> HIDE DEF view
<1>3. view \in Seq(Line)
  BY <1>1, <1>2, SeqDef
<1>4. DOMAIN view = 1..Len(view) /\ Len(view) \in Nat
  BY <1>3, LenProperties
<1>5. Len(view) = event_count
  BY <1>1, <1>2, <1>4
<1> QED
  BY <1>3, <1>5 DEF view

\* The ring starts as an empty log.
LEMMA LogInit == Init => Log!Init
<1> SUFFICES ASSUME Init PROVE snapshot_events_locked = <<>>
  BY DEF Init, Log!Init, Reply, Log!Reply
<1>1. event_count = 0
  BY DEF Init
<1> QED
  BY <1>1 DEF snapshot_events_locked

\* A commit records its line; nothing else that an emitter does shows.
LEMMA EmitLogStep ==
  ASSUME TypeOK, LinesReal, NEW e \in Emitter, EmitStep(e)
  PROVE  [Log!Next]_(Log!logVars)
<1>1. CASE Commit(e)
  <2>1. emit[e].line \in Line
    BY <1>1 DEF Commit, LinesReal
  <2>2. /\ snapshot_events_locked' =
             Shifted(snapshot_events_locked, event_count, emit[e].line)
        /\ event_count \in Count
    BY <1>1, CommitView
  <2>3. Log!Record(emit[e].line)
    BY <2>1, <2>2, ViewIsLog, RecordShifts DEF Log!Record
  <2>4. UNCHANGED <<snapshot, reply>>
    BY <1>1 DEF Commit, client
  <2> QED
    BY <2>1, <2>3, <2>4 DEF Log!Next, Log!RecordStep
<1>2. CASE ~Commit(e)
  <2>1. UNCHANGED <<ring, client>>
    BY <1>2 DEF EmitStep, SeqLoad, SeqStore, EmitTake
  <2> QED
    BY <2>1, SameView DEF Log!logVars, client
<1> QED
  BY <1>1, <1>2

\* Each step of a response is a step of the abstract one.
LEMMA GetLogStep ==
  ASSUME TypeOK, Responding, EventsGet \/ EventsUnavailable \/ SnapshotStep \/ SendStep
  PROVE  [Log!Next]_(Log!logVars)
<1>0. UNCHANGED ring
  BY DEF EventsGet, EventsUnavailable, SnapshotStep, SnapshotTake, SnapshotCopy,
     SendStep, SendLine, SendEnd, SendFails
<1>v. UNCHANGED snapshot_events_locked
  BY <1>0, SameView
<1>1. CASE EventsGet \/ SnapshotTake
  BY <1>1, <1>v DEF EventsGet, SnapshotTake, Log!logVars
<1>2. CASE EventsUnavailable
  <2>1. Log!Refuse
    BY <1>2, <1>v DEF EventsUnavailable, Responding, Log!Refuse, Reply, Log!Reply
  <2> QED
    BY <2>1 DEF Log!Next
<1>3. CASE SnapshotCopy
  <2>1. Log!Open
    BY <1>3, <1>v DEF SnapshotCopy, Responding, Log!Open, Reply, Log!Reply
  <2> QED
    BY <2>1 DEF Log!Next
<1>4. CASE SendLine
  <2>1. Log!Deliver
    BY <1>4, <1>v DEF SendLine, Responding, Log!Deliver, Reply, Log!Reply
  <2> QED
    BY <2>1 DEF Log!Next
<1>5. CASE SendEnd
  <2>1. reply.lines = snapshot
    <3>1. /\ Len(reply.lines) = Len(snapshot)
          /\ \A i \in 1..Len(reply.lines) : reply.lines[i] = snapshot[i]
      BY <1>5 DEF SendEnd, Responding
    <3>2. reply.lines \in Seq(Line) /\ snapshot \in Seq(Line)
      BY DEF TypeOK
    <3> QED
      BY <3>1, <3>2, SeqEqual
  <2>2. Log!Complete
    BY <1>5, <1>v, <2>1 DEF SendEnd, Responding, Log!Complete, Reply, Log!Reply
  <2> QED
    BY <2>2 DEF Log!Next
<1>6. CASE SendFails
  <2>1. Log!Break
    BY <1>6, <1>v DEF SendFails, Responding, Log!Break, Reply, Log!Reply
  <2> QED
    BY <2>1 DEF Log!Next
<1> QED
  BY <1>1, <1>2, <1>3, <1>4, <1>5, <1>6 DEF SnapshotStep, SendStep

-----------------------------------------------------------------------------
(* The theorems.                                                           *)

RingIInv == TypeOK /\ RingInv /\ SeqConsecutive

\* At first there are no calls and no lines.
LEMMA InitRingIInv == Init => RingIInv
<1> SUFFICES ASSUME Init PROVE RingInv /\ SeqConsecutive
  BY InitType DEF RingIInv
<1>1. /\ event_seq = 0 /\ begun = 0 /\ event_count = 0
      /\ httpd = "idle" /\ snapshot = <<>> /\ reply.status = "none"
      /\ \A e \in Emitter : emit[e].pc = "idle"
      /\ \A s \in Slots : events[s].seq = 0 /\ events[s].json.seq = 0
  BY DEF Init, Reply, NoLine
<1> QED
  BY <1>1 DEF RingInv, CallsCounted, LinesReal, InTurn, Responding, SeqConsecutive

\* The parts together are an invariant.
THEOREM RingInvariant == Spec => []RingIInv
<1>1. RingIInv /\ [Next]_vars => RingIInv'
  BY NextType, NextInTurn, NextResponding, NextConsecutive DEF RingIInv, RingInv
<1> QED
  BY <1>1, InitRingIInv, PTL DEF Spec

\* Every variable keeps its type: head and count stay inside the ring, however
\* often it wraps, and whatever is sent is a line that was recorded.
THEOREM RingTypeCorrect == Spec => []TypeOK
<1>1. RingIInv => TypeOK
  BY DEF RingIInv
<1> QED
  BY <1>1, RingInvariant, PTL

\* The numbers of the kept lines have no gap unless two calls overlapped.
THEOREM NumbersAreConsecutive == Spec => []SeqConsecutive
<1>1. RingIInv => SeqConsecutive
  BY DEF RingIInv
<1> QED
  BY <1>1, RingInvariant, PTL

\* The ring of slots implements the log of the latest lines, and one response
\* delivers one view of it.
THEOREM RingImplementsLog == Spec => LogSpec
<1>1. RingIInv /\ [Next]_vars => [Log!Next]_(Log!logVars)
  <2> SUFFICES ASSUME RingIInv, [Next]_vars PROVE [Log!Next]_(Log!logVars)
    OBVIOUS
  <2>1. CASE UNCHANGED vars
    <3>1. UNCHANGED ring /\ UNCHANGED <<snapshot, reply>>
      BY <2>1 DEF vars, ring
    <3> QED
      BY <3>1, SameView DEF Log!logVars
  <2> QED
    BY <2>1, EmitLogStep, GetLogStep DEF Next, RingIInv, RingInv
<1> QED
  BY <1>1, LogInit, RingInvariant, PTL DEF Spec, LogSpec, Log!Spec
=============================================================================
