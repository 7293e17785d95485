----------------------------- MODULE EventRing ------------------------------
(***************************************************************************)
(* emit_event and events_get: the event ring of the firmware.              *)
(*                                                                         *)
(* Any task may emit: app_main, and workload tasks, of which two overlap   *)
(* while an older one still has run_complete to report.  event_seq is      *)
(* incremented outside state_lock, a data race whose outcomes are the      *)
(* interleavings of a load and a store; the slot is filled under the lock. *)
(* events_get copies the ring under the lock and sends after releasing it. *)
(***************************************************************************)
EXTENDS Naturals, Sequences

CONSTANTS Emitter,             \* tasks that emit events
          DB_EVENT_CAPACITY,
          MaxEvents            \* bound: events emitted

ASSUME RingAssumption ==
  DB_EVENT_CAPACITY \in Nat \ {0} /\ MaxEvents \in Nat /\ "httpd" \notin Emitter

\* What snprintf leaves in a slot: the JSON text ("{}" when cJSON could not
\* print it), or its first 511 bytes when it is longer than the slot.
Text == {"json", "cut"}
Line == [seq : 1..MaxEvents, by : Emitter, text : Text]
NoLine == [seq |-> 0, by |-> "none", text |-> "json"]

VARIABLES
  event_seq, events, event_head, event_count,
  state_lock,   \* its holder, or "free"
  emit,         \* per emitter: pc, the loaded event_seq, the line it built
  begun,        \* history: calls of emit_event
  overlapped,   \* history: two of those calls overlapped
  httpd,        \* where events_get is
  snapshot,     \* its copy of the ring
  reply         \* what the client has received

vars == <<event_seq, events, event_head, event_count, state_lock, emit, begun,
          overlapped, httpd, snapshot, reply>>
ring == <<events, event_head, event_count>>
calls == <<begun, overlapped>>
client == <<httpd, snapshot, reply>>

Slots == 0..(DB_EVENT_CAPACITY - 1)
Reply(status, lines) == [status |-> status, lines |-> lines]

Init ==
  /\ event_seq = 0
  /\ events = [i \in Slots |-> [seq |-> 0, json |-> NoLine]]
  /\ event_head = 0 /\ event_count = 0
  /\ state_lock = "free"
  /\ emit = [e \in Emitter |-> [pc |-> "idle", loaded |-> 0, line |-> NoLine]]
  /\ begun = 0 /\ overlapped = FALSE
  /\ httpd = "idle" /\ snapshot = <<>> /\ reply = Reply("none", <<>>)

-----------------------------------------------------------------------------
(* emit_event *)

SeqLoad(e) ==
  /\ emit[e].pc = "idle" /\ begun < MaxEvents
  /\ begun' = begun + 1
  /\ overlapped' = (overlapped \/ \E other \in Emitter : emit[other].pc # "idle")
  /\ emit' = [emit EXCEPT ![e].pc = "store", ![e].loaded = event_seq]
  /\ UNCHANGED <<event_seq, ring, state_lock, client>>

\* Mutant: the line gets the number before the increment.
Numbered_Post(e) == emit[e].loaded
Numbered(e) == emit[e].loaded + 1

SeqStore(e) ==
  /\ emit[e].pc = "store"
  /\ event_seq' = emit[e].loaded + 1
  /\ \E text \in Text :
       emit' = [emit EXCEPT ![e].pc = "lock",
                  ![e].line = [seq |-> Numbered(e), by |-> e, text |-> text]]
  /\ UNCHANGED <<ring, state_lock, calls, client>>

EmitTake(e) ==
  /\ emit[e].pc = "lock" /\ state_lock = "free"
  /\ state_lock' = e
  /\ emit' = [emit EXCEPT ![e].pc = "commit"]
  /\ UNCHANGED <<event_seq, ring, calls, client>>

\* Mutant: the count runs past the ring.
Counted_Uncapped(count) == count + 1
Counted(count) == IF count < DB_EVENT_CAPACITY THEN count + 1 ELSE count

\* The slot's own seq is whatever event_seq is by now.
Commit(e) ==
  /\ emit[e].pc = "commit"
  /\ events' = [events EXCEPT ![event_head] =
                  [seq |-> event_seq, json |-> emit[e].line]]
  /\ event_head' = (event_head + 1) % DB_EVENT_CAPACITY
  /\ event_count' = Counted(event_count)
  /\ state_lock' = "free"
  /\ emit' = [emit EXCEPT ![e].pc = "idle"]
  /\ UNCHANGED <<event_seq, calls, client>>

-----------------------------------------------------------------------------
(* events_get *)

\* Mutant: the next slot to write is taken for the oldest.
start_AtHead == event_head
start == (event_head + DB_EVENT_CAPACITY - event_count) % DB_EVENT_CAPACITY

\* The lines of the ring from the oldest slot on.
snapshot_events_locked ==
  [i \in 1..event_count |-> events[(start + i - 1) % DB_EVENT_CAPACITY].json]

EventsGet ==
  /\ httpd = "idle"
  /\ httpd' = "lock"
  /\ UNCHANGED <<event_seq, ring, state_lock, emit, calls, snapshot, reply>>

\* malloc returns NULL: 503.
EventsUnavailable ==
  /\ httpd = "idle"
  /\ reply' = Reply("unavailable", <<>>)
  /\ UNCHANGED <<event_seq, ring, state_lock, emit, calls, httpd, snapshot>>

SnapshotTake ==
  /\ httpd = "lock" /\ state_lock = "free"
  /\ state_lock' = "httpd" /\ httpd' = "copy"
  /\ UNCHANGED <<event_seq, ring, emit, calls, snapshot, reply>>

\* Mutant: the lock is kept for the transmission.
SnapshotCopy_KeepsLock ==
  /\ httpd = "copy"
  /\ snapshot' = snapshot_events_locked
  /\ reply' = Reply("open", <<>>)
  /\ httpd' = "send"
  /\ UNCHANGED <<event_seq, ring, state_lock, emit, calls>>

SnapshotCopy ==
  /\ httpd = "copy"
  /\ snapshot' = snapshot_events_locked
  /\ reply' = Reply("open", <<>>)
  /\ state_lock' = "free" /\ httpd' = "send"
  /\ UNCHANGED <<event_seq, ring, emit, calls>>

\* The chunks of one line and its newline.
SendLine ==
  /\ httpd = "send" /\ Len(reply.lines) < Len(snapshot)
  /\ reply' = Reply("open", Append(reply.lines, snapshot[Len(reply.lines) + 1]))
  /\ UNCHANGED <<event_seq, ring, state_lock, emit, calls, httpd, snapshot>>

\* The empty chunk that ends the response, after free.
SendEnd ==
  /\ httpd = "send" /\ Len(reply.lines) = Len(snapshot)
  /\ reply' = Reply("complete", reply.lines)
  /\ httpd' = "idle" /\ snapshot' = <<>>
  /\ UNCHANGED <<event_seq, ring, state_lock, emit, calls>>

\* Any of these sends fails: no more chunks.
SendFails ==
  /\ httpd = "send"
  /\ reply' = Reply("broken", reply.lines)
  /\ httpd' = "idle" /\ snapshot' = <<>>
  /\ UNCHANGED <<event_seq, ring, state_lock, emit, calls>>

-----------------------------------------------------------------------------
EmitStep(e) == SeqLoad(e) \/ SeqStore(e) \/ EmitTake(e) \/ Commit(e)
SnapshotStep == SnapshotTake \/ SnapshotCopy
SendStep == SendLine \/ SendEnd \/ SendFails

Next ==
  \/ \E e \in Emitter : EmitStep(e)
  \/ EventsGet \/ EventsUnavailable \/ SnapshotStep \/ SendStep

Spec == Init /\ [][Next]_vars

\* Tasks run, and a mutex serves its waiters in turn; nothing says that a
\* client ever reads, so no send need ever return.
FairSpec ==
  /\ Spec
  /\ \A e \in Emitter : WF_vars(SeqStore(e) \/ Commit(e)) /\ SF_vars(EmitTake(e))
  /\ SF_vars(SnapshotTake) /\ WF_vars(SnapshotCopy)

-----------------------------------------------------------------------------
(* Properties.                                                             *)

\* Every variable keeps its type.
TypeOK ==
  /\ event_seq \in 0..MaxEvents
  /\ events \in [Slots -> [seq : 0..MaxEvents, json : Line \cup {NoLine}]]
  /\ event_head \in Slots /\ event_count \in 0..DB_EVENT_CAPACITY
  /\ state_lock \in Emitter \cup {"free", "httpd"}
  /\ emit \in [Emitter -> [pc : {"idle", "store", "lock", "commit"},
                           loaded : 0..MaxEvents, line : Line \cup {NoLine}]]
  /\ begun \in 0..MaxEvents /\ overlapped \in BOOLEAN
  /\ httpd \in {"idle", "lock", "copy", "send"}
  /\ snapshot \in Seq(Line)
  /\ reply \in [status : {"none", "unavailable", "open", "complete", "broken"},
                lines : Seq(Line)]

\* The ring is the abstract log read from its oldest slot, and a response
\* delivers one view of it, also when the ring wraps while it is being sent.
Log == INSTANCE EventLog WITH Capacity <- DB_EVENT_CAPACITY,
         log <- snapshot_events_locked, serving <- snapshot
LogSpec == Log!Spec

\* What the comment at event_snapshot_t promises: a client that stops reading
\* never stalls an event producer.
EmitterNeverStalls ==
  \A e \in Emitter : emit[e].pc # "idle" ~> emit[e].pc = "idle"

\* As long as no two calls of emit_event overlapped, the kept lines are numbered
\* consecutively up to the last number given out, also after the ring has
\* wrapped, and each slot's seq is its line's.
SeqConsecutive ==
  LET view == snapshot_events_locked
  IN ~overlapped =>
     /\ \A i \in 1..(event_count - 1) : view[i + 1].seq = view[i].seq + 1
     /\ event_count > 0 =>
          view[event_count].seq =
            event_seq - (IF \E e \in Emitter : emit[e].pc \in {"lock", "commit"}
                         THEN 1 ELSE 0)
     /\ \A s \in Slots : events[s].seq = events[s].json.seq

-----------------------------------------------------------------------------
(* Statements of the repository's documents that the code breaks.          *)

\* protocol/openapi.yaml, "Snapshot event stream as application/x-ndjson":
\* every line a client receives is a JSON text.
LinesAreJson ==
  reply.status = "complete" =>
    \A i \in DOMAIN reply.lines : reply.lines[i].text # "cut"

-----------------------------------------------------------------------------
(* The strengthening that makes the safety properties inductive.           *)

\* No number runs ahead of the calls.
CallsCounted ==
  /\ event_seq <= begun
  /\ \A e \in Emitter : emit[e].pc = "store" => emit[e].loaded < begun

\* Who commits has a line, and so has every slot in use.
LinesReal ==
  /\ \A e \in Emitter : emit[e].pc \in {"lock", "commit"} => emit[e].line \in Line
  /\ \A i \in 1..event_count : snapshot_events_locked[i] \in Line

\* Without overlaps one call at a time is under way, and its number is the
\* latest one.
InTurn == ~overlapped =>
  /\ \A e, other \in Emitter :
       emit[e].pc # "idle" /\ emit[other].pc # "idle" => e = other
  /\ \A e \in Emitter :
       /\ emit[e].pc = "store" => emit[e].loaded = event_seq
       /\ emit[e].pc \in {"lock", "commit"} => emit[e].line.seq = event_seq

\* A response is open while events_get sends, and what the client has is the
\* beginning of the copy.
Responding ==
  /\ httpd = "send" <=> reply.status = "open"
  /\ httpd # "send" => snapshot = <<>>
  /\ httpd = "send" =>
       /\ Len(reply.lines) <= Len(snapshot)
       /\ \A i \in 1..Len(reply.lines) : reply.lines[i] = snapshot[i]

RingInv == CallsCounted /\ LinesReal /\ InTurn /\ Responding
=============================================================================
