------------------------------ MODULE SetupPage -----------------------------
(***************************************************************************)
(* The script of the /setup page against the station configuration of the  *)
(* device: submissions and status polls over a network that loses and      *)
(* delays them, another client that submits too, and a device that resets. *)
(*                                                                         *)
(* The page is one JavaScript thread; each callback is one action.         *)
(***************************************************************************)
EXTENDS StationService

CONSTANTS Fetch,      \* submissions of the form that can be under way
          MaxMade,    \* bound: accepted submissions
          MaxResets   \* bound: resets of the device

ASSUME PageAssumption == MaxMade \in Nat /\ MaxMade < Half /\ MaxResets \in Nat

NoPending == [id |-> 0, serial |-> 0]
Said(kind) == [kind |-> kind, serial |-> 0, of |-> 0]

VARIABLES
  post,     \* per submission of the form: where it is, and its answer
  poll,     \* inFlight and the status being read
  pending,  \* the submission the page waits for
  message,  \* what the page says, about which submission, from whose result
  made,     \* history: submissions accepted, across resets
  origin,   \* history: which of them the device knows by an id
  resets    \* resets left

pageVars == <<pending, message>>
history == <<made, origin>>
vars == <<serviceVars, pageVars, post, poll, history, resets>>

\* A device that may reset has issued few ids; one that has issued any number
\* of them does not reset.
Init ==
  /\ ServiceInit
  /\ resets = IF request_counter = 0 THEN MaxResets ELSE 0
  /\ post = [f \in Fetch |-> [pc |-> "idle", id |-> 0, serial |-> 0]]
  /\ poll = [pc |-> "idle", id |-> 0, result |-> NoResult]
  /\ pending = NoPending /\ message = Said("")
  /\ made = 0 /\ origin = [id \in Word |-> 0]

-----------------------------------------------------------------------------
(* The device.                                                             *)

\* One task serves the submissions and the status.
Accept ==
  /\ made < MaxMade /\ poll.pc # "result"
  /\ Submit
  /\ made' = made + 1
  /\ origin' = [origin EXCEPT ![request_counter'] = made']

\* Somebody else's submission.
OtherClient == Accept /\ UNCHANGED <<pageVars, post, poll, resets>>

\* The page may have given up on a submission that still arrives.
DeviceAccepts(f) ==
  /\ post[f].pc \in {"sent", "abandoned"}
  /\ Accept
  /\ post' = [post EXCEPT ![f] =
       IF @.pc = "abandoned" THEN [@ EXCEPT !.pc = "idle"]
       ELSE [pc |-> "answered", id |-> request_counter', serial |-> made']]
  /\ UNCHANGED <<pageVars, poll, resets>>

\* Invalid credentials, or a submission that never arrives.
DeviceRefuses(f) ==
  /\ post[f].pc \in {"sent", "abandoned"}
  /\ post' = [post EXCEPT ![f].pc = IF @ = "sent" THEN "refused" ELSE "idle"]
  /\ UNCHANGED <<serviceVars, pageVars, poll, history, resets>>

DeviceWorks == Work /\ UNCHANGED <<pageVars, post, poll, history, resets>>

\* The device forgets its ids, and every connection breaks.
Reset ==
  /\ resets > 0 /\ resets' = resets - 1
  /\ request_counter' = 0 /\ waiting' = 0 /\ applying' = 0 /\ phase' = "idle"
  /\ published' = [id |-> 0, result |-> NoResult]
  /\ post' = [f \in Fetch |-> [post[f] EXCEPT !.pc =
       IF @ \in {"idle", "abandoned"} THEN "idle" ELSE "broken"]]
  /\ poll' = [poll EXCEPT !.pc = IF @ = "idle" THEN "idle" ELSE "broken"]
  /\ UNCHANGED <<pageVars, history>>

-----------------------------------------------------------------------------
(* The form.                                                               *)

FormSubmit(f) ==
  /\ post[f].pc = "idle"
  /\ post' = [post EXCEPT ![f].pc = "sent"]
  /\ message' = Said("sending")
  /\ UNCHANGED <<serviceVars, pending, poll, history, resets>>

PostAnswered(f) ==
  /\ post[f].pc = "answered"
  /\ pending' = [id |-> post[f].id, serial |-> post[f].serial]
  /\ message' = Said("connecting")
  /\ post' = [post EXCEPT ![f].pc = "idle"]
  /\ UNCHANGED <<serviceVars, poll, history, resets>>

PostRefused(f) ==
  /\ post[f].pc = "refused"
  /\ pending' = NoPending /\ message' = Said("rejected")
  /\ post' = [post EXCEPT ![f].pc = "idle"]
  /\ UNCHANGED <<serviceVars, poll, history, resets>>

PostFails(f) ==
  /\ post[f].pc \notin {"idle", "abandoned"}
  /\ pending' = NoPending /\ message' = Said("no response")
  /\ post' = [post EXCEPT ![f].pc = IF @ = "sent" THEN "abandoned" ELSE "idle"]
  /\ UNCHANGED <<serviceVars, poll, history, resets>>

-----------------------------------------------------------------------------
(* The poll.                                                               *)

Poll ==
  /\ poll.pc = "idle"
  /\ poll' = [poll EXCEPT !.pc = "id"]
  /\ UNCHANGED <<serviceVars, pageVars, post, history, resets>>

\* status_get reads the id, and then the result.
StatusReadId ==
  /\ poll.pc = "id"
  /\ poll' = [poll EXCEPT !.pc = "result", !.id = published.id]
  /\ UNCHANGED <<serviceVars, pageVars, post, history, resets>>

StatusReadResult ==
  /\ poll.pc = "result"
  /\ poll' = [poll EXCEPT !.pc = "reply",
                !.result = [value |-> published.result.value,
                            of |-> origin[published.result.of]]]
  /\ UNCHANGED <<serviceVars, pageVars, post, history, resets>>

Conclude(kind) ==
  /\ pending' = NoPending
  /\ message' = [kind |-> kind, serial |-> pending.serial, of |-> poll.result.of]

\* Mutant: whatever other id the status shows replaced the pending one.
Replaced_AnyOther == poll.id # pending.id
\* Mutant: plain numbers are compared.
Replaced_Plain == poll.id > pending.id
Replaced == db_request_id_is_newer(poll.id, pending.id)

\* Whether the station is connected to the pending network, or still failing,
\* is up to the network.
render ==
  \/ /\ pending # NoPending /\ poll.id # pending.id /\ Replaced
     /\ Conclude("replaced")
  \/ /\ pending # NoPending /\ poll.id = pending.id
     /\ \/ poll.result.value = "failed" /\ Conclude("failed")
        \/ poll.result.value # "failed" /\ Conclude("connected")
        \/ /\ poll.result.value # "failed"
           /\ message' = Said("retrying") /\ UNCHANGED pending
        \/ poll.result.value # "failed" /\ UNCHANGED pageVars
  \/ /\ pending = NoPending \/ (poll.id # pending.id /\ ~Replaced)
     /\ UNCHANGED pageVars

PollReply ==
  /\ poll.pc = "reply"
  /\ render
  /\ poll' = [poll EXCEPT !.pc = "idle"]
  /\ UNCHANGED <<serviceVars, post, history, resets>>

\* Mutant: a failed poll leaves inFlight set.
PollFails_Stuck ==
  /\ poll.pc # "idle"
  /\ poll' = [poll EXCEPT !.pc = "stuck"]
  /\ UNCHANGED <<serviceVars, pageVars, post, history, resets>>

\* No connection, or the abort after four seconds.
PollFails ==
  /\ poll.pc # "idle"
  /\ poll' = [poll EXCEPT !.pc = "idle"]
  /\ UNCHANGED <<serviceVars, pageVars, post, history, resets>>

-----------------------------------------------------------------------------
Form(f) == FormSubmit(f) \/ PostAnswered(f) \/ PostRefused(f) \/ PostFails(f)
Device == DeviceWorks \/ Reset \/ OtherClient

Next ==
  \/ Device
  \/ \E f \in Fetch : Form(f) \/ DeviceAccepts(f) \/ DeviceRefuses(f)
  \/ Poll \/ StatusReadId \/ StatusReadResult \/ PollReply \/ PollFails

Spec == Init /\ [][Next]_vars

\* Both timers of the page run; the device works on what it has accepted.
FairSpec == Spec /\ WF_vars(Poll) /\ WF_vars(PollFails) /\ WF_vars(DeviceWorks)

-----------------------------------------------------------------------------
(* Properties.                                                             *)

Serial == 0..MaxMade
Request == [id : Word, serial : Serial]
Values == {"none", "applied", "failed"}
PostRecord == [pc : {"idle", "sent", "answered", "refused", "broken", "abandoned"},
               id : Word, serial : Serial]
PollRecord == [pc : {"idle", "id", "result", "reply", "broken"}, id : Word,
               result : [value : Values, of : Serial]]
Message == [kind : {"", "sending", "connecting", "rejected", "no response", "replaced",
                    "failed", "connected", "retrying"},
            serial : Serial, of : Serial]

\* Every variable keeps its type.
TypeOK ==
  /\ request_counter \in Word /\ waiting \in Word /\ applying \in Word
  /\ phase \in {"idle", "applying", "publishing"}
  /\ published \in [id : Word, result : [value : Values, of : Word]]
  /\ post \in [Fetch -> PostRecord] /\ poll \in PollRecord
  /\ pending \in Request /\ message \in Message
  /\ made \in Serial /\ origin \in [Word -> Serial] /\ resets \in 0..MaxResets

\* The page says that a newer submission replaced the pending one only when
\* somebody made one, also when ids wrap and when the device has reset.
ReplacedIsTrue == message.kind = "replaced" => made > message.serial

\* The failure the page reports is of the pending submission or of one made
\* after it, never of an older one whose result was still being shown, although
\* a poll may have started before the submission and ids start again.
FailureNotOlder == message.kind = "failed" => message.of >= message.serial

\* The page polls for ever: a poll the network swallows ends by itself.
PollsGoOn == []<>(poll.pc = "idle")

\* If some polls are answered, the page does not go on waiting for a submission
\* that a newer one has replaced.
ReplacementNoticed ==
  []<><<PollReply>>_vars =>
    []<>~(pending # NoPending /\ db_request_id_is_newer(published.id, pending.id))

-----------------------------------------------------------------------------
(* Statements of the repository's documents that the code breaks.          *)

\* openapi.yaml: the request id is echoed "once that submission has been
\* processed, with network.sta_config_result": a failure reported for a
\* submission is the failure of that submission.
FailureIsOwn == message.kind = "failed" => message.of = message.serial

-----------------------------------------------------------------------------
(* The strengthening that makes the safety properties inductive.           *)

\* What is known of the submissions: none has the id zero, and a device that may
\* reset has issued few.
HistoryKept ==
  /\ origin[0] = 0 /\ \A id \in Word : origin[id] <= made
  /\ resets > 0 => request_counter <= made

\* The id was issued some submissions ago, not before the last reset; the
\* counter has passed the end of the word once at most.
Issued(id) ==
  \E ago \in 0..made :
    \/ id + ago = request_counter
    \/ request_counter > 0 /\ id + ago = request_counter + Modulus - 1

IdsIssued ==
  /\ Issued(published.id) /\ Issued(published.result.of)
  /\ applying # 0 => Issued(applying)
  /\ waiting # 0 => Issued(waiting)
  /\ poll.pc \in {"result", "reply"} => Issued(poll.id)

\* Submissions are published in the order in which they were made.
InOrder ==
  /\ applying = 0 <=> phase = "idle"
  /\ phase = "publishing" => published.result.of = applying
  /\ origin[published.id] <= origin[published.result.of]
  /\ applying # 0 => origin[published.result.of] <= origin[applying]
  /\ waiting # 0 => /\ origin[published.result.of] <= origin[waiting]
                    /\ origin[applying] <= origin[waiting]

\* A status never shows an older result than its id.
StatusInOrder ==
  /\ poll.pc = "result" => origin[poll.id] <= origin[published.result.of]
  /\ poll.pc = "reply" => origin[poll.id] <= poll.result.of

\* An answered submission is the latest one only while its id is the counter,
\* or the device has reset and counts from 0 again.
Answer(request) ==
  /\ request.id \in Id /\ request.serial <= made /\ request.serial <= origin[request.id]
  /\ request.serial = made =>
       \/ request_counter = request.id
       \/ request_counter = 0 /\ request.id <= MaxMade

AnswersKnown ==
  /\ pending # NoPending => Answer(pending)
  /\ \A f \in Fetch : post[f].pc = "answered" => Answer(post[f])

PageInv == HistoryKept /\ IdsIssued /\ InOrder /\ StatusInOrder /\ AnswersKnown
=============================================================================
