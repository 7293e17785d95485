--------------------------- MODULE SetupPageProofs ---------------------------
(***************************************************************************)
(* Proofs about the script of the setup page, for request ids of any width *)
(* and any number of submissions under way: what the page says of its      *)
(* submission is true, although answers are late or lost, ids wrap, and    *)
(* the device resets and counts from zero again.                           *)
(***************************************************************************)
EXTENDS SetupPage, TLAPS

Published == [id : Word, result : [value : Values, of : Word]]

\* Half the word, and the submissions made within it.
LEMMA Bounds ==
  /\ Half \in Nat /\ Modulus = 2 * Half /\ Half > 2 /\ MaxMade \in Nat /\ MaxMade < Half
  /\ Word = 0..(Modulus - 1) /\ Modulus \in Nat /\ 0 \in Word /\ 0 \in Serial
BY ModulusAssumption, PageAssumption DEF Half, Word, Serial

\* Neither of two ids issued since the last reset is newer than the counter.
LEMMA IssuedIsNotNewer ==
  ASSUME TypeOK, NEW id \in Word, Issued(id)
  PROVE  /\ ~db_request_id_is_newer(id, request_counter)
         /\ request_counter = 0 =>
              \A other \in 1..MaxMade : ~db_request_id_is_newer(id, other)
<1>0. /\ request_counter \in Nat /\ id \in Nat /\ made \in Nat /\ made <= MaxMade
      /\ request_counter < Modulus /\ id < Modulus
  BY Bounds DEF TypeOK, Serial
<1>1. PICK ago \in 0..made :
        \/ id + ago = request_counter
        \/ request_counter > 0 /\ id + ago = request_counter + Modulus - 1
  BY DEF Issued
<1> DEFINE d == distance(id, request_counter)
<1>2. d = 0 \/ d >= Half
  <2>1. CASE id + ago = request_counter
    BY <1>0, <1>1, <2>1, Bounds DEF distance
  <2>2. CASE id + ago = request_counter + Modulus - 1
    BY <1>0, <1>1, <2>2, Bounds DEF distance
  <2> QED
    BY <1>1, <2>1, <2>2
<1>3. d \in Int
  BY <1>0, Bounds DEF distance
<1>4. ~db_request_id_is_newer(id, request_counter)
  BY <1>2, <1>3, Bounds DEF db_request_id_is_newer
<1>5. ASSUME request_counter = 0, NEW other \in 1..MaxMade
      PROVE  ~db_request_id_is_newer(id, other)
  <2>1. id = 0
    BY <1>0, <1>1, <1>5
  <2>2. distance(id, other) = Modulus - other
    BY <1>5, <2>1, Bounds DEF distance
  <2> QED
    BY <1>5, <2>2, Bounds DEF db_request_id_is_newer
<1> QED
  BY <1>4, <1>5

-----------------------------------------------------------------------------
(* A submission that the device accepts.                                   *)

\* It gets the next id, and the next number of the history.
LEMMA AcceptEffect ==
  ASSUME TypeOK, HistoryKept, Accept
  PROVE  /\ made' = made + 1 /\ made' \in Serial
         /\ request_counter' \in Id /\ request_counter' \in Word
         /\ \/ request_counter' = request_counter + 1
            \/ request_counter + 1 = Modulus /\ request_counter' = 1
         /\ waiting' = request_counter'
         /\ origin' = [origin EXCEPT ![request_counter'] = made']
         /\ UNCHANGED <<applying, phase, published>>
<1>1. /\ request_counter' = db_request_id_next(request_counter)
      /\ waiting' = request_counter' /\ UNCHANGED <<applying, phase, published>>
      /\ made < MaxMade /\ made' = made + 1
      /\ origin' = [origin EXCEPT ![request_counter'] = made']
  BY DEF Accept, Submit
<1>2. request_counter' \in Id /\ request_counter \in Word
  <2>1. request_counter \in Word
    BY DEF TypeOK
  <2> QED
    BY <1>1, <2>1, Bounds DEF Id, db_request_id_next
<1>3. request_counter' \in Word
  BY <1>2 DEF Id, Word
<1>4. made' \in Serial
  <2>1. made \in Serial
    BY DEF TypeOK
  <2> QED
    BY ONLY <1>1, <2>1, Bounds DEF Serial
<1>5. \/ request_counter' = request_counter + 1
      \/ request_counter + 1 = Modulus /\ request_counter' = 1
  <2>1. request_counter' = IF request_counter + 1 = Modulus THEN 1 ELSE request_counter + 1
    BY <1>1 DEF db_request_id_next
  <2> QED
    BY ONLY <2>1
<1> QED
  BY ONLY <1>1, <1>2, <1>3, <1>4, <1>5

\* Ids issued before it stay apart from the new one.
LEMMA IssuedStays ==
  ASSUME TypeOK, HistoryKept, Accept, NEW id \in Word, Issued(id)
  PROVE  Issued(id)' /\ id # request_counter' /\ origin'[id] = origin[id]
<1>0. /\ request_counter \in Nat /\ id \in Nat /\ made \in Nat /\ made <= MaxMade
      /\ request_counter < Modulus /\ id < Modulus /\ made' = made + 1 /\ made' <= MaxMade
      /\ \/ request_counter' = request_counter + 1
         \/ request_counter + 1 = Modulus /\ request_counter' = 1
  BY AcceptEffect, Bounds DEF TypeOK, Serial
<1>1. PICK ago \in 0..made :
        \/ id + ago = request_counter
        \/ request_counter > 0 /\ id + ago = request_counter + Modulus - 1
  BY DEF Issued
<1>2. /\ ago + 1 \in 0..made' /\ id # request_counter'
      /\ \/ id + (ago + 1) = request_counter'
         \/ request_counter' > 0 /\ id + (ago + 1) = request_counter' + Modulus - 1
  <2>1. ago \in Nat /\ ago + 1 \in 0..made' /\ ago + 1 < Half
    BY <1>0, <1>1, Bounds
  <2>2. CASE request_counter' = request_counter + 1
    BY <1>0, <1>1, <2>1, <2>2, Bounds
  <2>3. CASE request_counter + 1 = Modulus /\ request_counter' = 1
    BY <1>0, <1>1, <2>1, <2>3, Bounds
  <2> QED
    BY <1>0, <2>1, <2>2, <2>3
<1>3. Issued(id)'
  BY <1>2 DEF Issued
<1>4. origin'[id] = origin[id]
  BY <1>2, AcceptEffect DEF TypeOK
<1> QED
  BY <1>2, <1>3, <1>4

\* What was answered before it is no longer the latest, and what is answered to
\* it is.
LEMMA AnswerStays ==
  ASSUME TypeOK, HistoryKept, Accept
  PROVE  /\ \A request \in Request : Answer(request) => Answer(request)'
         /\ \A request : request.id = request_counter' /\ request.serial = made'
                          => Answer(request)'
<1>0. /\ made \in Nat /\ made' = made + 1 /\ request_counter' \in Id
      /\ request_counter' \in Word /\ origin \in [Word -> Serial]
      /\ origin' = [origin EXCEPT ![request_counter'] = made']
  BY AcceptEffect DEF TypeOK, Serial
<1>1. ASSUME NEW request \in Request, Answer(request) PROVE Answer(request)'
  <2>1. /\ request.id \in Id /\ request.id \in Word /\ request.serial \in Nat
        /\ request.serial <= made /\ request.serial <= origin[request.id]
    BY <1>1 DEF Answer, Request, Serial
  <2>2. request.serial <= made' /\ request.serial # made'
    BY <1>0, <2>1
  <2>3. origin'[request.id] = IF request.id = request_counter' THEN made' ELSE origin[request.id]
    BY <1>0, <2>1
  <2>4. request.serial <= origin'[request.id]
    BY <2>1, <2>2, <2>3
  <2> QED
    BY <2>1, <2>2, <2>4 DEF Answer
<1>2. ASSUME NEW request, request.id = request_counter', request.serial = made'
      PROVE  Answer(request)'
  <2>1. origin'[request_counter'] = made' /\ made' <= made'
    BY <1>0
  <2> QED
    BY <1>0, <1>2, <2>1 DEF Answer
<1> QED
  BY <1>1, <1>2

\* The rest of the invariant but for the submissions of the form.
LEMMA AcceptKeeps ==
  ASSUME TypeOK, PageInv, Accept, UNCHANGED <<poll, resets>>
  PROVE  HistoryKept' /\ IdsIssued' /\ InOrder' /\ StatusInOrder'
<1> USE DEF PageInv
<1>0. /\ made \in Nat /\ made' = made + 1 /\ request_counter' \in Id
      /\ request_counter' \in Word /\ request_counter \in Nat /\ request_counter' \in Nat
      /\ request_counter' <= request_counter + 1
      /\ waiting' = request_counter'
      /\ origin \in [Word -> Serial] /\ Word \subseteq Nat /\ 0 \in Word
      /\ origin' = [origin EXCEPT ![request_counter'] = made']
      /\ UNCHANGED <<applying, phase, published, poll, resets>> /\ poll.pc # "result"
  <2>1. /\ made' = made + 1 /\ request_counter' \in Id /\ request_counter' \in Word
        /\ waiting' = request_counter' /\ UNCHANGED <<applying, phase, published>>
        /\ origin' = [origin EXCEPT ![request_counter'] = made']
        /\ \/ request_counter' = request_counter + 1
           \/ request_counter + 1 = Modulus /\ request_counter' = 1
    BY AcceptEffect
  <2>2. made \in Nat /\ request_counter \in Nat /\ origin \in [Word -> Serial]
    BY Bounds DEF TypeOK, Serial
  <2>3. request_counter' \in Nat /\ request_counter' <= request_counter + 1
    BY <2>1, <2>2, Bounds
  <2> QED
    BY <2>1, <2>2, <2>3, Bounds DEF Accept
<1>1. /\ \A id \in Word : origin[id] \in Nat /\ origin[id] <= made
      /\ \A id \in Word : origin'[id] \in Nat /\ origin'[id] <= made'
      /\ origin'[request_counter'] = made' /\ origin'[0] = 0
  <2>1. \A id \in Word : origin[id] \in Nat /\ origin[id] <= made /\ origin[0] = 0
    BY <1>0 DEF Serial, HistoryKept
  <2>2. \A id \in Word : origin'[id] = IF id = request_counter' THEN made' ELSE origin[id]
    BY <1>0
  <2>3. request_counter' # 0
    BY <1>0 DEF Id
  <2> QED
    BY <1>0, <2>1, <2>2, <2>3
<1>2. HistoryKept'
  <2>1. resets > 0 => request_counter' <= made'
    BY <1>0 DEF HistoryKept
  <2> QED
    BY <1>0, <1>1, <2>1 DEF HistoryKept
<1>3. /\ published.id \in Word /\ published.result.of \in Word /\ applying \in Word
      /\ poll.id \in Word
  BY DEF TypeOK, PollRecord
<1>4. /\ Issued(published.id)' /\ origin'[published.id] = origin[published.id]
      /\ Issued(published.result.of)'
      /\ origin'[published.result.of] = origin[published.result.of]
  <2>1. \A id \in Word : Issued(id) => Issued(id)' /\ origin'[id] = origin[id]
    BY IssuedStays
  <2> QED
    BY <1>0, <1>3, <2>1 DEF IdsIssued, Issued
<1>5. applying # 0 => Issued(applying)' /\ origin'[applying] = origin[applying]
  <2>1. \A id \in Word : Issued(id) => Issued(id)' /\ origin'[id] = origin[id]
    BY IssuedStays
  <2> QED
    BY <1>0, <1>3, <2>1 DEF IdsIssued, Issued
<1>6. poll.pc = "reply" => Issued(poll.id)' /\ origin'[poll.id] = origin[poll.id]
  <2>1. \A id \in Word : Issued(id) => Issued(id)' /\ origin'[id] = origin[id]
    BY IssuedStays
  <2>2. poll'.id = poll.id
    BY <1>0
  <2>3. poll.pc = "reply" => Issued(poll.id)
    BY DEF IdsIssued
  <2> QED
    BY <1>3, <2>1, <2>2, <2>3
<1>7. Issued(waiting)'
  <2>1. made' \in Nat /\ waiting' = request_counter' /\ request_counter' \in Nat
    BY <1>0
  <2>2. 0 \in 0..made'
    BY ONLY <2>1
  <2>3. request_counter' + 0 = request_counter'
    <3>1. \A n \in Nat : n + 0 = n
      OBVIOUS
    <3> QED
      BY ONLY <2>1, <3>1, Zenon
  <2> QED
    BY <2>1, <2>2, <2>3 DEF Issued
<1>8. IdsIssued'
  BY <1>0, <1>4, <1>5, <1>6, <1>7 DEF IdsIssued
<1>9. InOrder'
  <2>1. /\ origin'[published.result.of] <= origin'[waiting']
        /\ origin'[applying] <= origin'[waiting']
    BY <1>0, <1>1, <1>3
  <2>2. origin'[published.id] <= origin'[published.result.of]
    BY <1>4 DEF InOrder
  <2>3. applying # 0 => origin'[published.result.of] <= origin'[applying]
    BY <1>4, <1>5 DEF InOrder
  <2>4. /\ applying = 0 <=> phase = "idle"
        /\ phase = "publishing" => published.result.of = applying
    BY DEF InOrder
  <2> QED
    BY <1>0, <2>1, <2>2, <2>3, <2>4 DEF InOrder
<1>10. StatusInOrder'
  BY <1>0, <1>6 DEF StatusInOrder
<1> QED
  BY <1>2, <1>8, <1>9, <1>10

-----------------------------------------------------------------------------
(* The other steps of the device.                                          *)

\* Results and ids are published in the order of the submissions.
LEMMA WorkKeeps ==
  ASSUME TypeOK, PageInv, Work, UNCHANGED <<post, poll, pageVars, history, resets>>
  PROVE  TypeOK' /\ PageInv'
<1> USE DEF PageInv
<1>0. /\ UNCHANGED <<post, poll, pending, message, made, origin, resets>>
      /\ UNCHANGED request_counter
      /\ \A id \in Word : origin[id] \in Nat /\ 0 \in Word
  <2>1. \A id \in Word : origin[id] \in Nat
    BY DEF TypeOK, Serial
  <2> QED
    BY <2>1, Bounds DEF history, pageVars, Work, Take, PublishResult, PublishId
<1>1. HistoryKept' /\ AnswersKnown'
  BY <1>0 DEF HistoryKept, AnswersKnown, Answer
<1>2. CASE Take
  <2>1. /\ phase = "idle" /\ waiting # 0 /\ phase' = "applying" /\ applying' = waiting
        /\ waiting' = 0 /\ published' = published
    BY <1>2 DEF Take
  <2>2. TypeOK'
    BY <1>0, <2>1, Bounds DEF TypeOK
  <2>3. IdsIssued'
    BY <1>0, <2>1 DEF IdsIssued, Issued
  <2>4. InOrder'
    BY <1>0, <2>1 DEF InOrder
  <2>5. StatusInOrder'
    BY <1>0, <2>1 DEF StatusInOrder
  <2> QED
    BY <1>1, <2>2, <2>3, <2>4, <2>5
<1>3. CASE PublishResult
  <2>1. PICK r \in Outcomes(applying) : published' = [id |-> published.id, result |-> r]
    BY <1>3 DEF PublishResult
  <2>2. /\ phase = "applying" /\ phase' = "publishing" /\ UNCHANGED <<waiting, applying>>
    BY <1>3 DEF PublishResult
  <2>3. /\ r \in [value : Values, of : Word] /\ r.of = applying /\ applying \in Word
        /\ published.id \in Word /\ published.result.of \in Word /\ waiting \in Word
        /\ poll.id \in Word
    BY <2>1 DEF Outcomes, TypeOK, Values, PollRecord
  <2>4. published'.id = published.id /\ published'.result.of = applying
    BY <2>1, <2>3
  <2>5. TypeOK'
    BY <1>0, <2>1, <2>2, <2>3 DEF TypeOK
  <2>6. applying # 0
    BY <2>2 DEF InOrder
  <2>7. IdsIssued'
    BY <1>0, <2>2, <2>4, <2>6 DEF IdsIssued, Issued
  <2>8. /\ origin[published.id] \in Nat /\ origin[published.result.of] \in Nat
        /\ origin[applying] \in Nat /\ origin[waiting] \in Nat /\ origin[poll.id] \in Nat
    BY <1>0, <2>3
  <2>9. InOrder'
    <3>1. origin[published.id] <= origin[applying]
      BY <2>6, <2>8 DEF InOrder
    <3> QED
      BY <1>0, <2>2, <2>4, <2>8, <3>1 DEF InOrder
  <2>10. StatusInOrder'
    <3>1. poll.pc = "result" => origin[poll.id] <= origin[applying]
      BY <2>6, <2>8 DEF InOrder, StatusInOrder
    <3> QED
      BY <1>0, <2>4, <3>1 DEF StatusInOrder
  <2> QED
    BY <1>1, <2>5, <2>7, <2>9, <2>10
<1>4. CASE PublishId
  <2>1. /\ phase = "publishing" /\ phase' = "idle" /\ applying' = 0
        /\ published' = [published EXCEPT !.id = applying] /\ waiting' = waiting
    BY <1>4 DEF PublishId
  <2>2. /\ published \in [id : Word, result : [value : Values, of : Word]]
        /\ applying \in Word /\ waiting \in Word
    BY DEF TypeOK
  <2>3. published'.id = applying /\ published'.result = published.result
    BY <2>1, <2>2
  <2>4. published.result.of = applying /\ applying # 0
    BY <2>1 DEF InOrder
  <2>5. TypeOK'
    BY <1>0, <2>1, <2>2 DEF TypeOK
  <2>6. IdsIssued'
    BY <1>0, <2>1, <2>3, <2>4 DEF IdsIssued, Issued
  <2>7. origin[0] = 0 /\ origin[applying] \in Nat /\ origin[waiting] \in Nat
    BY <1>0, <2>2 DEF HistoryKept
  <2>8. InOrder'
    BY <1>0, <2>1, <2>3, <2>4, <2>7 DEF InOrder
  <2>9. StatusInOrder'
    BY <1>0, <2>3 DEF StatusInOrder
  <2> QED
    BY <1>1, <2>5, <2>6, <2>8, <2>9
<1> QED
  BY <1>2, <1>3, <1>4 DEF Work

\* The submissions of the form that a reset breaks.
LEMMA PostsBroken ==
  ASSUME NEW p \in [Fetch -> PostRecord], NEW q,
         q = [f \in Fetch |-> [p[f] EXCEPT !.pc =
                IF @ \in {"idle", "abandoned"} THEN "idle" ELSE "broken"]]
  PROVE  q \in [Fetch -> PostRecord] /\ \A f \in Fetch : q[f].pc \in {"idle", "broken"}
<1>1. ASSUME NEW f \in Fetch
      PROVE  q[f] \in PostRecord /\ q[f].pc \in {"idle", "broken"}
  <2>1. p[f] \in PostRecord
    OBVIOUS
  <2>2. PICK pc \in {"idle", "broken"} : q[f] = [p[f] EXCEPT !.pc = pc]
    OBVIOUS
  <2> QED
    BY <2>1, <2>2 DEF PostRecord
<1> QED
  BY <1>1

\* The device counts from zero; what was answered before stays unequal to what
\* it will issue, or is the latest.
LEMMA ResetKeeps ==
  ASSUME TypeOK, PageInv, Reset
  PROVE  TypeOK' /\ PageInv'
<1> USE DEF PageInv
<1>1. /\ resets > 0 /\ resets' = resets - 1
      /\ request_counter' = 0 /\ waiting' = 0 /\ applying' = 0 /\ phase' = "idle"
      /\ published' = [id |-> 0, result |-> NoResult]
      /\ UNCHANGED <<pending, message, made, origin>>
  BY DEF Reset, pageVars, history
<1>2. /\ resets \in 0..MaxResets /\ MaxResets \in Nat /\ made \in Nat /\ made <= MaxMade
      /\ MaxMade \in Nat /\ request_counter \in Nat
  BY Bounds, PageAssumption DEF TypeOK, Serial
<1>3. post' \in [Fetch -> PostRecord] /\ \A f \in Fetch : post'[f].pc # "answered"
  <2>1. /\ post \in [Fetch -> PostRecord]
        /\ post' = [f \in Fetch |-> [post[f] EXCEPT !.pc =
             IF @ \in {"idle", "abandoned"} THEN "idle" ELSE "broken"]]
    BY DEF TypeOK, Reset
  <2> QED
    BY <2>1, PostsBroken
<1>4. poll' \in PollRecord /\ poll'.pc \in {"idle", "broken"}
  <2>1. poll \in PollRecord
    BY DEF TypeOK
  <2>2. PICK pc \in {"idle", "broken"} : poll' = [poll EXCEPT !.pc = pc]
    BY DEF Reset
  <2> QED
    BY <2>1, <2>2 DEF PollRecord
<1>5. TypeOK'
  <2>1. resets' \in 0..MaxResets
    BY <1>1, <1>2
  <2>2. [id |-> 0, result |-> NoResult] \in [id : Word, result : [value : Values, of : Word]]
    BY Bounds DEF NoResult, Values
  <2> QED
    BY <1>1, <1>3, <1>4, <2>1, <2>2, Bounds DEF TypeOK
<1>6. HistoryKept'
  BY <1>1, <1>2 DEF HistoryKept
<1>7. published'.id = 0 /\ published'.result.of = 0
  BY <1>1 DEF NoResult
<1>8. IdsIssued'
  <2>1. 0 \in 0..made' /\ 0 + 0 = request_counter'
    BY <1>1, <1>2
  <2> QED
    BY <1>1, <1>4, <1>7, <2>1 DEF IdsIssued, Issued
<1>9. InOrder' /\ StatusInOrder'
  <2>1. origin[0] = 0
    BY DEF HistoryKept
  <2> QED
    BY <1>1, <1>4, <1>7, <2>1 DEF InOrder, StatusInOrder
<1>10. AnswersKnown'
  <2>1. ASSUME pending # NoPending PROVE Answer(pending)'
    <3>1. Answer(pending) /\ pending.id \in Nat
      BY <2>1, Bounds DEF AnswersKnown, TypeOK, Request
    <3>2. pending.serial = made => pending.id <= MaxMade
      BY <1>1, <1>2, <3>1 DEF Answer, HistoryKept
    <3> QED
      BY <1>1, <3>1, <3>2 DEF Answer
  <2> QED
    BY <1>1, <1>3, <2>1 DEF AnswersKnown
<1> QED
  BY <1>5, <1>6, <1>8, <1>9, <1>10

\* A submission that arrives: the device issues an id, whoever asked.
LEMMA AcceptingKeeps ==
  ASSUME TypeOK, PageInv, OtherClient \/ \E f \in Fetch : DeviceAccepts(f)
  PROVE  TypeOK' /\ PageInv' /\ made' = made + 1 /\ message' = message
<1> USE DEF PageInv
<1>1. Accept /\ UNCHANGED <<poll, resets, pending, message>>
  BY DEF OtherClient, DeviceAccepts, pageVars
<1>2. /\ made' = made + 1 /\ made' \in Serial
      /\ request_counter' \in Id /\ request_counter' \in Word
      /\ waiting' = request_counter'
      /\ origin' = [origin EXCEPT ![request_counter'] = made']
      /\ UNCHANGED <<applying, phase, published>>
  BY <1>1, AcceptEffect
<1>3. HistoryKept' /\ IdsIssued' /\ InOrder' /\ StatusInOrder'
  BY <1>1, AcceptKeeps
<1>4. /\ \A request \in Request : Answer(request) => Answer(request)'
      /\ \A request : request.id = request_counter' /\ request.serial = made'
                       => Answer(request)'
  BY <1>1, AnswerStays
<1>5. /\ post' \in [Fetch -> PostRecord]
      /\ \A f \in Fetch : post'[f].pc = "answered" =>
           \/ post'[f] = post[f]
           \/ post'[f].id = request_counter' /\ post'[f].serial = made'
  <2>1. CASE OtherClient
    BY <2>1 DEF OtherClient, TypeOK
  <2>2. ASSUME NEW f \in Fetch, DeviceAccepts(f)
        PROVE  <1>5!1 /\ <1>5!2
    <3>1. CASE post[f].pc = "abandoned"
      <4>1. post' = [post EXCEPT ![f] = [@ EXCEPT !.pc = "idle"]]
        BY <2>2, <3>1 DEF DeviceAccepts
      <4>2. [post[f] EXCEPT !.pc = "idle"] \in PostRecord /\ post \in [Fetch -> PostRecord]
        BY DEF TypeOK, PostRecord
      <4> QED
        BY <4>1, <4>2 DEF PostRecord
    <3>2. CASE post[f].pc # "abandoned"
      <4>1. post' = [post EXCEPT ![f] =
              [pc |-> "answered", id |-> request_counter', serial |-> made']]
        BY <2>2, <3>2 DEF DeviceAccepts
      <4>2. /\ [pc |-> "answered", id |-> request_counter', serial |-> made'] \in PostRecord
            /\ post \in [Fetch -> PostRecord]
        BY <1>2 DEF TypeOK, PostRecord
      <4> QED
        BY <4>1, <4>2
    <3> QED
      BY <3>1, <3>2
  <2> QED
    BY <2>1, <2>2
<1>6. TypeOK'
  <2>1. origin' \in [Word -> Serial]
    BY <1>2 DEF TypeOK
  <2> QED
    BY <1>1, <1>2, <1>5, <2>1 DEF TypeOK
<1>7. pending' # NoPending => Answer(pending)'
  <2>1. pending \in Request /\ pending' = pending /\ (pending # NoPending => Answer(pending))
    BY <1>1 DEF TypeOK, AnswersKnown
  <2> QED
    BY <1>4, <2>1 DEF Answer
<1>8. ASSUME NEW f \in Fetch, post'[f].pc = "answered" PROVE Answer(post[f])'
  <2>1. CASE post'[f] = post[f]
    <3>1. [id |-> post[f].id, serial |-> post[f].serial] \in Request
      BY DEF TypeOK, PostRecord, Request
    <3>2. Answer([id |-> post[f].id, serial |-> post[f].serial])
      BY <1>8, <2>1 DEF AnswersKnown, Answer
    <3>3. Answer([id |-> post[f].id, serial |-> post[f].serial])'
      <4>1. ASSUME NEW request \in Request, Answer(request),
                   request.id = post[f].id, request.serial = post[f].serial
            PROVE  Answer(post[f])'
        BY <1>4, <2>1, <4>1 DEF Answer
      <4> QED
        BY <2>1, <3>1, <3>2, <4>1 DEF Answer
    <3> QED
      BY <3>3 DEF Answer
  <2>2. CASE post'[f].id = request_counter' /\ post'[f].serial = made'
    <3>1. ASSUME NEW request, request = post'[f] PROVE Answer(request)'
      BY <1>4, <2>2, <3>1
    <3> QED
      BY <3>1 DEF Answer
  <2> QED
    BY <1>5, <1>8, <2>1, <2>2
<1> QED
  BY <1>1, <1>2, <1>3, <1>6, <1>7, <1>8 DEF AnswersKnown

-----------------------------------------------------------------------------
(* The form.                                                               *)

\* A submission of the form moves on, and the page says so.
LEMMA PostMoves ==
  ASSUME TypeOK, PageInv, NEW f \in Fetch, NEW pc \in {"idle", "sent", "refused", "abandoned"},
         post' = [post EXCEPT ![f].pc = pc],
         pending' \in Request, pending' # NoPending => Answer(pending'), message' \in Message,
         UNCHANGED <<serviceVars, poll, history, resets>>
  PROVE  TypeOK' /\ PageInv'
<1> USE DEF PageInv
<1>1. /\ UNCHANGED <<request_counter, waiting, applying, phase, published>>
      /\ UNCHANGED <<poll, made, origin, resets>>
  BY DEF serviceVars, history
<1>2. /\ post' \in [Fetch -> PostRecord]
      /\ \A g \in Fetch : post'[g].pc = "answered" => post'[g] = post[g]
  <2>1. post \in [Fetch -> PostRecord]
    BY DEF TypeOK
  <2>2. [post[f] EXCEPT !.pc = pc] \in PostRecord /\ [post[f] EXCEPT !.pc = pc].pc = pc
    BY <2>1 DEF PostRecord
  <2>3. post' = [post EXCEPT ![f] = [post[f] EXCEPT !.pc = pc]]
    BY <2>1
  <2> QED
    BY <2>1, <2>2, <2>3
<1>3. TypeOK'
  BY <1>1, <1>2 DEF TypeOK
<1>4. HistoryKept' /\ IdsIssued' /\ InOrder' /\ StatusInOrder'
  BY <1>1 DEF HistoryKept, IdsIssued, Issued, InOrder, StatusInOrder
<1>5. AnswersKnown'
  BY <1>1, <1>2 DEF AnswersKnown, Answer
<1> QED
  BY <1>3, <1>4, <1>5

\* The page takes a submission for pending only from its answer, and none of
\* these steps ends its waiting with a claim.
LEMMA PostingKeeps ==
  ASSUME TypeOK, PageInv, NEW f \in Fetch, Form(f) \/ DeviceRefuses(f)
  PROVE  /\ TypeOK' /\ PageInv' /\ made' = made
         /\ message' = message \/ message'.kind \notin {"replaced", "failed"}
<1> USE DEF PageInv
<1>0. /\ pending \in Request /\ message \in Message /\ NoPending \in Request
      /\ pending # NoPending => Answer(pending)
      /\ post[f] \in PostRecord /\ post \in [Fetch -> PostRecord]
      /\ \A kind \in {"sending", "connecting", "rejected", "no response"} :
           Said(kind) \in Message /\ Said(kind).kind = kind
  BY Bounds DEF TypeOK, AnswersKnown, NoPending, Request, Said, Message
<1>1. CASE DeviceRefuses(f)
  <2>1. PICK pc \in {"refused", "idle"} : post' = [post EXCEPT ![f].pc = pc]
    BY <1>1 DEF DeviceRefuses
  <2>2. UNCHANGED <<serviceVars, pending, message, poll, history, resets>>
    BY <1>1 DEF DeviceRefuses, pageVars
  <2>3. made' = made /\ message' = message
    BY <2>2 DEF history
  <2> QED
    BY <1>0, <2>1, <2>2, <2>3, PostMoves
<1>2. CASE FormSubmit(f)
  <2>1. /\ post' = [post EXCEPT ![f].pc = "sent"] /\ message' = Said("sending")
        /\ UNCHANGED <<serviceVars, pending, poll, history, resets>>
    BY <1>2 DEF FormSubmit
  <2>2. made' = made
    BY <2>1 DEF history
  <2> QED
    BY <1>0, <2>1, <2>2, PostMoves
<1>3. CASE PostAnswered(f)
  <2>1. /\ post[f].pc = "answered" /\ post' = [post EXCEPT ![f].pc = "idle"]
        /\ pending' = [id |-> post[f].id, serial |-> post[f].serial]
        /\ message' = Said("connecting")
        /\ UNCHANGED <<serviceVars, poll, history, resets>>
    BY <1>3 DEF PostAnswered
  <2>2. made' = made
    BY <2>1 DEF history
  <2>3. pending' \in Request
    BY <1>0, <2>1 DEF PostRecord, Request
  <2>4. Answer(pending')
    <3>1. Answer(post[f]) /\ pending'.id = post[f].id /\ pending'.serial = post[f].serial
      BY <2>1 DEF AnswersKnown
    <3> QED
      BY <3>1 DEF Answer
  <2> QED
    BY <1>0, <2>1, <2>2, <2>3, <2>4, PostMoves
<1>4. CASE PostRefused(f)
  <2>1. /\ post' = [post EXCEPT ![f].pc = "idle"] /\ message' = Said("rejected")
        /\ pending' = NoPending /\ UNCHANGED <<serviceVars, poll, history, resets>>
    BY <1>4 DEF PostRefused
  <2>2. made' = made
    BY <2>1 DEF history
  <2> QED
    BY <1>0, <2>1, <2>2, PostMoves
<1>5. CASE PostFails(f)
  <2>1. PICK pc \in {"abandoned", "idle"} : post' = [post EXCEPT ![f].pc = pc]
    BY <1>5 DEF PostFails
  <2>2. /\ message' = Said("no response") /\ pending' = NoPending
        /\ UNCHANGED <<serviceVars, poll, history, resets>>
    BY <1>5 DEF PostFails
  <2>3. made' = made
    BY <2>2 DEF history
  <2> QED
    BY <1>0, <2>1, <2>2, <2>3, PostMoves
<1> QED
  BY <1>1, <1>2, <1>3, <1>4, <1>5 DEF Form

-----------------------------------------------------------------------------
(* The poll.                                                               *)

\* A poll moves on, with an id that was issued and a result no older than it.
LEMMA PollMoves ==
  ASSUME TypeOK, PageInv, poll' \in PollRecord, pending' \in Request, message' \in Message,
         poll'.pc \in {"result", "reply"} => Issued(poll'.id),
         poll'.pc = "result" => origin[poll'.id] <= origin[published.result.of],
         poll'.pc = "reply" => origin[poll'.id] <= poll'.result.of,
         pending' = NoPending \/ pending' = pending,
         UNCHANGED <<serviceVars, post, history, resets>>
  PROVE  TypeOK' /\ PageInv'
<1> USE DEF PageInv
<1>1. /\ UNCHANGED <<request_counter, waiting, applying, phase, published>>
      /\ UNCHANGED <<post, made, origin, resets>>
  BY DEF serviceVars, history
<1>2. TypeOK'
  BY <1>1 DEF TypeOK
<1>3. HistoryKept' /\ IdsIssued' /\ InOrder' /\ StatusInOrder'
  BY <1>1 DEF HistoryKept, IdsIssued, Issued, InOrder, StatusInOrder
<1>4. AnswersKnown'
  BY <1>1 DEF AnswersKnown, Answer
<1> QED
  BY <1>2, <1>3, <1>4

\* The steps of a poll but for the last say nothing.
LEMMA PollingKeeps ==
  ASSUME TypeOK, PageInv, Poll \/ StatusReadId \/ StatusReadResult \/ PollFails
  PROVE  TypeOK' /\ PageInv' /\ made' = made /\ message' = message
<1>0. /\ UNCHANGED <<serviceVars, pending, message, post, history, resets>>
      /\ made' = made /\ message' = message
      /\ poll \in PollRecord /\ pending' \in Request /\ message' \in Message
      /\ origin \in [Word -> Serial]
      /\ published.id \in Word /\ published.result.of \in Word
      /\ published.result.value \in Values
  BY DEF TypeOK, Poll, StatusReadId, StatusReadResult, PollFails, pageVars, history
<1>1. CASE Poll \/ PollFails
  <2>1. PICK pc \in {"id", "idle"} : poll' = [poll EXCEPT !.pc = pc]
    BY <1>1 DEF Poll, PollFails
  <2>2. poll' \in PollRecord /\ poll'.pc = pc
    BY <1>0, <2>1 DEF PollRecord
  <2> QED
    BY <1>0, <2>2, PollMoves
<1>2. CASE StatusReadId
  <2>1. poll' = [poll EXCEPT !.pc = "result", !.id = published.id]
    BY <1>2 DEF StatusReadId
  <2>2. poll' \in PollRecord /\ poll'.pc = "result" /\ poll'.id = published.id
    BY <1>0, <2>1 DEF PollRecord
  <2>3. Issued(published.id) /\ origin[published.id] <= origin[published.result.of]
    BY DEF PageInv, IdsIssued, InOrder
  <2>4. Issued(poll'.id) /\ origin[poll'.id] <= origin[published.result.of]
    BY <2>2, <2>3 DEF Issued
  <2> QED
    BY <1>0, <2>2, <2>4, PollMoves
<1>3. CASE StatusReadResult
  <2>1. /\ poll.pc = "result"
        /\ poll' = [poll EXCEPT !.pc = "reply",
             !.result = [value |-> published.result.value,
                         of |-> origin[published.result.of]]]
    BY <1>3 DEF StatusReadResult
  <2>2. origin[published.result.of] \in Serial
    BY <1>0
  <2>3. /\ poll' \in PollRecord /\ poll'.pc = "reply" /\ poll'.id = poll.id
        /\ poll'.result.of = origin[published.result.of]
    BY <1>0, <2>1, <2>2 DEF PollRecord
  <2>4. Issued(poll.id) /\ origin[poll.id] <= origin[published.result.of]
    BY <2>1 DEF PageInv, IdsIssued, StatusInOrder
  <2>5. Issued(poll'.id) /\ origin[poll'.id] <= poll'.result.of
    BY <2>3, <2>4 DEF Issued
  <2> QED
    BY <1>0, <2>3, <2>5, PollMoves
<1> QED
  BY <1>1, <1>2, <1>3

\* What the page concludes from an answer is so: an id that is newer than the
\* pending one belongs to a submission made after it, and the result under the
\* pending id is not of an older submission.
LEMMA ReplyKeeps ==
  ASSUME TypeOK, PageInv, PollReply
  PROVE  /\ TypeOK' /\ PageInv' /\ made' = made
         /\ \/ message' = message
            \/ message'.kind \notin {"replaced", "failed"}
            \/ message'.kind = "replaced" /\ made > message'.serial
            \/ message'.kind = "failed" /\ message'.of >= message'.serial
<1>0. /\ UNCHANGED <<serviceVars, post, history, resets>> /\ made' = made
      /\ poll.pc = "reply" /\ poll' = [poll EXCEPT !.pc = "idle"] /\ render
      /\ poll \in PollRecord /\ pending \in Request /\ message \in Message
      /\ NoPending \in Request
  BY Bounds DEF PollReply, TypeOK, NoPending, Request, history
<1>1. poll' \in PollRecord /\ poll'.pc = "idle"
  BY <1>0 DEF PollRecord
<1>2. /\ poll.id \in Word /\ poll.result.of \in Nat /\ Issued(poll.id)
      /\ origin[poll.id] <= poll.result.of /\ origin[poll.id] \in Nat
      /\ made \in Nat /\ pending.serial \in Nat /\ pending.id \in Word
      /\ pending.serial \in Serial /\ poll.result.of \in Serial
  BY <1>0 DEF TypeOK, PageInv, IdsIssued, StatusInOrder, PollRecord, Request, Serial
<1>3. pending # NoPending => Answer(pending)
  BY DEF PageInv, AnswersKnown
<1>4. ASSUME NEW kind \in {"replaced", "failed", "connected"}, Conclude(kind)
      PROVE  /\ pending' = NoPending /\ message' \in Message /\ message'.kind = kind
             /\ message'.serial = pending.serial /\ message'.of = poll.result.of
  BY <1>2, <1>4 DEF Conclude, Message
<1>5. Said("retrying") \in Message /\ Said("retrying").kind = "retrying"
  BY Bounds DEF Said, Message
<1>6. CASE pending # NoPending /\ Replaced /\ Conclude("replaced")
  <2>1. made # pending.serial
    <3>1. SUFFICES ASSUME made = pending.serial PROVE FALSE
      OBVIOUS
    <3>2. \/ request_counter = pending.id
          \/ request_counter = 0 /\ pending.id <= MaxMade
      BY <1>3, <1>6, <3>1 DEF Answer
    <3>3. pending.id \in Id
      BY <1>3, <1>6 DEF Answer
    <3>4. request_counter = pending.id \/ pending.id \in 1..MaxMade
      BY <3>2, <3>3, Bounds DEF Id
    <3> QED
      BY <1>2, <1>6, <3>2, <3>4, IssuedIsNotNewer DEF Replaced
  <2>2. made > pending.serial
    BY <1>2, <1>3, <1>6, <2>1 DEF Answer
  <2>3. message'.kind = "replaced" /\ made > message'.serial
    BY <1>4, <1>6, <2>2
  <2> QED
    BY <1>0, <1>1, <1>4, <1>6, <2>3, PollMoves
<1>7. CASE pending # NoPending /\ poll.id = pending.id /\ Conclude("failed")
  <2>1. poll.result.of >= pending.serial
    BY <1>2, <1>3, <1>7 DEF Answer
  <2>2. message'.kind = "failed" /\ message'.of >= message'.serial
    BY <1>4, <1>7, <2>1
  <2> QED
    BY <1>0, <1>1, <1>4, <1>7, <2>2, PollMoves
<1>8. CASE Conclude("connected")
  BY <1>0, <1>1, <1>4, <1>8, PollMoves
<1>9. CASE message' = Said("retrying") /\ UNCHANGED pending
  BY <1>0, <1>1, <1>5, <1>9, PollMoves
<1>10. CASE UNCHANGED pageVars
  <2>1. pending' = pending /\ message' = message
    BY <1>10 DEF pageVars
  <2> QED
    BY <1>0, <1>1, <2>1, PollMoves
<1> QED
  BY <1>0, <1>6, <1>7, <1>8, <1>9, <1>10 DEF render

-----------------------------------------------------------------------------
(* The invariant, and the properties it gives.                             *)

\* What every reachable state satisfies.
PageIInv == TypeOK /\ PageInv /\ ReplacedIsTrue /\ FailureNotOlder

\* The device has answered everything, and the page has asked nothing.
LEMMA PageInitially == Init => PageIInv
<1> SUFFICES ASSUME Init PROVE PageIInv
  OBVIOUS
<1>1. PICK id \in Word : Answered(id)
  BY DEF Init, ServiceInit
<1>2. /\ request_counter = id /\ waiting = 0 /\ applying = 0 /\ phase = "idle"
      /\ resets = IF id = 0 THEN MaxResets ELSE 0
      /\ post = [f \in Fetch |-> [pc |-> "idle", id |-> 0, serial |-> 0]]
      /\ poll = [pc |-> "idle", id |-> 0, result |-> NoResult]
      /\ pending = NoPending /\ message = Said("") /\ made = 0
      /\ origin = [n \in Word |-> 0]
  BY <1>1 DEF Init, Answered
<1>3. /\ published \in [id : Word, result : [value : Values, of : Word]]
      /\ published.id = id /\ published.result.of = id
  <2>1. PICK r \in IF id = 0 THEN {NoResult} ELSE Outcomes(id) :
          published = [id |-> id, result |-> r]
    BY <1>1 DEF Answered
  <2>2. r \in [value : Values, of : Word] /\ r.of = id
    <3>1. CASE id = 0
      BY <2>1, <3>1 DEF NoResult, Values
    <3>2. CASE id # 0
      BY <2>1, <3>2 DEF Outcomes, Values
    <3> QED
      BY <3>1, <3>2
  <2> QED
    BY <2>1, <2>2
<1>a. /\ id \in Nat /\ made = 0 /\ request_counter = id /\ resets \in 0..MaxResets
      /\ resets > 0 => id = 0
  <2>1. resets = IF id = 0 THEN MaxResets ELSE 0
    BY <1>2
  <2>2. MaxResets \in Nat
    BY PageAssumption
  <2>3. resets \in 0..MaxResets /\ (resets > 0 => id = 0)
    BY ONLY <2>1, <2>2
  <2>4. id \in Nat
    BY Bounds
  <2> QED
    BY ONLY <1>2, <2>3, <2>4
<1>b. \A n \in Word : origin[n] = 0
  BY <1>2
<1>4. TypeOK
  <2>1. resets \in 0..MaxResets
    BY <1>a
  <2>2. origin \in [Word -> Serial] /\ made \in Serial
    BY <1>2, Bounds
  <2>3. post \in [Fetch -> PostRecord]
    BY <1>2, Bounds DEF PostRecord
  <2>4. poll \in PollRecord /\ pending \in Request /\ message \in Message
    BY <1>2, Bounds
       DEF PollRecord, NoResult, Values, NoPending, Request, Said, Message
  <2> QED
    BY <1>2, <1>3, <2>1, <2>2, <2>3, <2>4, Bounds DEF TypeOK
<1>5. PageInv
  <2>1. HistoryKept
    <3>1. 0 <= made /\ (resets > 0 => request_counter <= made)
      BY ONLY <1>a
    <3> QED
      BY <1>a, <1>b, <3>1, Bounds DEF HistoryKept
  <2>2. IdsIssued
    <3>1. 0 \in 0..made /\ id + 0 = request_counter
      <4>1. id + 0 = id
        BY ONLY <1>a
      <4> QED
        BY <1>a, <4>1
    <3>2. Issued(id)
      BY <3>1 DEF Issued
    <3> QED
      BY <1>2, <1>3, <3>2 DEF IdsIssued
  <2>3. InOrder /\ StatusInOrder
    <3>1. origin[id] <= origin[id]
      BY <1>b
    <3>2. poll.pc = "idle"
      BY <1>2
    <3> QED
      BY <1>2, <1>3, <3>1, <3>2 DEF InOrder, StatusInOrder
  <2>4. AnswersKnown
    BY <1>2 DEF AnswersKnown
  <2> QED
    BY <2>1, <2>2, <2>3, <2>4 DEF PageInv
<1>6. ReplacedIsTrue /\ FailureNotOlder
  BY <1>2 DEF ReplacedIsTrue, FailureNotOlder, Said
<1> QED
  BY <1>4, <1>5, <1>6 DEF PageIInv

\* However submissions, the work of the device, its resets and the polls follow
\* each other, ids and results keep the order of the submissions.
THEOREM PageInvariant == Spec => []PageIInv
<1>1. ASSUME PageIInv, [Next]_vars PROVE PageIInv'
  <2>0. TypeOK /\ PageInv /\ ReplacedIsTrue /\ FailureNotOlder
    BY <1>1 DEF PageIInv
  <2>1. /\ TypeOK' /\ PageInv' /\ (made' = made \/ made' = made + 1)
        /\ \/ message' = message
           \/ message'.kind \notin {"replaced", "failed"}
           \/ message'.kind = "replaced" /\ made > message'.serial /\ made' = made
           \/ message'.kind = "failed" /\ message'.of >= message'.serial
    <3>1. CASE OtherClient \/ \E f \in Fetch : DeviceAccepts(f)
      BY <2>0, <3>1, AcceptingKeeps
    <3>2. CASE DeviceWorks
      <4>1. Work /\ UNCHANGED <<post, poll, pageVars, history, resets>>
        BY <3>2 DEF DeviceWorks
      <4>2. made' = made /\ message' = message
        BY <4>1 DEF pageVars, history
      <4> QED
        BY <2>0, <4>1, <4>2, WorkKeeps
    <3>3. CASE Reset
      <4>1. made' = made /\ message' = message
        BY <3>3 DEF Reset, pageVars, history
      <4> QED
        BY <2>0, <3>3, <4>1, ResetKeeps
    <3>4. CASE \E f \in Fetch : Form(f) \/ DeviceRefuses(f)
      BY <2>0, <3>4, PostingKeeps
    <3>5. CASE Poll \/ StatusReadId \/ StatusReadResult \/ PollFails
      BY <2>0, <3>5, PollingKeeps
    <3>6. CASE PollReply
      BY <2>0, <3>6, ReplyKeeps
    <3>7. CASE UNCHANGED vars
      <4>1. /\ UNCHANGED <<request_counter, waiting, applying, phase, published>>
            /\ UNCHANGED <<pending, message, post, poll, made, origin, resets>>
        BY <3>7 DEF vars, serviceVars, pageVars, history
      <4>2. TypeOK'
        BY <2>0, <4>1 DEF TypeOK
      <4>3. PageInv'
        BY <2>0, <4>1 DEF PageInv, HistoryKept, IdsIssued, Issued, InOrder, StatusInOrder,
                          AnswersKnown, Answer
      <4> QED
        BY <4>1, <4>2, <4>3
    <3> QED
      BY <1>1, <3>1, <3>2, <3>3, <3>4, <3>5, <3>6, <3>7 DEF Next, Device
  <2>2. made \in Nat /\ message.serial \in Nat
    <3>1. made \in Serial /\ message.serial \in Serial
      BY <2>0 DEF TypeOK, Message
    <3>2. Serial \subseteq Nat
      BY Bounds DEF Serial
    <3> QED
      BY <3>1, <3>2
  <2>3. ReplacedIsTrue' /\ FailureNotOlder'
    BY <2>0, <2>1, <2>2 DEF ReplacedIsTrue, FailureNotOlder
  <2> QED
    BY <2>1, <2>3 DEF PageIInv
<1> QED
  BY <1>1, PageInitially, PTL DEF Spec

\* Every variable keeps its type.
THEOREM PageTypeCorrect == Spec => []TypeOK
<1>1. PageIInv => TypeOK
  BY DEF PageIInv
<1> QED
  BY <1>1, PageInvariant, PTL

\* When the page says that a newer submission replaced its own, somebody has
\* made one, also when the ids wrap and when the device has lost them
\* (requestIdNewer in the setup page).
THEOREM ReplacedIsAlwaysTrue == Spec => []ReplacedIsTrue
<1>1. PageIInv => ReplacedIsTrue
  BY DEF PageIInv
<1> QED
  BY <1>1, PageInvariant, PTL

\* When the page says that its submission failed, the failure is of that
\* submission or of one made after it (renderPendingStation, and the order in
\* which app_main stores a result and status_get reads it).
THEOREM FailureIsNotOlder == Spec => []FailureNotOlder
<1>1. PageIInv => FailureNotOlder
  BY DEF PageIInv
<1> QED
  BY <1>1, PageInvariant, PTL
=============================================================================
