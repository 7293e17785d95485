--------------------------- MODULE StationService ---------------------------
(***************************************************************************)
(* What the firmware promises to clients about POST /api/v1/network/sta:   *)
(* submissions are applied one at a time, a newer pending one replaces an  *)
(* older one, and the status shows the result of a submission no later     *)
(* than its request id.                                                    *)
(***************************************************************************)
EXTENDS RequestId

VARIABLES request_counter,
          waiting,    \* the pending submission, or 0
          applying,   \* the submission being applied, or 0
          phase,      \* "idle", "applying" or "publishing"
          published   \* the request id and the result a status shows

serviceVars == <<request_counter, waiting, applying, phase, published>>

NoResult == [value |-> "none", of |-> 0]
Outcomes(id) == [value : {"applied", "failed"}, of : {id}]

\* Everything submitted so far has been answered.
Answered(id) ==
  /\ request_counter = id
  /\ waiting = 0 /\ applying = 0 /\ phase = "idle"
  /\ published \in [id : {id}, result : IF id = 0 THEN {NoResult} ELSE Outcomes(id)]

ServiceInit == \E id \in Word : Answered(id)

Submit ==
  /\ request_counter' = db_request_id_next(request_counter)
  /\ waiting' = request_counter'
  /\ UNCHANGED <<applying, phase, published>>

Take ==
  /\ phase = "idle" /\ waiting # 0
  /\ phase' = "applying" /\ applying' = waiting /\ waiting' = 0
  /\ UNCHANGED <<request_counter, published>>

\* Mutant: the id is published before the result.
PublishResult_IdFirst ==
  /\ phase = "applying"
  /\ phase' = "publishing"
  /\ published' = [published EXCEPT !.id = applying]
  /\ UNCHANGED <<request_counter, waiting, applying>>

PublishResult ==
  /\ phase = "applying"
  /\ phase' = "publishing"
  /\ published' \in [id : {published.id}, result : Outcomes(applying)]
  /\ UNCHANGED <<request_counter, waiting, applying>>

PublishId ==
  /\ phase = "publishing"
  /\ phase' = "idle" /\ applying' = 0
  /\ published' = [published EXCEPT !.id = applying]
  /\ UNCHANGED <<request_counter, waiting>>

Work == Take \/ PublishResult \/ PublishId

ServiceSafety == ServiceInit /\ [][Submit \/ Work]_serviceVars

\* What is taken is applied, whatever the network does.
ServiceSpec == ServiceSafety /\ WF_serviceVars(Work)
=============================================================================
