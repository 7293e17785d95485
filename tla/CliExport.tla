----------------------------- MODULE CliExport ------------------------------
(***************************************************************************)
(* dragonbench export: the status, for the latest run, then the run, then  *)
(* the events, while the device goes on.                                   *)
(***************************************************************************)
EXTENDS Device

VARIABLES export,    \* where execute is
          run_id,
          got        \* the payload: the run, and its events by place in the log

exportVars == <<export, run_id, got>>

NoPayload == [state |-> "none", result |-> "none", events |-> <<>>]

\* Mutant: the events are fetched before the run.
After_EventsFirst == [start |-> "events", events |-> "run", run |-> "written"]
After == [start |-> "run", run |-> "events", events |-> "written"]

ExportInit ==
  /\ \/ export = "status" /\ run_id = NoRun
     \/ export = After["start"] /\ run_id \in RunId
  /\ got = NoPayload

\* A request that is not answered, or not with 200, is a ClientError.
RequestFails ==
  /\ export \in {"status", "run", "events"}
  /\ export' = "error"
  /\ UNCHANGED <<run_id, got>>

\* Mutant: a device without a run is not refused.
HasRun_Any(id) == TRUE
HasRun(id) == id # NoRun

GetStatus ==
  /\ export = "status" /\ Serving
  /\ run_id' = current.id
  /\ export' = IF HasRun(current.id) THEN After["start"] ELSE "error"
  /\ UNCHANGED got

\* run_get knows the current run only.
GetRun ==
  /\ export = "run" /\ Serving
  /\ IF current.id = run_id
     THEN /\ export' = After["run"]
          /\ got' = [got EXCEPT !.state = current.state, !.result = current.result]
     ELSE export' = "error" /\ UNCHANGED got
  /\ UNCHANGED run_id

\* The ring holds the latest lines of this boot.  Those of the run are taken to be
\* whole: lines that were cut, or emitted as {} when memory was out (both are in
\* EventRing), say nothing of the run.
GetEvents ==
  /\ export = "events" /\ Serving
  /\ export' = After["events"]
  /\ \E lost \in 0..Len(log[run_id]) :
       got' = [got EXCEPT !.events =
         IF run_id[1] = boot THEN SubSeq(log[run_id], lost + 1, Len(log[run_id])) ELSE <<>>]
  /\ UNCHANGED run_id

ExportStep ==
  /\ GetStatus \/ GetRun \/ GetEvents \/ RequestFails
  /\ UNCHANGED deviceVars
=============================================================================
