------------------------------ MODULE EventLog ------------------------------
(***************************************************************************)
(* What the firmware promises about events: the device keeps the latest    *)
(* Capacity lines in the order they were recorded, and one GET of          *)
(* /api/v1/events delivers, line by line, the log as it was at one moment, *)
(* whatever is recorded while the response is being sent.                  *)
(***************************************************************************)
EXTENDS Naturals, Sequences

CONSTANTS Line, Capacity   \* Capacity is positive

VARIABLES log,      \* the lines kept, oldest first
          serving,  \* the view the response in progress delivers
          reply     \* what the client has of the latest response

logVars == <<log, serving, reply>>

Reply(status, lines) == [status |-> status, lines |-> lines]

Init == log = <<>> /\ serving = <<>> /\ reply = Reply("none", <<>>)

Record(line) ==
  LET longer == Append(log, line)
  IN log' = IF Len(longer) > Capacity THEN Tail(longer) ELSE longer

RecordStep == \E line \in Line : Record(line) /\ UNCHANGED <<serving, reply>>

Refuse ==
  /\ reply.status # "open"
  /\ reply' = Reply("unavailable", <<>>) /\ serving' = <<>>
  /\ UNCHANGED log

Open ==
  /\ reply.status # "open"
  /\ serving' = log /\ reply' = Reply("open", <<>>)
  /\ UNCHANGED log

Deliver ==
  /\ reply.status = "open" /\ Len(reply.lines) < Len(serving)
  /\ reply' = Reply("open", Append(reply.lines, serving[Len(reply.lines) + 1]))
  /\ UNCHANGED <<log, serving>>

Complete ==
  /\ reply.status = "open" /\ reply.lines = serving
  /\ reply' = Reply("complete", serving) /\ serving' = <<>>
  /\ UNCHANGED log

\* The client went away.
Break ==
  /\ reply.status = "open"
  /\ reply' = Reply("broken", reply.lines) /\ serving' = <<>>
  /\ UNCHANGED log

Next == RecordStep \/ Refuse \/ Open \/ Deliver \/ Complete \/ Break

Spec == Init /\ [][Next]_logVars
=============================================================================
