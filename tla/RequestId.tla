----------------------------- MODULE RequestId ------------------------------
(***************************************************************************)
(* Serial numbers of station configuration requests: db_request_id_next,   *)
(* db_request_id_is_newer and its twin requestIdNewer in the setup page.   *)
(* Modulus is 2^32 in the firmware; a C or JavaScript difference of two    *)
(* ids wraps once at most.                                                 *)
(***************************************************************************)
EXTENDS Integers

CONSTANT Modulus

ASSUME ModulusAssumption == Modulus \in Nat /\ Modulus > 4 /\ Modulus = 2 * (Modulus \div 2)

Word == 0..(Modulus - 1)
Id == 1..(Modulus - 1)   \* zero means "no completed request"
Half == Modulus \div 2

db_request_id_next(current) ==
  IF current + 1 = Modulus THEN 1 ELSE current + 1

distance(candidate, reference) ==
  IF candidate >= reference THEN candidate - reference
                            ELSE candidate - reference + Modulus

\* Mutants: a plain comparison; a bound one too large.
db_request_id_is_newer_Plain(candidate, reference) == candidate > reference
db_request_id_is_newer_Half(candidate, reference) ==
  LET d == distance(candidate, reference) IN d # 0 /\ d <= Half

db_request_id_is_newer(candidate, reference) ==
  LET d == distance(candidate, reference) IN d # 0 /\ d < Half
=============================================================================
