------------------------------ MODULE MCBench -------------------------------
(* A small instance of Bench for TLC. *)
EXTENDS Bench

Endpoints == {"status", "sensors"}
=============================================================================
