-------------------------- MODULE MCStationConfig ---------------------------
(* A small instance of StationConfig for TLC: one network, and two         *)
(* passwords that tell the submissions apart.                              *)
EXTENDS StationConfig

CONSTANTS home, p, q
OneNetwork == {home}
TwoPasswords == {p, q}
=============================================================================
