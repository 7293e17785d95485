----------------------------- MODULE MCSetupPage ----------------------------
(* Small instances of SetupPage for TLC. *)
EXTENDS SetupPage

CONSTANTS f1, f2
OneFetch == {f1}
TwoFetches == {f1, f2}
=============================================================================
