----------------------------- MODULE MCEventRing ----------------------------
(* Small instances of EventRing for TLC: a ring of two slots wraps often.  *)
EXTENDS EventRing

CONSTANTS app_main, worker
OneEmitter == {worker}
TwoEmitters == {app_main, worker}
=============================================================================
