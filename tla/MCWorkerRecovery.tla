-------------------------- MODULE MCWorkerRecovery --------------------------
(* WorkerRecovery for TLC: three probes as in the code, and a grace period *)
(* of a few ticks.  Grace and Cooldown are the cfg's.                      *)
EXTENDS WorkerRecovery
=============================================================================
