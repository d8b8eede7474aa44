----------------------------- MODULE MCDispatch -----------------------------
(* The instance of Dispatch for TLC; the cfg names the ids, channels and goroutines.  The *)
(* run has liveness properties, so no symmetry is declared.                               *)
EXTENDS Dispatch
=============================================================================
