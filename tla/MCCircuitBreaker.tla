-------------------------- MODULE MCCircuitBreaker --------------------------
(* Instances of CircuitBreaker for TLC: three or four concurrent tasks. *)
EXTENDS CircuitBreaker
=============================================================================
