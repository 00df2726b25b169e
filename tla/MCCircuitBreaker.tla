--------------------------- MODULE MCCircuitBreaker ---------------------------
(* Instances of CircuitBreaker for TLC: backoffs in seconds, with the
   threshold, cap and multiplier of the program. *)
EXTENDS CircuitBreaker
==============================================================================
