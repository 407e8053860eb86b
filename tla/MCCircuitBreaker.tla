------------------------- MODULE MCCircuitBreaker --------------------------
(***************************************************************************)
(* Three callers, a breaker that trips on two failures in a row and admits *)
(* one probe after two ticks: a call can outlast a trip and a recovery     *)
(* while another is the probe and a third is refused.                      *)
(***************************************************************************)
EXTENDS CircuitBreaker

CONSTANTS c1, c2, c3
=============================================================================
