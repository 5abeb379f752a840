----------------------------- MODULE MCEventRing -----------------------------
(* EventRing on a small instance: the buffer wraps and overflows. *)
EXTENDS EventRing

CONSTANTS a, b, c
=============================================================================
