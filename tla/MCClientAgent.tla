---------------------------- MODULE MCClientAgent ----------------------------
(* ClientAgent on a small instance. *)
EXTENDS ClientAgent

CONSTANTS accel, gyro, u1, u2, rate, o1, o2
=============================================================================
