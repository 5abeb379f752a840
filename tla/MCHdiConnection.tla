--------------------------- MODULE MCHdiConnection ---------------------------
(* HdiConnection on small instances. *)
EXTENDS HdiConnection

CONSTANTS accel, gyro, fast, slow, o1, o2
=============================================================================
