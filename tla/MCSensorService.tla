--------------------------- MODULE MCSensorService ---------------------------
(* Two processes and two sensors: accel was there when the service started, *)
(* gyro was plugged in later.                                              *)
EXTENDS SensorService, TLC

CONSTANTS p1, p2, accel, gyro

\* Time in units of 10 ms.  Of accel, the first has its period raised to MinPeriod
\* and its delay cut to FifoMax periods; the other three are refused: no period, an
\* overflow, too long a delay for its period.  Of gyro, only the last is refused,
\* and the others are stored as they are.
MCRequests == {[period |-> 1, delay |-> 3], [period |-> 0, delay |-> 0],
               [period |-> 5, delay |-> 2], [period |-> 2, delay |-> 9]}
MCMinPeriod == (accel :> 2) @@ (gyro :> 5)
MCFifoMax == (accel :> 2) @@ (gyro :> 0)
MCSymmetry == Permutations({p1, p2})
=============================================================================
