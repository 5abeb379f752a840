--------------------------- MODULE MCServiceThreads ---------------------------
(* ServiceThreads on a small instance. *)
EXTENDS ServiceThreads, TLC

CONSTANTS p1, p2, t1, t2, t3

MCSymmetry == Permutations({p1, p2}) \cup Permutations({t1, t2, t3})
=============================================================================
