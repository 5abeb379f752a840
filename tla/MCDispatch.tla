------------------------------ MODULE MCDispatch ------------------------------
(* Dispatch on a small instance. *)
EXTENDS Dispatch, TLC

CONSTANTS p1, p2, accel, hall, caster, recorder

\* Every event when alone and one in three beside the next; a FIFO of two; and a
\* period of zero.
MCRates == {[period |-> 3, delay |-> 0], [period |-> 1, delay |-> 2],
            [period |-> 0, delay |-> 0]}
MCSymmetry == Permutations({caster, recorder})
=============================================================================
