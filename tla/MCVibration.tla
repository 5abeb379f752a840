---------------------------- MODULE MCVibration ----------------------------
(* Recordings of eight samples of three amplitudes, and of eleven that are *)
(* quiet at both ends and whose peaks and valleys alternate, with the      *)
(* samples between them that the conversion does not take.                 *)
EXTENDS VibrationConvert

Spread(d) ==
    [p \in 1 .. 2 * Len(d) - (Len(d) % 2) |->
       IF p % 4 \in {1, 2} THEN d[2 * (p \div 4) + (p % 4)] ELSE 0]

MCRecordings ==
    {Spread(d) : d \in [1 .. 8 -> {0, 9, 12}]
                  \cup {d \in [1 .. 11 -> {0, 1, 9, 10, 12}] :
                          /\ d[1] = 0 /\ d[11] = 0
                          /\ \A p \in 1 .. 11 :
                               d[p] \in IF p % 2 = 1 THEN {0, 9} ELSE {1, 10, 12}}}
=============================================================================
