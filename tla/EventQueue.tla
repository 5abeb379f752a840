----------------------------- MODULE EventQueue -----------------------------
(***************************************************************************)
(* What the service promises of the events between the driver's callback   *)
(* and its data thread: a queue that forgets the oldest event when it is   *)
(* full, and is handed over whole, in order, each event once.              *)
(***************************************************************************)
EXTENDS Integers, Sequences

CONSTANTS
    Events,
    Capacity   \* CIRCULAR_BUF_LEN

VARIABLES
    queue,     \* events reported and not processed yet
    batch      \* the events the data thread processed last

vars == <<queue, batch>>

Init == queue = <<>> /\ batch = <<>>

Report(e) ==
    /\ queue' = IF Len(queue) < Capacity THEN Append(queue, e)
                ELSE Append(Tail(queue), e)
    /\ UNCHANGED batch

Process ==
    /\ queue # <<>>
    /\ batch' = queue
    /\ queue' = <<>>

Next == Process \/ \E e \in Events : Report(e)

Spec == Init /\ [][Next]_vars

FairSpec == Spec /\ WF_vars(Process)
=============================================================================
