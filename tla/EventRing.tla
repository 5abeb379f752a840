------------------------------ MODULE EventRing ------------------------------
(***************************************************************************)
(* The circular buffer between the driver's callback thread                *)
(* (SensorEventCallback::OnDataEventAsync, ReportEventCallback) and the    *)
(* service's data thread (SensorDataProcesser::ProcessEvents).  Both hold  *)
(* dataMutex_: the callback for one event at a time, the data thread for   *)
(* all the events it finds, so each is one step.                           *)
(***************************************************************************)
EXTENDS Integers, Sequences

CONSTANTS
    Events,     \* what the driver can report
    Capacity,   \* CIRCULAR_BUF_LEN
    Garbage     \* new SensorData[] is not initialised

ASSUME RingAssumption == Capacity \in Nat \ {0} /\ Garbage \notin Events

VARIABLES
    circularBuf, readPos, writePosition, eventNum,   \* CircularEventBuf
    dataReady,  \* dataReady_, what the data thread waits for
    batch       \* history: the events of the last ProcessEvents

ring == <<circularBuf, readPos, writePosition, eventNum>>
ringVars == <<circularBuf, readPos, writePosition, eventNum, dataReady, batch>>

Slots == 0 .. Capacity - 1

RingTypeOK ==
    /\ circularBuf \in [Slots -> Events \cup {Garbage}]
    /\ readPos \in Slots
    /\ writePosition \in Slots
    /\ eventNum \in 0 .. Capacity
    /\ dataReady \in BOOLEAN
    /\ batch \in Seq(Events)

RingInit ==
    /\ circularBuf = [i \in Slots |-> Garbage]
    /\ readPos = 0 /\ writePosition = 0 /\ eventNum = 0
    /\ dataReady = FALSE
    /\ batch = <<>>

\* The position, or the position a whole turn back.
Wrap(position) == IF position >= Capacity THEN position - Capacity ELSE position

\* A full buffer keeps its read position when its oldest event is overwritten.
OldestMutant(position) == readPos

\* Where to read next once an event was written and position is the next slot.
Oldest(position) == IF eventNum < Capacity THEN readPos ELSE position

ReportEventCallback(e) ==
    LET next == Wrap(writePosition + 1)
    IN  /\ circularBuf' = [circularBuf EXCEPT ![writePosition] = e]
        /\ writePosition' = next
        /\ eventNum' = IF eventNum < Capacity THEN eventNum + 1 ELSE Capacity
        /\ readPos' = Oldest(next)

\* The test for events precedes the counting.
NotifyMutant == dataReady' = (eventNum > 0)

Notify == dataReady' = TRUE

OnDataEventAsync(e) ==
    /\ ReportEventCallback(e)
    /\ Notify
    /\ UNCHANGED batch

\* The eventNum slots from readPos on, in the order EventFilter sees them.
Pending == [i \in 1 .. eventNum |-> circularBuf[Wrap(readPos + i - 1)]]

\* The data thread does not take the notification back.
ConsumeMutant == UNCHANGED dataReady

Consume == dataReady' = FALSE

ProcessEvents ==
    /\ dataReady
    /\ Consume
    /\ batch' = IF eventNum > 0 THEN Pending ELSE batch
    /\ readPos' = Wrap(readPos + eventNum)
    /\ eventNum' = 0
    /\ UNCHANGED <<circularBuf, writePosition>>

RingNext == ProcessEvents \/ \E e \in Events : OnDataEventAsync(e)

RingSpec == RingInit /\ [][RingNext]_ringVars

\* The data thread is notified under the lock and loops for ever.
FairRing == RingSpec /\ WF_ringVars(ProcessEvents)

-----------------------------------------------------------------------------
(* Properties                                                              *)

\* The positions agree with the count: the next event is written behind the
\* last pending one, and no pending slot was never written.
Consistent ==
    /\ writePosition = Wrap(readPos + eventNum)
    /\ \A i \in 1 .. eventNum : Pending[i] \in Events

\* The data thread never sleeps on pending events, and is never woken for none
\* (ProcessEvents' "Data cannot be empty").
WokenForEvents == dataReady <=> eventNum > 0

Queue == INSTANCE EventQueue WITH queue <- Pending

\* The buffer is the queue EventQueue promises: the latest Capacity events
\* since the last ProcessEvents, none twice, none out of order.
IsQueue == Queue!Spec

\* Reported events are always handed over again, whatever the callback thread
\* does between the data thread's turns.
Drained == eventNum > 0 ~> eventNum = 0
=============================================================================
