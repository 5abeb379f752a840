------------------------------- MODULE Dispatch -------------------------------
(***************************************************************************)
(* The data thread of the service: SensorDataProcesser takes one event     *)
(* after the other from the circular buffer, looks up the channels of its  *)
(* subscribers, and for each of them thins the events to the rate it asked *)
(* for, collects them in a FIFO, or sends them; what cannot be sent is     *)
(* cached in the channel.  Meanwhile binder threads change the             *)
(* subscriptions, replace and destroy channels, and block data             *)
(* (BlockPolicy).                                                          *)
(*                                                                         *)
(* A delivery to one channel is two steps: the filters and the first of    *)
(* the two computations of ComputeBestPeriodCount, then everything else.   *)
(* A channel that has been replaced since it was looked up is delivered to *)
(* as well, but nobody reads it any more: it is left out of the rest.      *)
(*                                                                         *)
(* ReportOnChangeData is no action: the flags it tests are those of the    *)
(* service's own sensorMap_, which nothing sets (SetFlags is called for    *)
(* the data processer's copy only), so it never sends anything.            *)
(***************************************************************************)
EXTENDS BlockPolicy, Integers, Sequences, FiniteSetsExt, SequencesExt

CONSTANTS
    Pids,        \* subscribing processes
    Continuous,  \* sensors whose events come in a continuous mode
    OnChange,    \* sensors whose events say SENSOR_ON_CHANGE
    Rates,       \* the [period, delay] pairs a process may be subscribed with
    NoLimit,     \* LLONG_MAX
    NoInfo,      \* "this process has no entry", and "nobody"
    MaxEvents,   \* bound: events of the driver
    MaxErrors,   \* bound: failed sends
    MaxCalls     \* bound: calls of the processes, and deaths

\* Neither is negative.  A period of zero is stored for a sensor that was plugged
\* in after the service had started (SensorManager::GetSensorInfo).
ASSUME RatesAssumption ==
    /\ Rates \subseteq [period : Nat, delay : Nat]
    /\ NoLimit \in Nat \ {0}

Sensors == Continuous \cup OnChange

VARIABLES
    subs,      \* subs[s][p]: clientMap_[s][p]
    channels,  \* the keys of channelMap_
    slot,      \* slot[p][s]: what the channel of p keeps of sensor s
    event,     \* the event being distributed
    todo,      \* the processes whose channel is still to be given the event
    cur,       \* the process whose channel is being given the event
    best,      \* the shortest period, as ComputeBestPeriodCount read it
    last,      \* the number of the last event of each sensor
    wanted,    \* history: does anyone want cur's data of this sensor blocked
    errors, calls

dataVars == <<subs, channels, slot, event, todo, cur, best, last, wanted, errors, calls>>

vars == <<dataVars, blockVars>>

\* The entry of the channel in dataCountMap_[s] and in its dataCacheBuf_.
EmptySlot ==
    [made |-> FALSE,   \* is there a FifoCacheData for the channel
     count |-> 0,      \* its periodCount_
     fifo |-> <<>>,    \* its fifoCacheData_
     cache |-> 0,      \* the event in dataCacheBuf_, 0 when there is none
     got |-> <<>>,     \* history: what was sent
     offered |-> 0,    \* history: the last event not filtered or thinned out
     skipped |-> 0,    \* history: events thinned out since, at one rate
     pc |-> 1,         \* history: that rate
     fc |-> 0,         \* history: the FIFO's length when it was last used
     resized |-> FALSE] \* history: was that length ever changed

Events == 0 .. MaxEvents

Slot == [made : BOOLEAN, count : Events, fifo : Seq(Events), cache : Events,
         got : Seq(Events), offered : Events, skipped : Events,
         pc : 0 .. NoLimit, fc : 0 .. NoLimit, resized : BOOLEAN]

-----------------------------------------------------------------------------
(* The rates: ClientInfo                                                   *)

Subscribers(s) == {p \in Pids : subs[s][p] # NoInfo}

BestPeriod(s) == Min({NoLimit} \cup {subs[s][p].period : p \in Subscribers(s)})

GetCurPidSensorInfo(s, p) ==
    IF p \in Subscribers(s) THEN subs[s][p] ELSE [period |-> NoLimit, delay |-> NoLimit]

\* 0 when p asked for a shorter period since best was read, and whenever anyone
\* is subscribed with a period of zero.
ComputeBestPeriodCount(s, p) ==
    IF best = 0 THEN 0 ELSE GetCurPidSensorInfo(s, p).period \div best

ComputeBestFifoCount(s, p) ==
    LET info == GetCurPidSensorInfo(s, p)
    IN  IF info.period = 0 THEN 0 ELSE info.delay \div info.period

-----------------------------------------------------------------------------
(* SensorDataProcesser: operators on the slot of one channel and sensor    *)

\* The first of the events is kept instead of the last.
SendRawDataMutant(sl, events, ok) ==
    IF ok THEN [sl EXCEPT !.got = @ \o events, !.offered = Last(events)]
    ELSE [sl EXCEPT !.cache = IF @ = 0 THEN 0 ELSE Head(events), !.offered = Last(events)]

\* A packet is sent or not as a whole (SOCK_SEQPACKET).
SendRawData(sl, events, ok) ==
    IF ok THEN [sl EXCEPT !.got = @ \o events, !.offered = Last(events)]
    ELSE [sl EXCEPT !.cache = Last(events), !.offered = Last(events)]

\* The new event goes out before the cached one.
CacheSensorEventMutant(sl, e, oks) ==
    LET new   == IF oks[2] THEN [sl EXCEPT !.got = @ \o <<e>>] ELSE sl
        again == IF sl.cache # 0 /\ oks[1] THEN [new EXCEPT !.got = @ \o <<sl.cache>>] ELSE new
    IN  [again EXCEPT !.cache = IF oks[2] THEN 0 ELSE e, !.offered = e]

\* The cached event gets one more chance, then it is the new one's turn.
CacheSensorEvent(sl, e, oks) ==
    LET again == IF sl.cache # 0 /\ oks[1] THEN [sl EXCEPT !.got = @ \o <<sl.cache>>] ELSE sl
        new   == IF oks[2] THEN [again EXCEPT !.got = @ \o <<e>>] ELSE again
    IN  [new EXCEPT !.cache = IF oks[2] THEN 0 ELSE e, !.offered = e]

Thinned(sl, pc) ==
    [sl EXCEPT !.count = @ + 1, !.pc = pc,
               !.skipped = IF pc = sl.pc THEN @ + 1 ELSE 1]

Due(sl, pc) == (sl.count + 1) % pc = 0

\* The count starts again with every event that is thinned out.
SendNoneFifoCacheDataMutant(sl, e, pc, ok) ==
    IF sl.made /\ ~Due(sl, pc) THEN [Thinned(sl, pc) EXCEPT !.count = 0]
    ELSE SendRawData([sl EXCEPT !.made = TRUE, !.count = 0, !.pc = pc, !.skipped = 0],
                     <<e>>, ok)

SendNoneFifoCacheData(sl, e, pc, ok) ==
    IF sl.made /\ ~Due(sl, pc) THEN Thinned(sl, pc)
    ELSE SendRawData([sl EXCEPT !.made = TRUE, !.count = 0, !.pc = pc, !.skipped = 0],
                     <<e>>, ok)

\* The FIFO is sent one event too late.
SendFifoCacheDataMutant(sl, e, pc, fc, ok) ==
    LET used == [sl EXCEPT !.pc = pc, !.skipped = 0, !.fc = fc, !.resized = @ \/ sl.fc \notin {0, fc}]
        kept == [used EXCEPT !.count = 0, !.fifo = Append(@, e)]
    IN  IF ~sl.made THEN [used EXCEPT !.made = TRUE]
        ELSE IF ~Due(sl, pc) THEN [used EXCEPT !.count = @ + 1]
        ELSE IF Len(sl.fifo) # fc THEN kept
        ELSE [SendRawData(kept, kept.fifo, ok) EXCEPT !.fifo = <<>>]

\* The event that finds no FIFO is lost.
SendFifoCacheData(sl, e, pc, fc, ok) ==
    LET used == [sl EXCEPT !.pc = pc, !.skipped = 0, !.fc = fc, !.resized = @ \/ sl.fc \notin {0, fc}]
        kept == [used EXCEPT !.count = 0, !.fifo = Append(@, e)]
    IN  IF ~sl.made THEN [used EXCEPT !.made = TRUE]
        ELSE IF ~Due(sl, pc) THEN [used EXCEPT !.count = @ + 1]
        ELSE IF Len(kept.fifo) # fc THEN kept
        ELSE [SendRawData(kept, kept.fifo, ok) EXCEPT !.fifo = <<>>]

HasCached(p) == \E s \in Sensors : slot[p][s].cache # 0

\* "periodCount is zero": the rate changed while it was computed, or somebody
\* asked for a period of zero, and then that is the rate of everybody.
Dropped(sl, s) ==
    IF best = BestPeriod(s) THEN [sl EXCEPT !.skipped = @ + 1, !.pc = IF best = 0 THEN 0 ELSE @]
    ELSE [sl EXCEPT !.skipped = 0]

\* SendEvents and ReportData.
SendEvents(p, s, e, oks) ==
    LET sl == slot[p][s]
        pc == ComputeBestPeriodCount(s, p)
        fc == ComputeBestFifoCount(s, p)
    IN  CASE HasCached(p)                 -> CacheSensorEvent(sl, e, oks)
          [] ~HasCached(p) /\ s \in OnChange -> SendRawData(sl, <<e>>, oks[2])
          [] OTHER -> IF pc = 0 THEN Dropped(sl, s)
                      ELSE IF fc <= 1 THEN SendNoneFifoCacheData(sl, e, pc, oks[2])
                      ELSE SendFifoCacheData(sl, e, pc, fc, oks[2])

-----------------------------------------------------------------------------
(* The data thread                                                         *)

Init ==
    /\ subs = [s \in Sensors |-> [p \in Pids |-> NoInfo]]
    /\ channels = {}
    /\ slot = [p \in Pids |-> [s \in Sensors |-> EmptySlot]]
    /\ event \in Sensors
    /\ last = [s \in Sensors |-> 0]
    /\ todo = {} /\ cur = NoInfo /\ best = NoLimit /\ wanted = FALSE
    /\ errors = 0 /\ calls = 0
    /\ BlockInit

\* EventFilter of the next event: GetSensorChannel.
Take(s) ==
    /\ todo = {} /\ cur = NoInfo
    /\ SumFunction(last) < MaxEvents
    /\ event' = s
    /\ last' = [last EXCEPT ![s] = @ + 1]
    /\ todo' = Subscribers(s) \cap channels
    /\ UNCHANGED <<subs, channels, slot, cur, best, wanted, errors, calls, blockVars>>

\* SensorShakeControlManager, SensorDataBlockPolicy or a permission that was
\* taken away keep the event from p.
Withhold(p) ==
    /\ p \in todo /\ cur = NoInfo
    /\ todo' = todo \ {p}
    /\ UNCHANGED <<subs, channels, slot, event, cur, best, last, wanted, errors, calls,
                   blockVars>>

\* p passes the filters, and ComputeBestPeriodCount reads the best period.
Check(p) ==
    /\ p \in todo /\ cur = NoInfo
    /\ ~IsSensorDataBlocked(p, event)
    /\ cur' = p
    /\ todo' = todo \ {p}
    /\ best' = BestPeriod(event)
    /\ wanted' = (p \in Targets /\ \E c \in Clients : event \in asked[p][c])
    /\ UNCHANGED <<subs, channels, slot, event, last, errors, calls, blockVars>>

\* oks: whether sending the cached event, and sending what there is, works.
Deliver(oks) ==
    /\ cur # NoInfo
    /\ errors' = errors + Cardinality({i \in 1 .. 2 : ~oks[i]})
    /\ errors' <= MaxErrors
    /\ slot' = [slot EXCEPT ![cur][event] = SendEvents(cur, event, last[event], oks)]
    /\ cur' = NoInfo
    /\ UNCHANGED <<subs, channels, event, todo, best, last, wanted, calls, blockVars>>

-----------------------------------------------------------------------------
(* The calls of the subscribing processes, on binder threads               *)

\* EnableSensor, or ResumeSensors: SaveSubscriber.
SaveSubscriber(p, s, r) ==
    /\ subs' = [subs EXCEPT ![s][p] = r]
    /\ UNCHANGED <<channels, slot, todo, cur>>

\* DisableSensor, or SuspendSensors.
RemoveSubscriber(p, s) ==
    /\ subs[s][p] # NoInfo
    /\ subs' = [subs EXCEPT ![s][p] = NoInfo]
    /\ UNCHANGED <<channels, slot, todo, cur>>

\* The former channel of p, if any, is no longer found.
ForgetChannel(p) ==
    /\ slot' = [slot EXCEPT ![p] = [s \in Sensors |-> EmptySlot]]
    /\ todo' = todo \ {p}
    /\ cur' = IF cur = p THEN NoInfo ELSE cur

TransferDataChannel(p) ==
    /\ channels' = channels \cup {p}
    /\ ForgetChannel(p)
    /\ UNCHANGED subs

DestroySensorChannel(p) ==
    /\ p \in channels
    /\ channels' = channels \ {p}
    /\ subs' = [s \in Sensors |-> [subs[s] EXCEPT ![p] = NoInfo]]
    /\ ForgetChannel(p)

Call(p) ==
    /\ \/ \E s \in Sensors, r \in Rates : SaveSubscriber(p, s, r)
       \/ \E s \in Sensors : RemoveSubscriber(p, s)
       \/ TransferDataChannel(p)
       \/ DestroySensorChannel(p)
    /\ UNCHANGED <<event, best, last, wanted, errors, blockVars>>

\* The calls and the deaths of the clients that block data.
Block ==
    BlockNext /\ UNCHANGED <<subs, channels, slot, event, todo, cur, best, last, wanted, errors>>

Next ==
    \/ \E s \in Sensors : Take(s)
    \/ \E p \in Pids : Withhold(p) \/ Check(p)
    \/ \E oks \in [1 .. 2 -> BOOLEAN] : Deliver(oks)
    \/ /\ calls < MaxCalls /\ calls' = calls + 1
       /\ (\E p \in Pids : Call(p)) \/ Block

Spec == Init /\ [][Next]_vars

-----------------------------------------------------------------------------
(* Properties                                                              *)

\* What every variable holds; whoever is given an event has a channel.
TypeOK ==
    /\ subs \in [Sensors -> [Pids -> Rates \cup {NoInfo}]]
    /\ slot \in [Pids -> [Sensors -> Slot]]
    /\ event \in Sensors
    /\ todo \cup ({cur} \ {NoInfo}) \subseteq channels
    /\ channels \subseteq Pids
    /\ best \in 0 .. NoLimit
    /\ last \in [Sensors -> Events]
    /\ wanted \in BOOLEAN
    /\ BlockTypeOK

\* A channel gets the events of a sensor in the order of the driver and none
\* of them twice, whatever fails and is cached, sent again, or replaced on the
\* way (SendRawData, CacheSensorEvent); unless a FIFO was used, which other
\* reports overtake.
InOrder ==
    \A p \in Pids, s \in Sensors :
        LET sl == slot[p][s]
        IN  sl.fc = 0 => \A i, j \in 1 .. Len(sl.got) : i < j => sl.got[i] < sl.got[j]

\* The newest event that was to be sent was sent, after all others, or it
\* waits in the cache of the channel: a failed send costs older events only.
NewestKept ==
    \A p \in Pids, s \in Sensors :
        LET sl == slot[p][s]
        IN  sl.offered # 0 => sl.offered \in {sl.cache, Last(<<0>> \o sl.got)}

\* A process that asked for one event in pc is never passed over pc times in a
\* row, whatever was sent, cached or thinned out at other rates before
\* (SendNoneFifoCacheData), counted from the last change of a rate; but as long as
\* anyone is subscribed to the sensor with a period of zero (pc is 0 then), every
\* event of it is dropped, everybody's (ComputeBestPeriodCount, ReportData).
NotPassedOver ==
    \A p \in Pids, s \in Sensors :
        LET sl == slot[p][s] IN sl.pc # 0 => sl.skipped < sl.pc

\* The FIFO of a channel never holds as many events as it is sent with, unless
\* that number was changed since (SendFifoCacheData compares it with !=).
FifoBounded ==
    \A p \in Pids, s \in Sensors :
        LET sl == slot[p][s] IN sl.fc # 0 /\ ~sl.resized => Len(sl.fifo) < sl.fc

\* Nothing is sent to a process when, as the filters looked at it, a living
\* client wanted the data of this sensor blocked (IsBlockSensorData); neither
\* directly nor from the cache nor from the FIFO.
BlockedUnsent ==
    [][\A p \in Pids, s \in Sensors :
         slot'[p][s].got # slot[p][s].got /\ slot'[p][s].got # <<>> => ~wanted]_vars
=============================================================================
