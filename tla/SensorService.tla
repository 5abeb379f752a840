---------------------------- MODULE SensorService ----------------------------
(***************************************************************************)
(* The subscription core of the sensor service: ClientInfo's clientMap_    *)
(* and channelMap_, SensorManager's choice of the rate the driver runs at, *)
(* SensorPowerPolicy's pidSensorInfoMap_ of suspended processes, and the   *)
(* driver behind SensorHdiConnection, as SensorService's IPC handlers and  *)
(* its death observer change them.  Every handler is one step here.        *)
(*                                                                         *)
(* What concerns one sensor is kept together (its "slice"): a handler is   *)
(* an operator on one slice, and a handler that loops over sensors applies *)
(* that operator to each of them.  Operators named ...Mutant are the wrong *)
(* versions of the definition that follows them; nothing uses them.        *)
(***************************************************************************)
EXTENDS Integers, FiniteSets, FiniteSetsExt

CONSTANTS
    Pids,           \* client processes
    Sensors,        \* the sensor descriptions of SensorService's sensorMap_
    Known,          \* those of SensorManager's, filled once, when the service starts
    Requests,       \* the [period, delay] pairs clients ask for
    MinPeriod,      \* Sensor::GetMinSamplePeriodNs of each sensor
    FifoMax,        \* Sensor::GetFifoMaxEventCount of each sensor
    Pedometers,     \* the sensors CheckFreezingSensor exempts
    MaxChannels,    \* MAX_SUPPORT_CHANNEL
    MaxEventCount,  \* MAX_EVENT_COUNT
    NoLimit,        \* INT64_MAX (and LLONG_MAX)
    NoInfo          \* "this process has no entry"

Info == [period : 0 .. NoLimit, delay : 0 .. NoLimit]   \* SensorBasicInfo

\* SensorAgentProxy::SetBatch refuses negative values; zero gets through.
ASSUME RequestsAssumption == Requests \subseteq Info

ASSUME SensorsAssumption ==
    /\ MinPeriod \in [Sensors -> 0 .. NoLimit]
    /\ FifoMax \in [Sensors -> Nat]
    /\ Pedometers \subseteq Sensors /\ Known \subseteq Sensors

ASSUME LimitsAssumption ==
    NoLimit \in Nat /\ MaxEventCount \in Nat /\ MaxChannels \in Nat

ASSUME NoInfoAssumption == NoInfo \notin Info

VARIABLES
    reg,       \* reg[s]: clientMap_[s], and what the driver of s was last told
    saved,     \* saved[p][s]: pidSensorInfoMap_[p][s]
    frozen,    \* the keys of pidSensorInfoMap_
    channels,  \* the keys of channelMap_, appThreadInfoMap_ and clientPidMap_
    held       \* history: the sensors a process asked for and did not give up

vars == <<reg, saved, frozen, channels, held>>

Slice == [subs   : [Pids -> Info \cup {NoInfo}],  \* clientMap_[s]
          on     : BOOLEAN,                       \* the driver was enabled
          period : 0 .. NoLimit,                  \* its last SetBatch
          delay  : 0 .. NoLimit,
          fault  : BOOLEAN]  \* history: why it may be on with no subscriber

\* What the driver answers: done, HDI_DISABLE_SENSOR_TIMEOUT (which
\* SensorHdiConnection reports as done, though the sensor is on), or an error.
Answers == {"ok", "late", "fail"}

\* Which driver call of a subscription fails, if any.
Failures == {"none", "SetBatch", "Enable"}

-----------------------------------------------------------------------------
(* ClientInfo and SensorManager: operators on one slice                    *)

Subscribers(st) == {p \in Pids : st.subs[p] # NoInfo}

UpdateSensorInfo(st, p, info) == [st EXCEPT !.subs[p] = info]

RemoveSubscriber(st, p) == [st EXCEPT !.subs[p] = NoInfo]

ClearSensorInfo(st) == [st EXCEPT !.subs = [q \in Pids |-> NoInfo]]

\* The slowest rate instead of the fastest.
BestMutant(st) ==
    [period |-> Max({0} \cup {st.subs[p].period : p \in Subscribers(st)}),
     delay  |-> Max({0} \cup {st.subs[p].delay : p \in Subscribers(st)})]

GetBestSensorInfo(st) ==
    [period |-> Min({NoLimit} \cup {st.subs[p].period : p \in Subscribers(st)}),
     delay  |-> Min({NoLimit} \cup {st.subs[p].delay : p \in Subscribers(st)})]

SetBatch(st, info) == [st EXCEPT !.period = info.period, !.delay = info.delay]

\* SetBestSensorParams makes no call when p asked for less than the best in
\* both respects.
NeedsBatch(st, p) ==
    LET best == GetBestSensorInfo(st)
    IN  ~(st.subs[p].period > best.period /\ st.subs[p].delay > best.delay)

\* A process that subscribed may turn the sensor off for everybody.
OnlyCurPidMutant(st, p) == p \in Subscribers(st)

OnlyCurPidSensorEnabled(st, p) == Subscribers(st) = {p}

\* The rest of IsOtherClientUsingSensor once p is known not to be alone (it
\* may be no subscriber at all); a failed SetBatch is only logged.
Leave(st, p, batched) ==
    LET left == RemoveSubscriber(st, p)
    IN  IF batched THEN SetBatch(left, GetBestSensorInfo(left)) ELSE left

\* SensorHdiConnection::DisableSensor.
StopDriver(st, answer) ==
    [st EXCEPT !.on = @ /\ answer # "ok", !.fault = answer # "ok"]

-----------------------------------------------------------------------------
(* The checks of a request, and what is stored for it                      *)

\* What CheckAuthAndParameter and GetSensorInfo refuse leaves no trace.
Accepts(s, r) ==
    /\ r.period # 0 => r.delay \div r.period <= MaxEventCount
    /\ s \in Known => r.period # 0 /\ FifoMax[s] <= NoLimit \div r.period

\* Resume refuses a period of zero as well.
CanResume(s, r) == r.period # 0 /\ Accepts(s, r)

\* The delay is compared the wrong way round.
RoundedMutant(s, r) ==
    [period |-> Max({r.period, MinPeriod[s]}),
     delay  |-> Max({r.delay, r.period * FifoMax[s]})]

Rounded(s, r) ==
    [period |-> Max({r.period, MinPeriod[s]}),
     delay  |-> Min({r.delay, r.period * FifoMax[s]})]

\* What is asked of a sensor that was plugged in later is stored as it is.
SensorInfo(s, r) == IF s \in Known THEN Rounded(s, r) ELSE r

-----------------------------------------------------------------------------
(* The handlers on one slice                                               *)

\* SaveSubscriber, SetBestSensorParams and, for the first subscriber, the
\* driver's Enable.
Subscribed(st, p, info, failing) ==
    /\ failing = "SetBatch" => ~NeedsBatch(UpdateSensorInfo(st, p, info), p)
    /\ failing = "Enable" => Subscribers(st) # {}

Subscribe(st, p, info, failing) ==
    LET asked == UpdateSensorInfo(st, p, info)
        set   == IF NeedsBatch(asked, p) /\ failing # "SetBatch"
                 THEN SetBatch(asked, GetBestSensorInfo(asked)) ELSE asked
    IN  IF Subscribed(st, p, info, failing)
        THEN [set EXCEPT !.on = @ \/ Subscribers(st) = {}, !.fault = FALSE]
        ELSE [RemoveSubscriber(set, p) EXCEPT
                !.fault = @ \/ Subscribers(st) \subseteq {p}]

Disabled(st, p, answer) == OnlyCurPidSensorEnabled(st, p) => answer # "fail"

\* The last subscriber leaves the way every other one does.
DisableMutant(st, p, answer) == Leave(st, p, answer = "ok")

Disable(st, p, answer) ==
    IF ~OnlyCurPidSensorEnabled(st, p) THEN Leave(st, p, answer = "ok")
    ELSE IF answer = "fail" THEN StopDriver(st, answer)
    ELSE ClearSensorInfo(StopDriver(st, answer))

\* Suspend goes on after an error of the driver.
Suspend(st, p, answer) ==
    IF ~OnlyCurPidSensorEnabled(st, p) THEN Leave(st, p, answer = "ok")
    ELSE ClearSensorInfo(StopDriver(st, answer))

\* ClientInfo::DestroySensorChannel: the driver is not told.
Drop(st, p) ==
    [RemoveSubscriber(st, p) EXCEPT !.fault = @ \/ OnlyCurPidSensorEnabled(st, p)]

-----------------------------------------------------------------------------
(* SensorPowerPolicy: operators on saved and frozen                        *)

NothingSaved == [s \in Sensors |-> NoInfo]

\* A disabled sensor stays in the list of sensors to resume.
DeleteDisableMutant(p, s) == saved

DeleteDisablePidSensorInfo(p, s) == [saved EXCEPT ![p][s] = NoInfo]

ActiveSensors(p) == {s \in Sensors : reg[s].subs[p] # NoInfo}

\* Suspend looks at every sensor of the process but the pedometers.
Suspended(p) == ActiveSensors(p) \ Pedometers

-----------------------------------------------------------------------------
Init ==
    /\ reg = [s \in Sensors |->
                [subs |-> [p \in Pids |-> NoInfo], on |-> FALSE,
                 period |-> NoLimit, delay |-> NoLimit, fault |-> FALSE]]
    /\ saved = [p \in Pids |-> NothingSaved]
    /\ frozen = {}
    /\ channels = {}
    /\ held = [p \in Pids |-> {}]

\* One channel too many.
HasRoomMutant(p) == p \in channels \/ Cardinality(channels) <= MaxChannels

HasRoom(p) == p \in channels \/ Cardinality(channels) # MaxChannels

TransferDataChannel(p) ==
    /\ HasRoom(p)
    /\ channels' = channels \cup {p}
    /\ UNCHANGED <<reg, saved, frozen, held>>

EnableSensor(p, s, r, failing) ==
    /\ Accepts(s, r)
    /\ reg' = [reg EXCEPT ![s] = Subscribe(@, p, SensorInfo(s, r), failing)]
    /\ held' = [held EXCEPT ![p] = @ \cup {s}]
    /\ UNCHANGED <<saved, frozen, channels>>

DisableSensor(p, s, answer) ==
    /\ saved' = DeleteDisablePidSensorInfo(p, s)
    /\ frozen' = IF saved'[p] = NothingSaved THEN frozen \ {p} ELSE frozen
    /\ reg' = [reg EXCEPT ![s] = Disable(@, p, answer)]
    /\ held' = IF Disabled(reg[s], p, answer)
               THEN [held EXCEPT ![p] = @ \ {s}] ELSE held
    /\ UNCHANGED channels

DestroySensorChannel(p) ==
    /\ reg' = [s \in Sensors |-> Drop(reg[s], p)]
    /\ channels' = channels \ {p}
    /\ UNCHANGED <<saved, frozen, held>>

\* The binder notices the death of a process it watches for the service.
ProcessDeathObserver(p, answer) ==
    /\ p \in channels
    /\ saved' = [saved EXCEPT ![p] = NothingSaved]
    /\ frozen' = frozen \ {p}
    /\ reg' = [s \in Sensors |->
                 IF s \in ActiveSensors(p) THEN Drop(Disable(reg[s], p, answer[s]), p)
                 ELSE reg[s]]
    /\ channels' = channels \ {p}
    /\ held' = [held EXCEPT ![p] = {}]

\* A process that is frozen already: its entry is copied, and what this call
\* adds to the copy is lost.
SuspendSensors(p, answer) ==
    /\ ActiveSensors(p) # {}
    /\ reg' = [s \in Sensors |->
                 IF s \in Suspended(p) THEN Suspend(reg[s], p, answer[s]) ELSE reg[s]]
    /\ saved' = IF p \in frozen THEN saved
                ELSE [saved EXCEPT ![p] =
                        [s \in Sensors |->
                           IF s \in Suspended(p) THEN reg[s].subs[p] ELSE NoInfo]]
    /\ frozen' = frozen \cup {p}
    /\ UNCHANGED <<channels, held>>

\* Resume's own check comes before GetSensorInfo's.
Resumed(p, s, failing) ==
    /\ CanResume(s, saved[p][s])
    /\ Subscribed(reg[s], p, SensorInfo(s, saved[p][s]), failing)

SavedSensors(p) == {s \in Sensors : saved[p][s] # NoInfo}

\* The entry goes with the first sensor that is back.
ResumeDoneMutant(p, failing) ==
    \E s \in SavedSensors(p) : Resumed(p, s, failing[s])

ResumeDone(p, failing) ==
    \A s \in SavedSensors(p) : Resumed(p, s, failing[s])

\* The entry goes when every sensor is back; until then all of it stays.
ResumeSensors(p, failing) ==
    /\ p \in frozen
    /\ reg' = [s \in Sensors |->
                 IF s \in SavedSensors(p) /\ CanResume(s, saved[p][s])
                 THEN Subscribe(reg[s], p, SensorInfo(s, saved[p][s]), failing[s])
                 ELSE reg[s]]
    /\ IF ResumeDone(p, failing)
       THEN /\ saved' = [saved EXCEPT ![p] = NothingSaved]
            /\ frozen' = frozen \ {p}
       ELSE UNCHANGED <<saved, frozen>>
    /\ UNCHANGED <<channels, held>>

Next ==
    \E p \in Pids :
        \/ TransferDataChannel(p)
        \/ \E s \in Sensors, r \in Requests, failing \in Failures :
              EnableSensor(p, s, r, failing)
        \/ \E s \in Sensors, answer \in Answers : DisableSensor(p, s, answer)
        \/ DestroySensorChannel(p)
        \/ \E answer \in [Sensors -> Answers] : ProcessDeathObserver(p, answer)
        \/ \E answer \in [Sensors -> Answers] : SuspendSensors(p, answer)
        \/ \E failing \in [Sensors -> Failures] : ResumeSensors(p, failing)

Spec == Init /\ [][Next]_vars

-----------------------------------------------------------------------------
(* Properties                                                              *)

\* Every map holds what its declaration says, no more than MAX_SUPPORT_CHANNEL
\* processes have a channel, and only a frozen process has saved sensors.
TypeOK ==
    /\ reg \in [Sensors -> Slice]
    /\ saved \in [Pids -> [Sensors -> Info \cup {NoInfo}]]
    /\ frozen \subseteq Pids
    /\ channels \subseteq Pids
    /\ IsFiniteSet(channels) /\ Cardinality(channels) <= MaxChannels
    /\ held \in [Pids -> SUBSET Sensors]
    /\ \A p \in Pids \ frozen : saved[p] = NothingSaved

\* Whatever other clients ask for, give up, lose or fail at, a subscribed
\* process has a sensor that is on and sampled and reported at least as often
\* as it asked (SetBestSensorParams and ResetBestSensorParams).
ServedBy(st) ==
    \A p \in Subscribers(st) :
        st.on /\ st.period <= st.subs[p].period /\ st.delay <= st.subs[p].delay

Served == \A s \in Sensors : ServedBy(reg[s])

\* A sensor without subscribers is off, unless the driver failed a call of its
\* last subscriber or that subscriber's channel was destroyed under it
\* (DisableSensor, Suspend, ProcessDeathObserver).
IdleOff(st) == Subscribers(st) = {} /\ st.on => st.fault

OffWhenIdle == \A s \in Sensors : IdleOff(reg[s])

\* No process is subscribed to, nor will be resumed to, a sensor it has given
\* up, or that it never asked for: DisableSensor reaches the saved entries of
\* a suspended process too (DeleteDisablePidSensorInfo).
StillAsked ==
    \A p \in Pids, s \in Sensors :
        reg[s].subs[p] # NoInfo \/ saved[p][s] # NoInfo => s \in held[p]

\* What was saved can be put back: Resume's checks pass and the second
\* GetSensorInfo changes neither the period nor the delay.  Only a period of zero,
\* which only a sensor plugged in later can have, is never put back.
Resumable ==
    \A p \in Pids, s \in Sensors :
        LET r == saved[p][s]
        IN  r # NoInfo => /\ CanResume(s, r) \/ (r.period = 0 /\ s \notin Known)
                          /\ SensorInfo(s, r) = r

\* A step concerns the subscriptions of one process: nobody's request,
\* suspension or death subscribes or unsubscribes anybody else.
OneProcess ==
    [][\A p, q \in Pids, s, t \in Sensors :
         /\ (reg[s].subs[p] = NoInfo) # (reg'[s].subs[p] = NoInfo)
         /\ (reg[t].subs[q] = NoInfo) # (reg'[t].subs[q] = NoInfo)
         => p = q]_vars

\* When a resumption drops the entry of a process, the process has back
\* every sensor in it, at the rate it had.
ResumeRestores ==
    [][\A p \in Pids, s \in Sensors :
         /\ p \in frozen /\ p \notin frozen'
         /\ saved[p][s] # NoInfo
         /\ \E failing \in [Sensors -> Failures] : ResumeSensors(p, failing)
         => reg'[s].subs[p] = saved[p][s]]_vars
=============================================================================
