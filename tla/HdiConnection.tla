---------------------------- MODULE HdiConnection ----------------------------
(***************************************************************************)
(* HdiConnection: the service's proxy of the HDI driver process, the       *)
(* callback and death recipient registered there, g_sensorBasicInfoMap,    *)
(* and what happens when the driver process dies: ProcessDeathObserver on  *)
(* a binder thread, Reconnect with its bounded retries, ReEnableSensor,    *)
(* while the service goes on calling the driver and may reconnect first.   *)
(*                                                                         *)
(* A step is what one thread does between two points where others may come *)
(* in: for most a critical section of g_sensorInterfaceMutex.  A call of   *)
(* the service is two, InitHdiInterface and the call of the driver, which  *)
(* also enters its success in the map.  Reconnect holds the mutex for the  *)
(* whole of ReEnableSensor, but the driver may die between any two of the  *)
(* calls of its loop: these are steps.                                     *)
(***************************************************************************)
EXTENDS Naturals

CONSTANTS
    Sensors,
    Rates,      \* what SetBatch can be given
    Observers,  \* binder threads that deliver the death of the driver process
    MaxRetry,   \* GET_HDI_SERVICE_COUNT
    MaxCrashes, \* bound: how often the driver process dies
    MaxErrors,  \* bound: errors and timeouts of a driver that lives
    None

ASSUME HdiAssumption ==
    /\ MaxRetry \in Nat \ {0} /\ MaxCrashes \in Nat /\ MaxErrors \in Nat
    /\ None \notin Rates \cup Sensors

VARIABLES
    hdi,       \* the driver process
    iface,     \* g_sensorInterface: no proxy, one of the process, one of a dead one
    watched,   \* hdiDeathObserver_ is registered with the process of the proxy
    dataCb,    \* isRegisterDataCallBack_
    info,      \* g_sensorBasicInfoMap
    call,      \* the service's call after InitHdiInterface
    deaths,    \* death notifications not delivered yet
    observer,  \* where each binder thread is in ProcessDeathObserver
    left,      \* what the loop of ReEnableSensor has not looked at yet
    batched,   \* the sensor the loop has called SetBatch for, and not yet Enable
    want,      \* history: what the service was told the driver does
    excused,   \* history: sensors the driver failed to re-enable or to stop
    unset,     \* history: sensors whose rate went with the process: configured, but
               \* not enabled, or refused by the next one
    gaveUp,    \* history: Reconnect ended with no ReEnableSensor
    unnoticed, \* history: a process died before it was watched: its proxy stays
    crashes, errors   \* counters for the bounds

vars == <<hdi, iface, watched, dataCb, info, call, deaths, observer, left,
          batched, want, excused, unset, gaveUp, unnoticed, crashes, errors>>

loopVars == <<left, batched>>

Stages == {"idle", "connect", "register", "list", "fetch", "lock", "reenable"}
NoCall == [op |-> "none", sensor |-> None, rate |-> None]
Idle == [stage |-> "idle", retry |-> 0]
Off == [on |-> FALSE, rate |-> None]
FreshHdi == [up |-> TRUE, drives |-> [s \in Sensors |-> Off], listening |-> FALSE]

TypeOK ==
    /\ hdi \in [up : BOOLEAN, listening : BOOLEAN,
                drives : [Sensors -> [on : BOOLEAN, rate : Rates \cup {None}]]]
    /\ iface \in {"null", "live", "stale"} /\ (iface = "live" => hdi.up)
    /\ watched \in BOOLEAN /\ (watched => iface = "live")
    /\ dataCb \in BOOLEAN
    /\ info \in [Sensors -> [state : BOOLEAN, rate : Rates \cup {None}]]
    /\ \A s \in Sensors : info[s].state => info[s].rate # None
    /\ call \in {NoCall} \cup [op : {"SetBatch"}, sensor : Sensors, rate : Rates]
                        \cup [op : {"Enable", "Disable"}, sensor : Sensors, rate : {None}]
    /\ deaths \in 0 .. MaxCrashes
    /\ left \subseteq Sensors /\ batched \in Sensors \cup {None}
    /\ observer \in [Observers -> [stage : Stages, retry : 0 .. MaxRetry]]
    /\ want \in [Sensors -> [on : BOOLEAN, rate : Rates \cup {None}]]
    /\ excused \subseteq Sensors /\ unset \subseteq Sensors
    /\ gaveUp \in BOOLEAN /\ unnoticed \in BOOLEAN
    /\ crashes \in 0 .. MaxCrashes /\ errors \in 0 .. MaxErrors

Init ==
    /\ hdi = [FreshHdi EXCEPT !.listening = TRUE]
    /\ iface = "live" /\ watched = TRUE /\ dataCb = TRUE
    /\ info = [s \in Sensors |-> [state |-> FALSE, rate |-> None]]
    /\ call = NoCall
    /\ deaths = 0
    /\ observer = [o \in Observers |-> Idle]
    /\ left = {} /\ batched = None
    /\ want = [s \in Sensors |-> Off]
    /\ excused = {} /\ unset = {} /\ gaveUp = FALSE /\ unnoticed = FALSE
    /\ crashes = 0 /\ errors = 0

-----------------------------------------------------------------------------
(* The driver process                                                      *)

Dies ==
    /\ hdi.up /\ crashes < MaxCrashes
    /\ crashes' = crashes + 1
    /\ hdi' = [FreshHdi EXCEPT !.up = FALSE]
    /\ watched' = FALSE
    /\ unset' = unset \cup {s \in Sensors : want[s].rate # None /\ ~info[s].state}

Crash ==
    /\ Dies
    /\ iface' = IF iface = "live" THEN "stale" ELSE iface
    /\ deaths' = IF watched THEN deaths + 1 ELSE deaths
    /\ UNCHANGED <<dataCb, info, call, observer, loopVars, want, excused, gaveUp, unnoticed,
                   errors>>

Restart ==
    /\ ~hdi.up
    /\ hdi' = FreshHdi
    /\ UNCHANGED <<iface, watched, dataCb, info, call, deaths, observer, loopVars, want,
                   excused, unset, gaveUp, unnoticed, crashes, errors>>

\* A driver that lives may still fail a call.
Error == errors < MaxErrors /\ errors' = errors + 1

-----------------------------------------------------------------------------
(* The binder threads                                                      *)

At(o, stage) == observer[o].stage = stage
Go(o, stage) == observer' = [observer EXCEPT ![o] = [stage |-> stage, retry |-> 0]]

\* g_sensorInterfaceMutex: ReEnableSensor holds it over several steps.
InterfaceFree == \A o \in Observers : ~At(o, "reenable")

-----------------------------------------------------------------------------
(* GetHdiInterface, under g_sensorInterfaceMutex.  Each disjunct says        *)
(* whether it returns true; a failed RegisterAsync leaves the proxy behind,  *)
(* and the next call returns true for it.                                    *)

RegisterAsync == hdi' = [hdi EXCEPT !.listening = TRUE] /\ dataCb' = TRUE

\* A dead proxy is replaced before its death is delivered.
NewProxyMutant ==
    /\ iface # "live" /\ hdi.up
    /\ iface' = "live" /\ watched' = TRUE

NewProxy ==
    /\ iface = "null" /\ hdi.up
    /\ iface' = "live" /\ watched' = TRUE

Connected == NewProxy /\ (IF dataCb THEN UNCHANGED <<hdi, dataCb>> ELSE RegisterAsync)

\* The data callback, or the plug callback registered after it, is refused.
HalfConnected == NewProxy /\ (RegisterAsync \/ UNCHANGED <<hdi, dataCb>>)

\* The process dies once there is a proxy of it: before RegisterHdiDeathRecipient,
\* which may not tell anyone then, or before both callbacks are registered.
DiesMeanwhile ==
    /\ iface = "null" /\ Dies
    /\ iface' = "stale"
    /\ \/ deaths' = deaths /\ unnoticed' = TRUE /\ UNCHANGED dataCb
       \/ deaths' = deaths + 1 /\ dataCb' \in {dataCb, TRUE} /\ UNCHANGED unnoticed

GetHdiInterface(result) ==
    /\ InterfaceFree
    /\ \/ /\ \/ /\ iface # "null" /\ result
                /\ UNCHANGED <<hdi, iface, watched, dataCb, errors>>
             \/ /\ iface = "null" /\ ~hdi.up /\ ~result
                /\ UNCHANGED <<hdi, iface, watched, dataCb, errors>>
             \/ result /\ Connected /\ UNCHANGED errors
             \/ ~result /\ HalfConnected /\ Error
          /\ UNCHANGED <<deaths, unset, unnoticed, crashes>>
       \/ ~result /\ DiesMeanwhile /\ UNCHANGED errors

-----------------------------------------------------------------------------
(* The service's calls                                                     *)

\* The service configures a sensor before it enables it.
Ordered(op, s) ==
    /\ op = "Enable" => want[s].rate # None /\ ~want[s].on
    /\ op = "Disable" => want[s].on

InitHdiInterface(op, s, rate) ==
    /\ call = NoCall /\ Ordered(op, s)
    /\ \E result \in BOOLEAN :
          /\ GetHdiInterface(result)
          /\ call' = IF result THEN [op |-> op, sensor |-> s, rate |-> rate] ELSE call
    /\ UNCHANGED <<info, observer, loopVars, want, excused, gaveUp>>

\* A new rate is entered as not enabled, whatever the entry says.
UpdateMutant(s, rate) == info' = [info EXCEPT ![s] = [state |-> FALSE, rate |-> rate]]

\* An entry that is enabled stays so.
UpdateSensorBasicInfo(s, rate) == info' = [info EXCEPT ![s].rate = rate]

SetBatch(s, rate) ==
    /\ hdi' = [hdi EXCEPT !.drives[s].rate = rate]
    /\ UpdateSensorBasicInfo(s, rate)
    /\ want' = [want EXCEPT ![s].rate = rate]
    /\ unset' = unset \ {s}
    /\ UNCHANGED <<excused, errors>>

\* Only if SetBatch has made an entry.
SetSensorBasicInfoState(s) == info' = [info EXCEPT ![s].state = info[s].rate # None]

EnableSensor(s) ==
    /\ hdi' = [hdi EXCEPT !.drives[s].on = TRUE]
    /\ SetSensorBasicInfoState(s)
    /\ want' = [want EXCEPT ![s].on = TRUE]
    /\ excused' = excused \ {s}
    /\ UNCHANGED <<unset, errors>>

\* The entry is kept after a successful Disable.
KeepInfoMutant(s) == UNCHANGED info

DeleteSensorBasicInfoState(s) ==
    info' = [info EXCEPT ![s] = [state |-> FALSE, rate |-> None]]

DisableSensor(s) ==
    /\ hdi' = [hdi EXCEPT !.drives[s] = Off]
    /\ DeleteSensorBasicInfoState(s)
    /\ want' = [want EXCEPT ![s] = Off]
    /\ excused' = excused \ {s}
    /\ UNCHANGED <<unset, errors>>

\* HDI_DISABLE_SENSOR_TIMEOUT: the service is told the sensor is off, the entry
\* stays, and the driver may or may not have turned it off.
DisableTimeout(s) ==
    /\ Error
    /\ hdi' \in {hdi, [hdi EXCEPT !.drives[s] = Off]}
    /\ want' = [want EXCEPT ![s] = Off]
    /\ excused' = excused \cup {s}
    /\ UNCHANGED <<info, unset>>

Call ==
    /\ call # NoCall /\ InterfaceFree
    /\ call' = NoCall
    /\ \/ /\ iface = "live"
          /\ \/ call.op = "SetBatch" /\ SetBatch(call.sensor, call.rate)
             \/ call.op = "Enable" /\ EnableSensor(call.sensor)
             \/ call.op = "Disable" /\ DisableSensor(call.sensor)
             \/ call.op = "Disable" /\ DisableTimeout(call.sensor)
             \/ Error /\ UNCHANGED <<hdi, info, want, excused, unset>>
       \/ iface # "live" /\ UNCHANGED <<hdi, info, want, excused, unset, errors>>
    /\ UNCHANGED <<iface, watched, dataCb, deaths, observer, loopVars, gaveUp, unnoticed,
                   crashes>>

-----------------------------------------------------------------------------
(* The death of the driver process                                         *)

\* The proxy is not forgotten.
KeepProxyMutant == UNCHANGED iface /\ watched' = FALSE /\ dataCb' = FALSE

Forget == iface' = "null" /\ watched' = FALSE /\ dataCb' = FALSE

ProcessDeathObserver(o) ==
    /\ deaths > 0 /\ At(o, "idle") /\ InterfaceFree
    /\ deaths' = deaths - 1
    /\ Forget
    /\ Go(o, "connect")
    /\ UNCHANGED <<hdi, info, call, loopVars, want, excused, unset, gaveUp, unnoticed,
                   crashes, errors>>

MayRetry(o) == observer[o].retry < MaxRetry

ConnectHdi(o) ==
    /\ At(o, "connect") /\ MayRetry(o)
    /\ \E result \in BOOLEAN :
          /\ GetHdiInterface(result)
          /\ IF result THEN Go(o, "register")
             ELSE observer' = [observer EXCEPT ![o].retry = @ + 1]
    /\ UNCHANGED <<info, call, loopVars, want, excused, gaveUp>>

RetriesExhausted(o) ==
    /\ At(o, "connect") /\ ~MayRetry(o)
    /\ Go(o, "idle")
    /\ gaveUp' = TRUE
    /\ UNCHANGED <<hdi, iface, watched, dataCb, info, call, deaths, loopVars, want, excused,
                   unset, unnoticed, crashes, errors>>

\* Reconnect registers the callbacks again, with the proxy there is by now.
ReRegister(o) ==
    /\ At(o, "register") /\ InterfaceFree
    /\ \/ /\ iface = "live" /\ RegisterAsync /\ Go(o, "list")
          /\ UNCHANGED <<gaveUp, errors>>
       \/ /\ iface = "live" /\ Error /\ (RegisterAsync \/ UNCHANGED <<hdi, dataCb>>)
          /\ Go(o, "idle") /\ gaveUp' = TRUE
       \/ /\ iface # "live" /\ Go(o, "idle")
          /\ UNCHANGED <<hdi, dataCb, gaveUp, errors>>
    /\ UNCHANGED <<iface, watched, info, call, deaths, loopVars, want, excused, unset,
                   unnoticed, crashes>>

\* GetSensorList: its InitHdiInterface, then GetAllSensorInfo.
InitForList(o) ==
    /\ At(o, "list")
    /\ \E result \in BOOLEAN :
          GetHdiInterface(result) /\ Go(o, IF result THEN "fetch" ELSE "idle")
    /\ UNCHANGED <<info, call, loopVars, want, excused, gaveUp>>

\* The list itself is discarded.
GetSensorList(o) ==
    /\ At(o, "fetch") /\ InterfaceFree
    /\ \/ iface = "live" /\ Go(o, "lock") /\ UNCHANGED <<gaveUp, errors>>
       \/ iface = "live" /\ Error /\ Go(o, "idle") /\ gaveUp' = TRUE
       \/ iface # "live" /\ Go(o, "idle") /\ UNCHANGED <<gaveUp, errors>>
    /\ UNCHANGED <<hdi, iface, watched, dataCb, info, call, deaths, loopVars, want, excused,
                   unset, unnoticed, crashes>>

-----------------------------------------------------------------------------
(* ReEnableSensor, under g_sensorInterfaceMutex to its end                 *)

Enabled == {s \in Sensors : info[s].state}

ReEnableSensor(o) ==
    /\ At(o, "lock") /\ InterfaceFree
    /\ \/ /\ iface # "null"
          /\ Go(o, "reenable") /\ left' = Enabled
          /\ gaveUp' = (gaveUp /\ iface # "live")
       \/ iface = "null" /\ Go(o, "idle") /\ UNCHANGED <<left, gaveUp>>
    /\ UNCHANGED <<hdi, iface, watched, dataCb, info, call, deaths, batched, want, excused,
                   unset, unnoticed, crashes, errors>>

\* A refusal ends this turn of the loop, not the loop, and is not retried.
ReSetBatch(o, s) ==
    /\ At(o, "reenable") /\ batched = None /\ s \in left
    /\ left' = left \ {s}
    /\ \/ /\ iface = "live" /\ batched' = s
          /\ hdi' = [hdi EXCEPT !.drives[s].rate = info[s].rate]
          /\ unset' = unset \ {s}
          /\ UNCHANGED <<excused, errors>>
       \/ /\ iface = "live" /\ Error
          /\ excused' = excused \cup {s} /\ unset' = unset \cup {s}
          /\ UNCHANGED <<hdi, batched>>
       \/ iface # "live" /\ UNCHANGED <<hdi, batched, excused, unset, errors>>
    /\ UNCHANGED <<iface, watched, dataCb, info, call, deaths, observer, want, gaveUp,
                   unnoticed, crashes>>

ReEnable(o, s) ==
    /\ At(o, "reenable") /\ batched = s
    /\ batched' = None
    /\ \/ /\ iface = "live"
          /\ hdi' = [hdi EXCEPT !.drives[s].on = TRUE]
          /\ excused' = IF want[s].on THEN excused \ {s} ELSE excused
          /\ UNCHANGED errors
       \/ iface = "live" /\ Error /\ excused' = excused \cup {s} /\ UNCHANGED hdi
       \/ iface # "live" /\ UNCHANGED <<hdi, excused, errors>>
    /\ UNCHANGED <<iface, watched, dataCb, info, call, deaths, observer, left, want, unset,
                   gaveUp, unnoticed, crashes>>

LoopEnds(o) ==
    /\ At(o, "reenable") /\ left = {} /\ batched = None
    /\ Go(o, "idle")
    /\ UNCHANGED <<hdi, iface, watched, dataCb, info, call, deaths, loopVars, want, excused,
                   unset, gaveUp, unnoticed, crashes, errors>>

Observe(o) ==
    \/ ProcessDeathObserver(o)
    \/ ConnectHdi(o)
    \/ RetriesExhausted(o)
    \/ ReRegister(o)
    \/ InitForList(o)
    \/ GetSensorList(o)
    \/ ReEnableSensor(o)
    \/ \E s \in Sensors : ReSetBatch(o, s) \/ ReEnable(o, s)
    \/ LoopEnds(o)

Next ==
    \/ Crash
    \/ Restart
    \/ \E s \in Sensors :
          \/ \E rate \in Rates : InitHdiInterface("SetBatch", s, rate)
          \/ \E op \in {"Enable", "Disable"} : InitHdiInterface(op, s, None)
    \/ Call
    \/ \E o \in Observers : Observe(o)

Spec == Init /\ [][Next]_vars

\* A binder thread that has work runs, and gets a mutex that stays free; the driver
\* need not come back.
FairSpec == Spec /\ \A o \in Observers : WF_vars(Observe(o))

-----------------------------------------------------------------------------
(* Properties                                                              *)

Settled ==
    /\ iface = "live" /\ deaths = 0
    /\ \A o \in Observers : At(o, "idle")

\* Once the proxy is that of the running process and no reconnection is under
\* way, every sensor the service believes is on is on there, at the rate the
\* service set last: whatever calls of the service ran between the steps of one
\* or two reconnections (ReEnableSensor).  Excepted are a sensor that the driver
\* refused then, one the process died on between SetBatch and Enable (its rate
\* is lost: ReEnableSensor skips it), and a Reconnect that gave up.  And at any
\* time isRegisterDataCallBack_ is about this process, not a former one: its
\* events reach the service.
Restored ==
    /\ iface = "live" /\ dataCb => hdi.listening
    /\ Settled /\ ~gaveUp =>
          \A s \in Sensors : want[s].on =>
              /\ s \in excused \/ hdi.drives[s].on
              /\ s \in unset \/ hdi.drives[s].rate = want[s].rate

\* No driver process runs a sensor the service has turned off, even if the
\* process restarted meanwhile: only a Disable that timed out leaves one.
NoGhost == \A s \in Sensors : hdi.drives[s].on => want[s].on \/ s \in excused

\* A death notification never discards the proxy of a running process.
NoLiveProxyLost == [][iface = "live" /\ iface' = "null" => ~hdi'.up]_vars

\* A sensor that is wanted is driven again after a crash, or the service turns
\* it off, or Reconnect gives up, or the driver refuses it: no lost
\* notification, no thread stuck behind another one.  But a process that dies
\* between ISensorInterface::Get and AddDeathRecipient may leave its proxy behind
\* with nobody to replace it.
Recovers ==
    \A s \in Sensors :
        want[s].on ~> \/ hdi.drives[s].on \/ ~want[s].on
                      \/ gaveUp \/ unnoticed \/ s \in excused
=============================================================================
