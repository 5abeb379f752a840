------------------------------ MODULE ClientAgent ------------------------------
(***************************************************************************)
(* A client process: SensorAgentProxy's users and subscriptions, its data  *)
(* channel and its sampling interval, and SensorServiceClient's proxy of   *)
(* the sensor service with sensorInfoMap_, the sensors to enable again     *)
(* when the service dies.  The service is what it keeps of this process;   *)
(* it dies, and is loaded again by whoever needs it.                       *)
(*                                                                         *)
(* A call of the application is one step, unless it waits for a mutex with *)
(* another in its hands.  ProcessDeathObserver runs on binder threads, a   *)
(* step for each section between its locks.                                *)
(***************************************************************************)
EXTENDS Naturals, FiniteSets

CONSTANTS
    Sensors, Users,
    Intervals,  \* what SetBatch can be given
    Observers,  \* binder threads that deliver the death of the service
    MaxDeaths,  \* bound: how often the service dies
    MaxErrors,  \* bound: calls that a living service refuses
    None

ASSUME ClientAssumption ==
    /\ MaxDeaths \in Nat /\ MaxErrors \in Nat /\ None \notin Intervals
    /\ IsFiniteSet(Sensors)

VARIABLES
    subscribed,    \* subscribeMap_
    unsubscribed,  \* unsubscribeMap_: deactivated and not unsubscribed yet
    interval,      \* samplingInterval_ (and reportInterval_), None when negative
    created,       \* isChannelCreated_
    open,          \* dataChannel_ has its socket pair
    known,         \* SensorServiceClient::dataChannel_ is set
    server,        \* sensorServer_: no proxy, one of the service, one of a dead one
    info,          \* sensorInfoMap_
    service,       \* what the service keeps of this process
    deaths,        \* death notifications not delivered yet
    observer,      \* where each binder thread is in ProcessDeathObserver
    creating,      \* a caller holds chanelMutex_ and waits for channelMutex_
    unregistering, \* a caller holds clientMutex_ and waits for channelMutex_
    failed,        \* history: sensors for which a call failed, or was left out
    gaveUp,        \* history: the last reconnection ended with no ReenableSensor
    died, errors   \* counters for the bounds

agent == <<subscribed, unsubscribed, interval>>
channel == <<created, open, known>>
waiting == <<creating, unregistering>>
vars == <<subscribed, unsubscribed, interval, created, open, known, server, info,
          service, deaths, observer, creating, unregistering, failed, gaveUp, died, errors>>

Stages == {"idle", "restore", "forget", "connect", "giveUp", "transfer", "reenable"}
Unknown == [subs |-> [s \in Sensors |-> None], channel |-> FALSE]

TypeOK ==
    /\ subscribed \in [Sensors -> SUBSET Users]
    /\ unsubscribed \in [Sensors -> SUBSET Users]
    /\ interval \in Intervals \cup {None}
    /\ created \in BOOLEAN /\ open \in BOOLEAN /\ known \in BOOLEAN
    /\ (created => known)
    /\ server \in {"null", "live", "stale"}
    /\ info \in [Sensors -> Intervals \cup {None}]
    /\ service \in [subs : [Sensors -> Intervals \cup {None}], channel : BOOLEAN]
    /\ (server # "live" => service = Unknown)
    /\ deaths \in 0 .. MaxDeaths
    /\ observer \in [Observers -> Stages]
    /\ creating \in BOOLEAN /\ unregistering \in BOOLEAN
    /\ failed \subseteq Sensors /\ gaveUp \in BOOLEAN
    /\ died \in 0 .. MaxDeaths /\ errors \in 0 .. MaxErrors

Init ==
    /\ subscribed = [s \in Sensors |-> {}] /\ unsubscribed = [s \in Sensors |-> {}]
    /\ interval = None
    /\ created = FALSE /\ open = FALSE /\ known = FALSE
    /\ server = "null"
    /\ info = [s \in Sensors |-> None]
    /\ service = Unknown
    /\ deaths = 0 /\ observer = [o \in Observers |-> "idle"]
    /\ creating = FALSE /\ unregistering = FALSE
    /\ failed = {} /\ gaveUp = FALSE
    /\ died = 0 /\ errors = 0

-----------------------------------------------------------------------------
(* The service                                                             *)

ServiceDies ==
    /\ server = "live" /\ died < MaxDeaths
    /\ died' = died + 1 /\ deaths' = deaths + 1
    /\ server' = "stale"
    /\ service' = Unknown
    /\ UNCHANGED <<agent, channel, info, observer, waiting, failed, gaveUp, errors>>

\* InitServiceClient before a call: the proxy there is, also of a dead service;
\* or a new one of a service that runs or is loaded; or none.  It takes
\* clientMutex_.
Connections ==
    IF unregistering THEN {}
    ELSE IF server # "null" THEN {[server |-> server, cost |-> 0]}
    ELSE {[server |-> "live", cost |-> 0], [server |-> "null", cost |-> 1]}

\* What a call returns, once connected: a living service may refuse it.
Replies(c) ==
    IF c.server = "live" THEN {[ok |-> TRUE, cost |-> 0], [ok |-> FALSE, cost |-> 1]}
    ELSE {[ok |-> FALSE, cost |-> 0]}

Spend(cost) == errors + cost <= MaxErrors /\ errors' = errors + cost

-----------------------------------------------------------------------------
(* The calls of the application                                            *)

\* The observers with channelMutex_.
Holding(o) == observer[o] \in {"restore", "forget", "connect", "giveUp", "transfer"}

ChannelFree == \A o \in Observers : ~Holding(o)

\* SubscribeSensor has createChannelMutex_ and chanelMutex_ when TransferDataChannel
\* finds channelMutex_ taken.
WaitToTransfer ==
    /\ ~created /\ ~creating /\ ~ChannelFree /\ Connections # {}
    /\ creating' = TRUE
    /\ UNCHANGED <<agent, channel, server, info, service, deaths, observer, unregistering,
                   failed, gaveUp, died, errors>>

CreateSensorDataChannel(c) ==
    /\ ChannelFree
    /\ \E r \in Replies(c) :
          /\ Spend(c.cost + r.cost)
          /\ open' = r.ok /\ created' = r.ok
          /\ service' = [service EXCEPT !.channel = @ \/ r.ok]
    /\ IF c.server = "null" THEN known' \in {known, TRUE} ELSE known' = TRUE

\* Others wait for createChannelMutex_ until the one that waits has gone on.
SubscribeSensor(s, u) ==
    /\ \E c \in Connections :
          /\ server' = c.server
          /\ IF created THEN Spend(c.cost) /\ UNCHANGED <<channel, service>>
             ELSE CreateSensorDataChannel(c)
    /\ creating' = FALSE
    /\ subscribed' = IF created' THEN [subscribed EXCEPT ![s] = @ \cup {u}] ELSE subscribed
    /\ UNCHANGED <<unsubscribed, interval, info, deaths, observer, unregistering, failed,
                   gaveUp, died>>

\* An Unregister of active information has clientMutex_ and waits for channelMutex_
\* when the observer, which has channelMutex_, comes to take clientMutex_; every
\* other one leaves all of this as it was.
Unregister ==
    /\ ~unregistering
    /\ \E o \in Observers : observer[o] \in {"forget", "connect", "transfer"}
    /\ unregistering' = TRUE
    /\ UNCHANGED <<agent, channel, server, info, service, deaths, observer, creating,
                   failed, gaveUp, died, errors>>

SetBatch(s, u, i) ==
    /\ u \in subscribed[s]
    /\ \E c \in Connections : server' = c.server /\ Spend(c.cost)
    /\ interval' = i
    /\ UNCHANGED <<subscribed, unsubscribed, channel, info, service, deaths, observer,
                   waiting, failed, gaveUp, died>>

UpdateSensorInfoMap(s) == info' = [info EXCEPT ![s] = interval]

\* A refused EnableSensor may end the subscription the service had, and leaves
\* the entry of sensorInfoMap_ as it was.
ActivateSensor(s, u) ==
    /\ interval # None /\ u \in subscribed[s]
    /\ \E c \in Connections : \E r \in Replies(c) :
          /\ server' = c.server
          /\ Spend(c.cost + r.cost)
          /\ IF r.ok
             THEN /\ service' = [service EXCEPT !.subs[s] = interval]
                  /\ UpdateSensorInfoMap(s)
                  /\ failed' = failed \ {s}
                  /\ UNCHANGED subscribed
             ELSE /\ service' \in {service, [service EXCEPT !.subs[s] = None]}
                  /\ subscribed' = [subscribed EXCEPT ![s] = @ \ {u}]
                  /\ failed' = IF info[s] # None THEN failed \cup {s} ELSE failed
                  /\ UNCHANGED info
    /\ UNCHANGED <<unsubscribed, interval, channel, deaths, observer, waiting, gaveUp, died>>

\* The entry stays when the service has disabled the sensor.
KeepItemMutant(s) == UNCHANGED info

DeleteSensorInfoItem(s) == info' = [info EXCEPT ![s] = None]

DisableSensor(s, c) ==
    \E r \in Replies(c) :
        /\ Spend(c.cost + r.cost)
        /\ IF r.ok
           THEN /\ service' = [service EXCEPT !.subs[s] = None]
                /\ DeleteSensorInfoItem(s)
                /\ failed' = failed \ {s}
           ELSE /\ failed' = failed \cup {s}
                /\ UNCHANGED <<service, info>>

\* A sensor that sensorList_ no longer has is not disabled, nor is its entry deleted.
NoNeedToDisable(s, c) ==
    /\ Spend(c.cost + 1)
    /\ failed' = failed \cup {s}
    /\ UNCHANGED <<service, info>>

\* Every user that leaves disables the sensor, or none does.
LastMutant(s, u) == FALSE

LastUser(s, u) == subscribed[s] = {u}

DeactivateSensor(s, u) ==
    /\ u \in subscribed[s]
    /\ subscribed' = [subscribed EXCEPT ![s] = @ \ {u}]
    /\ unsubscribed' = [unsubscribed EXCEPT ![s] = @ \cup {u}]
    /\ \E c \in Connections :
          /\ server' = c.server
          /\ IF LastUser(s, u) THEN DisableSensor(s, c) \/ NoNeedToDisable(s, c)
             ELSE Spend(c.cost) /\ UNCHANGED <<service, info, failed>>
    /\ UNCHANGED <<interval, channel, deaths, observer, waiting, gaveUp, died>>

\* The socket pair is closed first; isChannelCreated_ stays when the service
\* refuses or is not reached.  A service that knows no channel of this process
\* answers as one that does.
DestroySensorDataChannel(c) ==
    \E r \in Replies(c) :
        /\ Spend(c.cost + r.cost)
        /\ open' = FALSE
        /\ IF r.ok
           THEN service' = Unknown /\ created' = FALSE
           ELSE UNCHANGED <<service, created>>

IsSubscribeMapEmpty(s) == \A t \in Sensors : subscribed[t] = {}

UnsubscribeSensor(s, u) ==
    /\ ~creating /\ u \in unsubscribed[s]
    /\ unsubscribed' = [unsubscribed EXCEPT ![s] = @ \ {u}]
    /\ \E c \in Connections :
          /\ server' = c.server
          /\ IF IsSubscribeMapEmpty(s) /\ created THEN DestroySensorDataChannel(c)
             ELSE Spend(c.cost) /\ UNCHANGED <<service, open, created>>
    /\ UNCHANGED <<subscribed, interval, known, info, deaths, observer, waiting, failed,
                   gaveUp, died>>

-----------------------------------------------------------------------------
(* The death of the service                                                *)

At(o, stage) == observer[o] = stage
Go(o, stage) == observer' = [observer EXCEPT ![o] = stage]

\* The binder threads are alike, so an idle one stands for all that are.
NextIdle(o) == At(o, "idle") /\ o = CHOOSE p \in Observers : At(p, "idle")

\* A channel that the client has ever used is made anew, under channelMutex_.
ProcessDeathObserver(o) ==
    /\ deaths > 0 /\ NextIdle(o) /\ ChannelFree
    /\ deaths' = deaths - 1
    /\ open' = (open \/ known)
    /\ Go(o, IF known THEN "restore" ELSE "forget")
    /\ UNCHANGED <<agent, created, known, server, info, service, waiting, failed, gaveUp,
                   died, errors>>

\* SetIsChannelCreated takes chanelMutex_.
SetIsChannelCreated(b) == ~creating /\ created' = b

Restored(o) ==
    /\ At(o, "restore")
    /\ SetIsChannelCreated(TRUE)
    /\ Go(o, "forget")
    /\ UNCHANGED <<agent, open, known, server, info, service, deaths, waiting, failed,
                   gaveUp, died, errors>>

\* The proxy of the dead service stays.
KeepProxyMutant == UNCHANGED server

ForgetProxy == server' = "null"

\* From here on clientMutex_ is needed as well.
Forget(o) ==
    /\ At(o, "forget") /\ ~unregistering
    /\ ForgetProxy
    /\ gaveUp' = FALSE
    /\ Go(o, "connect")
    /\ UNCHANGED <<agent, channel, info, service, deaths, waiting, failed, died, errors>>

\* The observer gives up also when there is a proxy but TransferClientRemoteObject
\* is refused.
InitServiceClient(o) ==
    /\ At(o, "connect") /\ ~unregistering
    /\ \/ \E c \in Connections :
             /\ c.server # "null"
             /\ server' = c.server
             /\ Go(o, IF known THEN "transfer" ELSE "reenable")
             /\ UNCHANGED <<open, gaveUp, errors>>
       \/ /\ server = "null" /\ server' \in {"null", "live"}
          /\ Spend(1)
          /\ open' = (open /\ ~known)
          /\ gaveUp' = TRUE
          /\ Go(o, IF known THEN "giveUp" ELSE "idle")
    /\ UNCHANGED <<agent, created, known, info, service, deaths, waiting, failed, died>>

GiveUp(o) ==
    /\ At(o, "giveUp")
    /\ SetIsChannelCreated(FALSE)
    /\ Go(o, "idle")
    /\ UNCHANGED <<agent, open, known, server, info, service, deaths, waiting, failed,
                   gaveUp, died, errors>>

\* What TransferDataChannel returns is only reported.
TransferDataChannel(o) ==
    /\ At(o, "transfer") /\ ~unregistering
    /\ \E r \in Replies([server |-> server]) :
          /\ Spend(r.cost)
          /\ service' = [service EXCEPT !.channel = @ \/ (r.ok /\ open)]
    /\ Go(o, "reenable")
    /\ UNCHANGED <<agent, channel, server, info, deaths, waiting, failed, gaveUp, died>>

ReenableSensor(o) ==
    /\ At(o, "reenable") /\ ~unregistering
    /\ Go(o, "idle")
    /\ \/ /\ server = "live"
          /\ \E refused \in SUBSET {s \in Sensors : info[s] # None} :
                /\ Spend(Cardinality(refused))
                /\ service' = [service EXCEPT !.subs =
                      [s \in Sensors |-> IF info[s] # None /\ s \notin refused
                                         THEN info[s] ELSE service.subs[s]]]
                /\ failed' = failed \cup refused
       \/ server # "live" /\ UNCHANGED <<service, failed, errors>>
    /\ UNCHANGED <<agent, channel, server, info, deaths, waiting, gaveUp, died>>

Observe(o) ==
    \/ ProcessDeathObserver(o)
    \/ Restored(o)
    \/ Forget(o)
    \/ InitServiceClient(o)
    \/ GiveUp(o)
    \/ TransferDataChannel(o)
    \/ ReenableSensor(o)

SomeBatch == \E s \in Sensors, u \in Users, i \in Intervals : SetBatch(s, u, i)

OtherThanBatch ==
    \/ ServiceDies
    \/ WaitToTransfer
    \/ Unregister
    \/ \E s \in Sensors, u \in Users :
          \/ SubscribeSensor(s, u)
          \/ ActivateSensor(s, u)
          \/ DeactivateSensor(s, u)
          \/ UnsubscribeSensor(s, u)
    \/ \E o \in Observers : Observe(o)

Next == SomeBatch \/ OtherThanBatch

Spec == Init /\ [][Next]_vars

\* As long as a binder thread has work and the mutexes for it, one of them runs; the
\* application need not call anything.
FairSpec == Spec /\ WF_vars(\E o \in Observers : Observe(o))

-----------------------------------------------------------------------------
(* Properties                                                              *)

Settled == server = "live" /\ deaths = 0 /\ \A o \in Observers : At(o, "idle")

\* While the client is connected and no reconnection is under way, the service
\* has enabled for it exactly the sensors of sensorInfoMap_, at their rates,
\* whatever calls ran between the steps of one or two reconnections; but for
\* sensors with a failed call and a reconnection that gave up.  And as long as
\* any sensor has users the client keeps a channel.
Mirrored ==
    Settled /\ ~gaveUp =>
        /\ \A s \in Sensors \ failed : service.subs[s] = info[s]
        /\ (\E s \in Sensors : subscribed[s] # {}) => created

\* The service drives no sensor for a process without users of it, unless a
\* call for that sensor failed: a death of the service brings none back.
NoGhost ==
    \A s \in Sensors : service.subs[s] # None => subscribed[s] # {} \/ s \in failed

\* The two deadlocks of an observer that has channelMutex_: with a caller that has
\* clientMutex_ (sensor_service_client.cpp:669, 691 against 518, 522), and with one
\* that has chanelMutex_ where the observer sets isChannelCreated_
\* (sensor_agent_proxy.cpp:106, client:311 against client:518, 534 or 543).
Deadlocked ==
    \/ unregistering
    \/ creating /\ \E o \in Observers : At(o, "restore") \/ At(o, "giveUp")

\* An enabled sensor is enabled again after a death of the service, or disabled,
\* or the reconnection gives up, or a call for it fails, unless the observer is
\* caught in one of its two deadlocks.  No other order of calls stops it.
Reenabled ==
    \A s \in Sensors :
        info[s] # None ~> \/ service.subs[s] = info[s] \/ info[s] = None
                          \/ gaveUp \/ s \in failed \/ Deadlocked
=============================================================================
