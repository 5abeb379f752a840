------------------------------ MODULE PlugEvents ------------------------------
(***************************************************************************)
(* Sensors that come and go.  The driver reports a sensor plugged in or    *)
(* out; SensorService::ReportPlugEventCallback changes the three lists of  *)
(* the service and then tells the registered clients, one after the other  *)
(* and waiting for each; a client changes its own two lists and turns off  *)
(* at the service what it had subscribed.  Meanwhile the users list,       *)
(* subscribe, activate and deactivate sensors, and listing a device        *)
(* changes the lists of the service again.                                 *)
(*                                                                         *)
(* One thread of the service handles the driver's events in order.  Each   *)
(* client has one user thread beside the binder thread that serves the     *)
(* service's message; the plug callbacks of the users, which change        *)
(* nothing here, are left out.  The service and the driver do not crash    *)
(* (ClientAgent, HdiConnection), the driver answers every question, and    *)
(* the limits on the number of sensors and of clients are not reached.     *)
(***************************************************************************)
EXTENDS FiniteSets, SequencesExt

CONSTANTS
    Clients,   \* client processes
    SensorIds,
    Devices,   \* what sensors are part of
    MaxPlugs,  \* bound: events of the driver
    Null       \* no sensorInfos

VARIABLES
    device,      \* the device of each sensor; never changes
    plugged, on, \* the driver: its sensors, and those that are on
    events,      \* the driver's reports on their way
    service,     \* sensorList_ of the HDI interface, sensors_ and sensorMap_
    clients,     \* sensorClients_
    subs,        \* clientMap_: the processes that have enabled a sensor
    event,       \* what ReportPlugEventCallback is doing, and in which client
    list,        \* sensorList_ of each client
    infos,       \* sensorInfos of each client's agent
    subscribed,  \* subscribeMap_ of each client's agent
    user,        \* where each client's user thread is
    missed,      \* history: went away between GetSensorList and registering
    excused,     \* history: what Running excepts
    plugs        \* counter for the bound

driverVars == <<plugged, on, events, plugs>>
clientVars == <<list, infos, subscribed>>
plugVars == <<device, driverVars, service, clients, subs, event, clientVars, user,
          missed, excused>>

NoEvent == [at |-> "none", sensor |-> Null, online |-> FALSE, todo |-> <<>>]
NoUser == [at |-> "none", sensor |-> Null]
Idle == [at |-> "idle", sensor |-> Null]

\* Where ReportPlugEventCallback is.
EventTypes ==
    {NoEvent}
    \cup [at : {"sensors", "map"}, sensor : SensorIds, online : {FALSE}, todo : {<<>>}]
    \cup [at : {"convert", "merge"}, sensor : SensorIds, online : {TRUE},
          todo : Seq(Clients) \ {<<>>}]
    \cup [at : {"disable", "list", "infos"}, sensor : SensorIds, online : {FALSE},
          todo : Seq(Clients) \ {<<>>}]

UserTypes ==
    [at : {"none", "listed", "idle"}, sensor : {Null}]
    \cup [at : {"device", "enable"}, sensor : SensorIds]

PlugTypeOK ==
    /\ device \in [SensorIds -> Devices]
    /\ on \subseteq plugged /\ plugged \subseteq SensorIds
    /\ events \in Seq([sensor : SensorIds, online : BOOLEAN])
    /\ service \in [hdi : SUBSET SensorIds, sensors : SUBSET SensorIds, map : SUBSET SensorIds]
    /\ clients \in Seq(Clients) /\ subs \in [SensorIds -> SUBSET Clients]
    /\ event \in EventTypes
    /\ list \in [Clients -> SUBSET SensorIds]
    /\ infos \in [Clients -> {Null} \cup SUBSET SensorIds]
    /\ subscribed \in [Clients -> SUBSET SensorIds]
    /\ user \in [Clients -> UserTypes]
    /\ missed \in [Clients -> SUBSET SensorIds] /\ excused \subseteq SensorIds

\* InitSensorList has run and the callback is registered.
PlugInit ==
    /\ device \in [SensorIds -> Devices]
    /\ plugged \in SUBSET SensorIds /\ on = {} /\ events = <<>>
    /\ service = [hdi |-> plugged, sensors |-> plugged, map |-> plugged]
    /\ clients = <<>> /\ subs = [s \in SensorIds |-> {}]
    /\ event = NoEvent
    /\ list = [c \in Clients |-> {}] /\ infos = [c \in Clients |-> Null]
    /\ subscribed = [c \in Clients |-> {}]
    /\ user = [c \in Clients |-> NoUser]
    /\ missed = [c \in Clients |-> {}] /\ excused = {} /\ plugs = 0

-----------------------------------------------------------------------------
(* The driver                                                              *)

Plug(s) ==
    /\ s \notin plugged /\ plugs < MaxPlugs
    /\ plugged' = plugged \cup {s} /\ plugs' = plugs + 1
    /\ events' = Append(events, [sensor |-> s, online |-> TRUE])
    /\ UNCHANGED <<device, on, service, clients, subs, event, clientVars, user, missed, excused>>

Unplug(s) ==
    /\ s \in plugged /\ plugs < MaxPlugs
    /\ plugged' = plugged \ {s} /\ on' = on \ {s} /\ plugs' = plugs + 1
    /\ events' = Append(events, [sensor |-> s, online |-> FALSE])
    /\ UNCHANGED <<device, service, clients, subs, event, clientVars, user, missed, excused>>

-----------------------------------------------------------------------------
(* The lists of the service.  sensorsMutex_ makes each of these a step.    *)

Part(S, d) == {s \in S : device[s] = d}

\* SensorHdiConnection::GetSensorList: asks the driver only when it has no list.
HdiList(lists) == IF lists.hdi = {} THEN plugged ELSE lists.hdi

\* GetSensorList: sensorMap_ only grows.
GetSensorList(lists) ==
    [hdi |-> HdiList(lists), sensors |-> HdiList(lists),
     map |-> lists.map \cup HdiList(lists)]

\* GetSensorListByDevice asks the driver, and answers with the sensors of
\* every device when the driver has none of this one.
AskDevice(lists, d) ==
    LET found == Part(plugged, d) IN
    IF found = {} THEN [lists |-> lists, answer |-> lists.sensors]
    ELSE [lists |-> [hdi |-> lists.hdi \cup found,
                     sensors |-> lists.sensors \cup found,
                     map |-> lists.map \cup lists.sensors \cup found],
          answer |-> found]

\* The same of a client: what the service knows of the device goes first.
GetSensorListByDevice(lists, d) ==
    LET known == Part(lists.sensors, d) IN
    IF known # {} THEN [lists |-> lists, answer |-> known] ELSE AskDevice(lists, d)

\* A listing by a client; what it adds to sensorMap_ while the clients are
\* being told that it went away is excused.
Lists(now) ==
    /\ service' = now
    /\ excused' = IF event.at \in {"disable", "list", "infos"}
                THEN excused \cup ({event.sensor} \cap (now.map \ service.map))
                ELSE excused

-----------------------------------------------------------------------------
(* ReportPlugEventCallback, and HandlePlugSensorData in each client        *)

\* SendMsgToClient copies sensorClients_; a client that has its list but is
\* not registered yet is not told.
Send(s, online) ==
    /\ event' = IF clients = <<>> THEN NoEvent
                ELSE [at |-> IF online THEN "convert" ELSE "disable",
                      sensor |-> s, online |-> online, todo |-> clients]
    /\ missed' = [c \in Clients |->
          IF ~online /\ user[c].at = "listed" THEN missed[c] \cup ({s} \cap list[c])
          ELSE missed[c]]

\* The next step in the same client, or the next client.
At(label) == event' = [event EXCEPT !.at = label]

Told ==
    event' = IF Len(event.todo) = 1 THEN NoEvent
             ELSE [event EXCEPT !.todo = Tail(@),
                                !.at = IF event.online THEN "convert" ELSE "disable"]

SensorOnline ==
    /\ event.at = "none" /\ events # <<>> /\ Head(events).online
    /\ events' = Tail(events)
    /\ LET s == Head(events).sensor IN
       /\ service' = IF s \in service.map THEN service ELSE AskDevice(service, device[s]).lists
       /\ Send(s, TRUE)
    /\ UNCHANGED <<device, plugged, on, plugs, clients, subs, clientVars, user, excused>>

PlugEraseSensorData ==
    /\ event.at = "none" /\ events # <<>> /\ ~Head(events).online
    /\ events' = Tail(events)
    /\ service' = [service EXCEPT !.hdi = @ \ {Head(events).sensor}]
    /\ event' = [NoEvent EXCEPT !.at = "sensors", !.sensor = Head(events).sensor]
    /\ UNCHANGED <<device, plugged, on, plugs, clients, subs, clientVars, user, missed, excused>>

EraseSensor ==
    /\ event.at = "sensors"
    /\ service' = [service EXCEPT !.sensors = @ \ {event.sensor}]
    /\ At("map")
    /\ UNCHANGED <<device, driverVars, clients, subs, clientVars, user, missed, excused>>

EraseFromMap ==
    /\ event.at = "map"
    /\ service' = [service EXCEPT !.map = @ \ {event.sensor}]
    /\ Send(event.sensor, FALSE)
    /\ UNCHANGED <<device, driverVars, clients, subs, clientVars, user, excused>>

-----------------------------------------------------------------------------
(* What a client keeps                                                     *)

\* InitServiceClient fetches the list of a client that has none.
InitServiceClient(c) ==
    IF list[c] = {} THEN [lists |-> GetSensorList(service), list |-> HdiList(service)]
    ELSE [lists |-> service, list |-> list[c]]

\* ConvertSensorInfos compares only how many there are.  The callers clear
\* the agent's copy when there is nothing to convert.
ConvertSensorInfos(c, sensors) ==
    IF sensors = {} THEN Null
    ELSE IF infos[c] # Null /\ Cardinality(infos[c]) = Cardinality(sensors) THEN infos[c]
    ELSE sensors

\* GetDeviceSensors holds sensorInfoMutex_ from end to end, in two steps:
\* first the copy of the whole list, unless there is one,
Convert(c) ==
    IF infos[c] # Null THEN UNCHANGED <<service, excused, list, infos>>
    ELSE LET got == InitServiceClient(c) IN
         /\ Lists(got.lists)
         /\ list' = [list EXCEPT ![c] = got.list]
         /\ infos' = [infos EXCEPT ![c] = ConvertSensorInfos(c, got.list)]

\* then the sensors of the device: the client's own if it knows any of them.
UpdateSensorInfosCache(c, d) ==
    LET got == InitServiceClient(c)
        own == Part(got.list, d)
        asked == IF own # {} THEN [lists |-> got.lists, answer |-> own]
                 ELSE GetSensorListByDevice(got.lists, d)
    IN
    /\ Lists(asked.lists)
    /\ list' = [list EXCEPT ![c] = got.list \cup asked.answer]
    /\ infos' = [infos EXCEPT ![c] = @ \cup asked.answer]

InfosFree(c) ==
    /\ user[c].at # "device"
    /\ ~(event.at = "merge" /\ Head(event.todo) = c)

SubscribeFree(c) == user[c].at # "enable"

-----------------------------------------------------------------------------
(* The service: EnableSensor and DisableSensor of a client                 *)

\* GetSensorState: the driver is not called for a sensor that is enabled.
GetSensorState(s) == subs[s] # {}

\* Under serviceLock_; CheckSensorId came before.
EnableFor(c, s) ==
    IF GetSensorState(s) \/ s \in plugged
    THEN /\ subs' = [subs EXCEPT ![s] = @ \cup {c}]
         /\ on' = IF GetSensorState(s) THEN on ELSE on \cup {s}
         /\ UNCHANGED subscribed
    ELSE /\ subscribed' = [subscribed EXCEPT ![c] = @ \ {s}]
         /\ UNCHANGED <<subs, on>>

\* The mutant of MayDisable leaves the second half of its guard out.
OnlyListedMutant(s) == s \in service.map

\* A sensor that left sensorMap_ can still be disabled while it is enabled.
MayDisable(s) == s \in service.map \/ GetSensorState(s)

\* The driver refuses when the sensor is gone.  That is an error, which keeps
\* the subscription, unless the sensor has left sensorMap_ too.
Refused(c, s) == subs[s] = {c} /\ s \notin plugged /\ s \in service.map

DisableFor(c, s) ==
    IF ~MayDisable(s) \/ Refused(c, s) THEN UNCHANGED <<subs, on>>
    ELSE /\ subs' = [subs EXCEPT ![s] = @ \ {c}]
         /\ on' = IF subs[s] = {c} THEN on \ {s} ELSE on

-----------------------------------------------------------------------------
(* HandlePlugSensorData, in the client that is being told                  *)

\* An online sensor: GetDeviceSensors.
ToldConvert ==
    LET c == Head(event.todo) IN
    /\ event.at = "convert" /\ InfosFree(c)
    /\ Convert(c)
    /\ IF infos'[c] = Null THEN Told ELSE At("merge")
    /\ UNCHANGED <<device, driverVars, clients, subs, subscribed, user, missed>>

ToldMerge ==
    LET c == Head(event.todo) IN
    /\ event.at = "merge"
    /\ UpdateSensorInfosCache(c, device[event.sensor])
    /\ Told
    /\ UNCHANGED <<device, driverVars, clients, subs, subscribed, user, missed>>

\* A sensor that went: it is turned off at the service if it is subscribed
\* here, and subscribeMap_ keeps it;
ToldDisable ==
    LET c == Head(event.todo) s == event.sensor IN
    /\ event.at = "disable" /\ SubscribeFree(c)
    /\ IF s \in subscribed[c] THEN DisableFor(c, s) ELSE UNCHANGED <<subs, on>>
    /\ At("list")
    /\ UNCHANGED <<device, plugged, events, plugs, service, clients, clientVars, user,
                   missed, excused>>

\* The mutant of the next action takes a list that it empties for an empty one.
EmptiedMutant ==
    LET c == Head(event.todo) IN
    /\ event.at = "list"
    /\ list' = [list EXCEPT ![c] = @ \ {event.sensor}]
    /\ missed' = [missed EXCEPT ![c] = @ \ {event.sensor}]
    /\ IF list'[c] = {} THEN Told ELSE At("infos")
    /\ UNCHANGED <<device, driverVars, service, clients, subs, infos, subscribed, user, excused>>

\* then it leaves the list, and a list that was empty ends the work here,
EraseCacheSensorList ==
    LET c == Head(event.todo) IN
    /\ event.at = "list"
    /\ list' = [list EXCEPT ![c] = @ \ {event.sensor}]
    /\ missed' = [missed EXCEPT ![c] = @ \ {event.sensor}]
    /\ IF list[c] = {} THEN Told ELSE At("infos")
    /\ UNCHANGED <<device, driverVars, service, clients, subs, infos, subscribed, user, excused>>

\* and last the agent's copy.
EraseCacheSensorInfos ==
    LET c == Head(event.todo) IN
    /\ event.at = "infos" /\ InfosFree(c)
    /\ infos' = [infos EXCEPT ![c] = IF @ = Null THEN Null ELSE @ \ {event.sensor}]
    /\ Told
    /\ UNCHANGED <<device, driverVars, service, clients, subs, list, subscribed, user,
                   missed, excused>>

-----------------------------------------------------------------------------
(* The user thread of a client                                             *)

Goes(c, at, s) == user' = [user EXCEPT ![c] = [at |-> at, sensor |-> s]]

\* DealAfterServiceAlive, under clientMutex_: first the list, then the object
\* through which the service tells of sensors.
Connect(c) ==
    /\ user[c] = NoUser
    /\ Lists(GetSensorList(service))
    /\ list' = [list EXCEPT ![c] = HdiList(service)]
    /\ Goes(c, "listed", Null)
    /\ UNCHANGED <<device, driverVars, clients, subs, event, infos, subscribed, missed>>

TransferClientRemoteObject(c) ==
    /\ user[c].at = "listed"
    /\ clients' = Append(clients, c)
    /\ Goes(c, "idle", Null)
    /\ UNCHANGED <<device, driverVars, service, subs, event, clientVars, missed, excused>>

GetAllSensors(c) ==
    LET got == InitServiceClient(c) IN
    /\ user[c] = Idle /\ InfosFree(c)
    /\ Lists(got.lists)
    /\ list' = [list EXCEPT ![c] = got.list]
    /\ infos' = [infos EXCEPT ![c] = ConvertSensorInfos(c, got.list)]
    /\ UNCHANGED <<device, driverVars, clients, subs, event, subscribed, user, missed>>

GetDeviceSensors(c, s) ==
    /\ user[c] = Idle /\ InfosFree(c)
    /\ Convert(c)
    /\ IF infos'[c] = Null THEN UNCHANGED user ELSE Goes(c, "device", s)
    /\ UNCHANGED <<device, driverVars, clients, subs, event, subscribed, missed>>

GetDeviceSensorsDone(c) ==
    /\ user[c].at = "device"
    /\ UpdateSensorInfosCache(c, device[user[c].sensor])
    /\ Goes(c, "idle", Null)
    /\ UNCHANGED <<device, driverVars, clients, subs, event, subscribed, missed>>

\* SubscribeSensor and ActivateSensor ask IsValid, which looks at the list.
SubscribeSensor(c, s) ==
    /\ user[c] = Idle /\ s \in list[c] \ subscribed[c]
    /\ subscribed' = [subscribed EXCEPT ![c] = @ \cup {s}]
    /\ UNCHANGED <<device, driverVars, service, clients, subs, event, list, infos, user,
                   missed, excused>>

\* The agent forgets a subscription that the service keeps.
Forgets(c, s) ==
    excused' = IF c \in subs'[s] /\ s \notin subscribed'[c] THEN excused \cup {s} ELSE excused

\* The service's CheckSensorId, before it waits for serviceLock_.
ActivateSensor(c, s) ==
    /\ user[c] = Idle /\ s \in list[c] \cap subscribed[c]
    /\ IF s \in service.map THEN Goes(c, "enable", s) /\ UNCHANGED subscribed
       ELSE UNCHANGED user /\ subscribed' = [subscribed EXCEPT ![c] = @ \ {s}]
    /\ UNCHANGED <<device, driverVars, service, clients, subs, event, list, infos, missed>>
    /\ Forgets(c, s)

ActivateSensorDone(c) ==
    /\ user[c].at = "enable"
    /\ EnableFor(c, user[c].sensor)
    /\ Goes(c, "idle", Null)
    /\ UNCHANGED <<device, plugged, events, plugs, service, clients, event, list, infos,
                   missed, excused>>

\* The service is not called for a sensor the client no longer lists.
DeactivateSensor(c, s) ==
    /\ user[c] = Idle /\ s \in subscribed[c]
    /\ subscribed' = [subscribed EXCEPT ![c] = @ \ {s}]
    /\ IF s \in list[c] THEN DisableFor(c, s) ELSE UNCHANGED <<subs, on>>
    /\ Forgets(c, s)
    /\ UNCHANGED <<device, plugged, events, plugs, service, clients, event, list, infos, user,
                   missed>>

-----------------------------------------------------------------------------

PlugNext ==
    \/ \E s \in SensorIds : Plug(s) \/ Unplug(s)
    \/ SensorOnline \/ PlugEraseSensorData \/ EraseSensor \/ EraseFromMap
    \/ ToldConvert \/ ToldMerge
    \/ ToldDisable \/ EraseCacheSensorList \/ EraseCacheSensorInfos
    \/ \E c \in Clients :
          \/ Connect(c) \/ TransferClientRemoteObject(c)
          \/ GetAllSensors(c) \/ GetDeviceSensorsDone(c) \/ ActivateSensorDone(c)
          \/ \E s \in SensorIds :
                \/ GetDeviceSensors(c, s) \/ SubscribeSensor(c, s)
                \/ ActivateSensor(c, s) \/ DeactivateSensor(c, s)

PlugSpec == PlugInit /\ [][PlugNext]_plugVars

-----------------------------------------------------------------------------
(* Properties                                                              *)

Quiet == events = <<>> /\ event = NoEvent

\* Once the service has told its clients of every sensor that came or went, no
\* registered client has a sensor in its list or in its agent's copy that is
\* gone, whatever the client listed while it was told; except one that went
\* between the client's GetSensorList and its registration.
NoGhost ==
    Quiet => \A c \in Range(clients) :
        list[c] \cup (IF infos[c] = Null THEN {} ELSE infos[c])
            \subseteq plugged \cup missed[c]

\* ... and a sensor that is plugged in and that some client has enabled is on:
\* no subscription outlives its sensor and makes the service believe that the
\* sensor is on when it is plugged in again.  Excepted: a sensor that a client
\* listed again while others were still being told that it went, and one whose
\* subscription an agent forgot, because the service could not take the call
\* before it knew that the sensor had gone, while the service kept it.
Running ==
    Quiet => \A s \in plugged \ excused : subs[s] # {} => s \in on

=============================================================================
