# Verification of the OpenHarmony sensor service

TLA+ specifications of the program in this repository, the TLC runs that check
them on small instances, and TLAPS proofs of what they say for every instance.
Paths below are relative to the repository; "p.cpp:12" is line 12 of that file.
The Chinese documents of the repository are cited in the original, with a
translation.

## 1. The system

Applications measure with sensors through `libsensor_agent`, which lives in
their process, mostly by way of a language binding. It calls the sensor service
(SA 3601) over IPC; the service calls the driver process (HDI) and hands the
driver's events back to the applications over socket pairs.

    application process            sensor service process           driver process
    ---------------------          --------------------------       --------------
    JS / ArkTS / Cangjie bindings
          |  callbacks, lists
    SensorAgentProxy  --call-->    SensorService handlers            ISensorInterface
    SensorServiceClient --IPC-->   ClientInfo / SensorManager        (HDI)
          |                        SensorPowerPolicy
          |  death of the service  SensorHdiConnection --call-->     Enable, SetBatch...
          v                        HdiConnection <-- death, events, plugs --
    ProcessDeathObserver           SensorEventCallback
    SensorDataChannel <--socket--  SensorDataProcesser  <- block policy, shake control
    StreamSocket      <--stream--  StreamServer  (reports of active sensors)

### Components, their state and operations

| Component | State | Operations | What must hold |
|---|---|---|---|
| `SensorService` (services/src/sensor_service.cpp) | the service state, `serviceLock_`, `sensors_`, `sensorMap_`, `isReportActiveInfo_` | EnableSensor, DisableSensor, TransferDataChannel, DestroySensorChannel, ProcessDeathObserver (of a client), Suspend-, Resume-, ResetSensors, ReportPlugEventCallback, CreateSocketChannel, EnableActiveInfoCB, common events | every subscriber is served, unused sensors are off, one client cannot disturb another |
| `ClientInfo` (client_info.cpp) | `clientMap_` (sensor -> pid -> period and delay), `channelMap_`, `appThreadInfoMap_`, `clientPidMap_`, `activeInfoCBPidSet_` | UpdateSensorInfo, RemoveSubscriber, ClearSensorInfo, ClearCurPidSensorInfo, DestroySensorChannel, GetBestSensorInfo, UpdateSensorChannel | the maps agree with each other; the channel limit holds |
| `SensorManager` (sensor_manager.cpp) | the map of sensors | SetBestSensorParams, ResetBestSensorParams, GetSensorInfo, IsOtherClientUsingSensor, AfterDisableSensor, plug changes | the driver runs at the fastest rate asked for |
| `SensorPowerPolicy` (sensor_power_policy.cpp) | `pidSensorInfoMap_` | SuspendSensors, ResumeSensors, ResetSensors, DeleteDisablePidSensorInfo, DeleteDeathPidSensorInfo, ReportActiveInfo | what is suspended comes back as it was, and only that |
| `SensorHdiConnection` (hdi_connection/interface) | the list of sensors | GetSensorList, PlugEraseSensorData, SetBatch, EnableSensor, DisableSensor with its time limit | an answer says what the driver did |
| `HdiConnection` (hdi_connection/adapter) | `g_sensorInterface`, `hdiDeathObserver_`, `isRegisterDataCallBack_`, `g_sensorBasicInfoMap` | ConnectHdi, GetHdiInterface, calls of the driver, ProcessDeathObserver, Reconnect, ReEnableSensor | after a restart of the driver the same sensors run at the same rates |
| `SensorEventCallback`, `ReportDataCallback` | `CircularEventBuf`, `dataReady_` | OnDataEventAsync, ReportEventCallback | a queue that drops the oldest event |
| `SensorDataProcesser` (sensor_data_processer.cpp) | `dataCountMap_` (counts and FIFOs per channel), each channel's `dataCacheBuf_` | DataThread, ProcessEvents, EventFilter, SendEvents, ReportData | every event reaches the channels that asked for it, at their rate |
| `SensorBasicDataChannel`, `SensorDataChannel` | a socket pair, listeners | create, restore, destroy, send, read | both ends live and die together |
| `SensorDataBlockPolicy` (sensor_data_block_policy.cpp) | `blockPolicies_` (target -> client -> sensor types) | block, unblock, clear after a client's death | a target gets no data while any living client blocks it, and gets it again afterwards |
| `SensorShakeControlManager` | `currentUserId_`, two lists of applications, an ignore list | the active user, observers, the parameter, queries of the privacy manager | an application's motion events are held back as the active user's policy says |
| `SensorAgentProxy` (frameworks/native/src) | `subscribeMap_`, `unsubscribeMap_`, `samplingInterval_`, `isChannelCreated_`, `sensorInfos` | SubscribeSensor, SetBatch, ActivateSensor, DeactivateSensor, UnsubscribeSensor, GetAllSensors, plug events | a channel exactly while there are users; its lists follow the service |
| `SensorServiceClient` | `sensorServer_`, `sensorInfoMap_`, `dataChannel_`, `sensorList_`, `activeInfoCBSet_` | InitServiceClient, EnableSensor, DisableSensor, TransferDataChannel, DestroyDataChannel, ProcessDeathObserver, ReenableSensor, Register, Unregister | the service has enabled what the client believes; no deadlock among its mutexes |
| `StreamServer`, `StreamSession`, `StreamSocket`, `NetPacket`, `CircleStreamBuffer` | `sessionsMap_`, `idxPidMap_`, byte buffers | sessions, packets over a byte stream | packets arrive whole and in order |
| JavaScript, ArkTS and Cangjie bindings | callback tables over `SensorAgent` | on, off, once, subscribe, lists, status changes | every callback that is registered is called, none keeps a sensor on for nobody |
| Vibration conversion (vibration_convert) | peaks, onsets, haptic events | from a recording to a list of events | no sound is lost |
| `SensorDataManager`, `SensorDump`, `PrintSensorData`, `FlushInfoRecord`, the mock driver, the C API, algorithms | policy and diagnostic tables, numerics | settings, formatting, logging | - |

`PROJECT.json` lists all of them with what is modelled of each.

### What is hard

- **Concurrency.** IPC handlers run on many binder threads. EnableSensor,
  DisableSensor and DestroySensorChannel hold `serviceLock_` from end to end,
  SuspendSensors and ResumeSensors hold `pidSensorInfoMutex_` instead, and both
  change `ClientInfo` and the driver. The driver's events, its death, its plug
  events and the client's death arrive on other threads. A client process has
  the application's threads, the thread that reads the channel, and binder
  threads for plug events and the death of the service; a binding adds tables
  with mutexes of their own.
- **Failure.** The driver process, the service and the clients die on their own.
  A death is delivered late, after the survivor has perhaps reconnected by itself.
  Calls of the driver fail or exceed their time limit half way through a handler.
- **Order.** Subscribers join, change their rate, are suspended, resumed, leave
  and die in any order; sensors and users come and go; a message about the past
  arrives after the present was asked for.
- **Limits.** The circular buffer wraps and overflows; the channel table is full;
  a socket takes a part of a packet; periods and queue lengths are multiplied in
  64 bits; peaks are erased under the loop that counts them.

The list of hazards, line by line, with the properties that watch each, is
`hazards` in `PROJECT.json`. Section 4 has the smaller ones.

## 2. The modules

| Module | Models | Checked by | Proved in |
|---|---|---|---|
| `SensorService` | subscriptions of the service; a handler is one step | `service_core` | `SensorService_proofs` |
| `ServiceThreads` | the same handlers on threads; a critical section is one step | `service_threads` | `ServiceThreads_proofs` |
| `HdiConnection` | the driver's proxy, its death and reconnection | `hdi_recovery` | `HdiConnection_proofs` |
| `EventQueue` | abstract: a queue that drops its oldest event | `event_ring` (as a property) | `HdiConnection_proofs` |
| `EventRing` | the circular buffer and the data thread | `event_ring` | `HdiConnection_proofs` |
| `BlockPolicy`, `Dispatch` | an event on its way to its subscribers, and who blocks whom | `dispatch` | `Dispatch_proofs` |
| `PacketStream`, `ActiveInfo` | packets over a byte stream; sessions and reports of active sensors | `active_info` | `ActiveInfo_proofs` |
| `PlugEvents` | sensors that come and go: driver, service, clients | `plug` | `SensorService_proofs` |
| `ShakeControl` | the motion policy of the active user | `shake` | `ActiveInfo_proofs` |
| `ClientAgent` | a client process and the death of the service | `client_agent` | `ClientAgent_proofs` |
| `ClientLocks` | the order in which a client's threads take its mutexes | `lock_order` | - |
| `BindingTables`, `JsSensors`, `EtsSensors`, `EtsResponses`, `CjSensors`, `SensorLists`, `StatusEvents`, `Bindings` | the three language bindings over the agent | `bindings` | `Bindings_proofs` |
| `PeakFinder`, `VibrationConvert` | a recording turned into haptic events | `vibration` | `ClientAgent_proofs` |

`Dispatch` EXTENDS `BlockPolicy`, `ActiveInfo` EXTENDS `PacketStream`,
`VibrationConvert` EXTENDS `PeakFinder`; `Bindings` composes the bindings'
modules, which all extend `BindingTables` or stand by themselves. `MC...` modules
only declare model values and give constants their values. Operators named
`...Mutant` are wrong versions of the definition that follows them; no
specification uses them. They show that each property can fail: with the
definition replaced by its mutant, TLC reports the property violated. Some
modules define a `TypeOK` that no run lists; it documents the domains of the
variables.

### SensorService

`reg[s]` is what is kept of sensor s: `clientMap_[s]` (`subs`), whether the
driver runs, and the period and delay it was last given. `saved[p]` is
`pidSensorInfoMap_[p]` and `frozen` its keys. The keys of `channelMap_`,
`appThreadInfoMap_` and `clientPidMap_` change together and are one variable
`channels`. `held` is a history variable: what a process asked for and has not
given up. A handler is an operator on one slice (`Subscribe`, `Disable`,
`Suspend`, `Drop`), applied to the sensors the handler loops over, and one action
does everything the handler does: EnableSensor checks the request, cuts period
and delay (`SensorInfo`), updates the map, sets the best rate, enables the
driver, and takes the subscriber out again when a driver call fails. `Answers`
and `Failures` are what the driver can reply, among them the time limit that
`SensorHdiConnection` reports as success (sensor_hdi_connection.cpp:353). The
service's ResetSensors is a sequence of ResumeSensors steps.

`Known` are the sensors in SensorManager's own map, which is filled when the
service starts and at no plug event (sensor_service.cpp:866-876). The request for
another sensor is stored as it is, neither raised to a least period nor cut to a
FIFO (sensor_manager.cpp:127-133), a period of zero included.

An empty inner map that RemoveSubscriber leaves in `clientMap_` (client_info.cpp:277)
is not told apart from no entry: only the memory manager's critical flag, which is
not modelled, looks at the difference.

### ServiceThreads

One sensor; each thread has a program counter and the local variables of its
handler. `LockService` and `LockPower` take the two mutexes; the steps between
are the critical sections of `ClientInfo` and the calls of the driver, in the
order the handlers make them. The driver always answers, so that the run shows
what the interleaving alone does. `raced` records that two handlers kept apart
by no lock ran together, `fault` that a channel was destroyed under the last
subscriber.

### HdiConnection

A step is what a thread does while it holds `g_sensorInterfaceMutex`. A call of
the service is two steps, InitHdiInterface (which connects when there is no
proxy) and the call, with its entry in `g_sensorBasicInfoMap`; a death
notification is delivered to a binder thread, which forgets the proxy, retries
ConnectHdi up to GET_HDI_SERVICE_COUNT times, registers the callbacks again,
fetches the list and re-enables what the map says is on. Reconnect holds the mutex
for all of ReEnableSensor (hdi_connection.cpp:562), so `g_sensorBasicInfoMutex` is
never waited for; but the driver may die and come back between any two calls of
the loop, so each SetBatch and Enable in it is a step (`left` and `batched` say
how far the loop is). A GetHdiInterface that fails to register leaves the proxy
set, as in the code. GetHdiInterface fetches the proxy and only then registers for
the death of its process (hdi_connection.cpp:73, 85); the process may die in
between (`DiesMeanwhile`), and AddDeathRecipient may then tell nobody: the proxy of
the dead process stays, `unnoticed`. Calls of the service do not overlap each other in this
module: `serviceLock_` orders most of them.

### EventRing and EventQueue

Both threads hold `dataMutex_`, so a callback and a ProcessEvents are one step
each. `Pending` is the refinement mapping: the events from `readPos` on, across
the wrap. Slots of `new SensorData[]` hold `Garbage` before they are written.

### BlockPolicy and Dispatch

`blocks[t][c]` is `blockPolicies_[t][c]`; `watched` are the clients in
`clientPidMap_`, whose death is observed; `asked` is the history of what living
clients want. A client here is a process that blocks the data of others.

`Dispatch` EXTENDS `BlockPolicy` with the data thread: `Take` looks up the
channels of an event's subscribers (`todo`); for each of them the filters
withhold it (`Withhold`) or let it pass (`Check`), and `Deliver` does what
SendEvents does. `slot[p][s]` is what the current channel of p keeps of s: its
FifoCacheData (`made`, `count`, `fifo`) and its entry of `dataCacheBuf_`
(`cache`); the other fields are history. GetBestSensorInfo is read in `Check` and
the process's own rate in `Deliver`, because other threads get `clientMutex_`
in between; the several readings of its own rate are one. Sends succeed or fail
as a whole: the socket is SOCK_SEQPACKET. A period may be zero, as SensorManager
stores it for a sensor it does not know; the count of ComputeBestPeriodCount is zero
then. Channels that are replaced while an
event is on its way take their counts with them (the FIFO's channel is a weak
pointer), so `ForgetChannel` starts a new slot. The permission, the shake control
and their settings are the free choice of `Withhold`.

Two things the code does and no property forbids: a channel with any cached event
sends the events of all its sensors directly, past period and FIFO
(sensor_data_processer.cpp:399), so that events still in a FIFO are overtaken, and
the event that creates a FIFO is lost (line 148). FIFO reports are declared unsupported
(docs/constraints.md:44); `InOrder` leaves channels that used one out.

ReportOnChangeData, which sends the stored event of an on-change sensor to a new
subscriber, is not an action: it tests the flags in SensorService's own
`sensorMap_` (sensor_service.cpp:507), and SetFlags is only called for the copy in
SensorDataProcesser (sensor_data_processer.cpp:232). It always returns before it
sends, and a process that subscribes to an on-change sensor that is already on
hears nothing until the next change.

### PacketStream and ActiveInfo

A packet is a sequence of cells, a cell being some bytes of its header or its
body, so that a send or a read can cut it at each place that matters.
`PacketStream` has one attempt of SendMsg, the circular buffer (its two
positions abstracted to what is unread: CopyDataToBegin makes room before a write,
so only the amount counts) and one turn of the reading loop, which may
take any cells for a header.

`ActiveInfo` composes it with the sessions of the service and the clients. A
step is one call of the service, one critical section of a client, one attempt
of `send` or one `recv`. Descriptors of the service are used again, the lowest
free one first, as the kernel does; sockets are numbered for good. `client[c]`
is a SensorServiceClient (`fd`, `isConnected`, `cbs`, `circBuf`, `stale`), `pc`
its application thread and its death observer. Clients die and their deaths are
handled when `watched` says they are observed; the service dies and takes all of
its state with it.

### PlugEvents

The driver reports in order (`events`); one thread of the service changes the
three lists it keeps (`service`: SensorHdiConnection's, `sensors_`, `sensorMap_`),
then tells the registered clients one after the other (`event.todo`), waiting for
each. A client changes its list and its agent's copy and turns off at the
service what it had subscribed. In between, user threads list, subscribe,
activate and deactivate, and GetDeviceSensors changes the service's lists again
by listing a device. `missed` and `excused` record the windows the code leaves
open (section 4).

### ShakeControl

The manager keeps a copy of the privacy manager's policies of the user it takes
for the active one. `sa` is OnAddSystemAbility, `doing` what is left of the
common event being handled, `jobs` the callbacks of the privacy manager, each a
query and a storing step, because the list is asked for without the lock and
labelled with the user that is current when it is stored. `news` are the values
the parameter watcher still has to report. `channel[a]` is the user that a's
channel was made for.

### ClientAgent

`subscribed` and `unsubscribed` are the maps of SensorAgentProxy, `info` is
`sensorInfoMap_`, `server` says whether `sensorServer_` is null, a proxy of the
running service or of a dead one, `service` is what the running service keeps of
this process, and `open`, `created`, `known` are the socket pair,
`isChannelCreated_` and the client's `dataChannel_`. ProcessDeathObserver is one
step for each section between its locks, on several binder threads, and one for
each mutex it takes with `channelMutex_` in its hands (the stages "restore" to
"transfer"). A call of the application is one step, unless it has to wait for that
`channelMutex_`: then it waits with a mutex in its own hands (`creating`, in
SubscribeSensor, and `unregistering`, in Unregister), and the observer cannot get
past that mutex. `Deadlocked` names the two circles this can close (section 4). A
call that meets a dead proxy fails; a living service may refuse a call, at most
MaxErrors times. DeactivateSensor may find the sensor gone from the list
(sensor_agent_proxy.cpp:227) and then disables nothing; the other calls' early returns for
a sensor that is not valid change nothing. Not modelled: a registration for active
information sets `dataChannel_` too (sensor_service_client.cpp:651; see
`ClientLocks`), and RestoreSensorDataChannel always succeeds.

### ClientLocks

A thread is what it has still to do: take and release mutexes, call the service,
and choose its next branch by the state. Everything else the functions do is left
to `ClientAgent` and `ActiveInfo`. The callbacks of the channel run on the event
runner's thread with no mutex in hand; HandleSensorData takes `subscribeMutex_`
for a moment. Register keeps the agent's channel in `dataChannel_`, as
TransferDataChannel does, so that the observer restores it.

### The bindings

`BindingTables` has what the three share: tables from a sensor to callbacks, one
SensorUser at the agent, and a call as a sequence of short steps, each under one
of the table's mutexes or in one call of the agent. `JsSensors` is JavaScript
with its three tables (on, once, system) and environments that are torn down;
`EtsSensors` is ArkTS, whose tables are keyed by the sensor's type and whose
callbacks run under the tables' mutexes; `CjSensors` is Cangjie, with one
callback per sensor. A subscription is three calls of the agent (SubscribeSensor,
SetBatch, ActivateSensor) and can stop halfway: a negative interval is refused by
SetBatch (sensor_agent_proxy.cpp:252) when the user is subscribed already.
JavaScript and ArkTS return without unsubscribing (sensor_js.cpp:242-257); Cangjie
calls UnsubscribeSensor (cj_sensor_impl.cpp:60), but the agent refuses it for a user
that was not deactivated before (sensor_agent_proxy.cpp:318-321). So the user stays
subscribed in all three, until the next successful subscription or off; `stray` has
these sensors. The tables have one key per sensor: once and on are taken to mean the
same device, which holds when the id of the local device is the default one
(sensor_js.cpp:412-422 uses DEFAULT_DEVICE_ID for once, GetLocationDeviceId for on).
`EtsResponses` is a definition without a state: that the table of names, the table
of conversions and the functions that register callbacks agree for every type of
sensor; `MCBindings` assumes it (`ResponsesMatch`, which TLC evaluates), and
EtsResponds proves it. `SensorLists` is
how all three answer a question for sensors, reading the agent's own array while
a plug event changes it. `StatusEvents` is a status change on its way to a
callback. `lang`, chosen at the start, says which binding the process uses.
`Bindings` composes them; what shares no state is not interleaved (`Touched`),
and what follows an overlap of calls on one key, a failed call or a changed array
is not explored, because every property excepts it.

### PeakFinder and VibrationConvert

A recording is a sequence of small whole magnitudes; ratios of the code are
comparisons in hundredths. The loops are folds (`Loop`) or, where the order of the turns
does not matter, sets in order (`InOrder`, `Entries`), but for the loop that deletes
secondary peaks (`FilterSecondaryPeak`), whose turns are steps because it erases
the entries it counts in. Onsets and loudness are any that the rest can be
given: their computation is signal processing. `VibrationConvert` goes from
peaks and onsets to transient events, from frames to continuous ones, and
stores both in one list. It has two lengths of a frame, as the code has: loudness is
measured in hops of ENERGY_HOP_LEN samples (`EnergyHop`, 46.44 ms), frames begin every
FRAME_DURATION (`FrameDuration`, 46 ms). So frames overlap (`FramesAt` a time there may
be two) and the last one ends before the recording (`FramesEnd`). "crashed" is the dereference of the end of an empty
vector (DetectPeak) that the code makes when it finds no peak.

## 3. The runs

| Run | Instance | Distinct states | Depth |
|---|---|---|---|
| `service_core` | 2 processes, 2 sensors, one plugged in later, 4 requests, 1 channel; symmetric in the processes | 88,283 | 15 |
| `service_threads` | 2 threads, 2 processes, 2 periods, 4 handlers | 240,821 | 36 |
| `hdi_recovery` | 2 sensors, 2 rates, 2 observers, 2 retries, 2 crashes, 1 error | 1,474,378 | 33 |
| `event_ring` | 3 events, 4 slots | 60,172 | 13 |
| `dispatch` | 2 processes, 2 sensors, 3 rates, one of them zero, 2 symmetric clients, 4 events, 5 calls, 1 failed send | 6,634,138 | 26 |
| `active_info` | 2 symmetric clients, packets of 3 cells, a buffer of 3, sockets of 2, 2 sockets, 2 reports, 1 death of the service, 1 error | 3,705,633 | 46 |
| `plug` | 2 symmetric sensors, 2 devices, 2 symmetric clients, 2 plug events | 3,686,904 | 49 |
| `shake` | 2 users, 1 application, 1 switch, 2 changes, 1 failure, 2 callbacks at a time | 6,416,537 | 34 |
| `client_agent` | 2 sensors, 2 users, 1 rate, 2 observers, 2 deaths, 1 error | 1,288,927 | 36 |
| `bindings` | 3 languages, 2 environments with a function each, 2 sensors, 1 error; 3 listed sensors on 2 devices | 1,363,822 | 39 |
| `vibration` | 10,449 recordings of 8 or 11 blocks | 124,973 | 19 |
| `lock_order` | 2 threads, 3 calls, 1 death | (violation) | - |

**service_core.** `Served`: a subscribed process has a sensor that is on, sampled
and reported at least as often as it asked, whatever the others do. `OffWhenIdle`:
a sensor with no subscriber is off, except after a failed call of its last
subscriber or a destroyed channel. `StillAsked`: no subscription and no saved
entry outlives the process's giving the sensor up. `Resumable`: what was saved
passes the checks of a resumption unchanged, but for a period of zero of a sensor
that SensorManager does not know. `OneProcess`: a step subscribes or
unsubscribes one process only. `ResumeRestores`: a resumption that ends restores
every saved sensor. *Bounds:* rates are aggregated by a minimum, for which two
subscribers suffice; one channel makes the table full with two processes; the
four requests are, for the sensor that was there at the start, one whose period is
raised to the least one and whose delay is cut to the FIFO, and one for each of the three
ways to be refused (zero, too long a delay, overflow of the product, with NoLimit = 9 for
INT64_MAX); for the sensor that was plugged in later the period of zero is stored.

**service_threads.** `Isolated`: handlers that the locks keep apart have the
effect of one at a time. `DeadAreGone`: nothing of a process is left once its
death was handled, unless handlers raced. `AllReturn`: every handler returns,
with deadlock checked: the nesting of `pidSensorInfoMutex_` in `serviceLock_`
is safe. *Bounds:* two threads make every pairwise overlap; four handlers allow a
subscription, a suspension, and two that race.

**hdi_recovery.** `Restored`: with the proxy of a running driver and no
reconnection under way, every sensor the service believes on is on, at the rate
set last, and `isRegisterDataCallBack_` is about the process there is.
`NoGhost`: none is on that was turned off (a Disable over the time limit
excepted). `NoLiveProxyLost`: a late death notification does not discard a proxy
in use. The exceptions are history variables (`excused`, `unset`, `gaveUp`), so
a property is weakened only for the sensor and time concerned: refused by the
driver, configured but not yet enabled when the process died, given up by
Reconnect. `Recovers`: a death is followed by recovery, by exhausted retries, by
the sensor being turned off, or by a refusal, or a process had died before it was
watched (`unnoticed`). *Bounds:* two crashes let a second
death arrive at any step of the first recovery; two rates tell the last from an
earlier one; two retries distinguish the last. (Two errors, without `Recovers`,
gave the same result.)

**event_ring.** `Consistent`, `WokenForEvents`, and `IsQueue`, the refinement of
`EventQueue`. `Drained`: pending events are always processed. *Bounds:* four
slots wrap at every position; three events tell order and duplicates apart.

**dispatch.** `InOrder`: a channel gets the events of a sensor in order and none
twice, across failed sends, caches and replaced channels. `NewestKept`: the newest
event that was due was sent after all others or is in the cache. `NotPassedOver`:
a process that asked for every pc-th event is not passed over pc times while the
rates stay, unless pc is zero: then somebody subscribed with a period of zero and
every event of the sensor is dropped (section 4). `FifoBounded`: the FIFO is shorter than what it is sent with, while
that number stays. `BlockedUnsent`: nothing is sent when a living client wanted it
blocked as the filters looked. *Bounds:* the rates are every event with
a FIFO of two, every third, and a period of zero, so a channel can be passed over twice and the FIFO needs three
events; a fourth follows a failed send. Two calls make a process a subscriber;
five let two processes subscribe and one change its rate, or one subscribe,
replace its channel, and be blocked by two clients. The driver falls silent after
MaxEvents, so deadlock is not checked.

**active_info.** `InStep`: packets reach the callbacks whole, once and in order,
until a sender gave up inside one, a burst did not fit into the buffer, or a
connection began with cells of the one before; and when nothing is on its way
the callbacks have had all of them. `Connected`: `isConnected_` is true of the
connection: the service has a session of the process on its socket and reports
to it. `NoLeak`: every session can be found by its process, and a process whose
death was handled has none. Connections of one process that overlapped or failed
half way are excepted. *Bounds:* a header of two cells and a body of one are cut
everywhere by a socket of two; a buffer of exactly one packet is full each time;
two reports make the second meet what is left of the first; the limit of
sessions, one, is reached and exceeded as the code's comparison allows. Bounded
counters run out, so deadlock is not checked.

**plug.** `NoGhost`: once everybody was told, no client lists a sensor that is
gone. `Running`: and a sensor that is plugged in and that somebody has enabled is
on. *Bounds:* two events unplug a sensor and plug it in again, or unplug two; two
devices tell a listing of the same device from one of another.

**shake.** `Followed`: when nothing is on its way, an application's motion events
are held back exactly if the active user's policy closes them and the parameter
does not excuse it. *Bounds:* one switch of users and two changes let a fetch be
overtaken, and a parameter be set twice while it is first read and watched. The run
starts with every combination of policies and parameter. (Two switches with one
change, about 13 million states, gave the same result.)

**client_agent.** `Mirrored`: while connected, with no reconnection under way,
the service has enabled exactly what `sensorInfoMap_` says, and there is a
channel as long as any sensor has users. `NoGhost`: the service drives nothing
for a process without users of it. `Reenabled`: an enabled sensor is enabled again
after a death, is disabled, a call for it failed, the reconnection gave up, or the
observer is in one of its two deadlocks; no other order of calls stops it. *Bounds:*
two deaths and two observers overlap two reconnections; two users tell the last from the
others, two sensors an empty map from an empty entry. There is one rate, so TLC
tells enabled from not enabled only; the theorems about `Mirrored` and `NoGhost` are
for any rates. (Without `Reenabled`, two rates gave the same result on 5 million
states; and `Reenabled` did with one user, two rates and two errors.)

**bindings.** `Reaches`: whoever is in the on table or the system table is
reached, because the sensor is subscribed and enabled (who is in the once table need
not be: section 4); a plug callback has the agent's. `NothingLeft`: a sensor with no
callback is not enabled, and not subscribed unless a subscription stopped halfway. `Settled`: a call that
answers later is answered. `Found`: a question for sensors is answered with all
of the wanted ones that were there all along, and none that never was. `Heard`:
when nothing waits, a function's picture of the sensors is right, and it has
heard every data event. *Exceptions:* keys at which calls overlapped or failed,
arrays that changed under their reader, and status events overwritten by another
sensor's (section 4). *Bounds:* two environments with one function each overlap
any two calls with the data thread; a local sensor and another device's; the
listed sensors are the local device's own, a hidden one, and one of the same type
elsewhere, in arrays of different orders. The one error is a call that the service
refuses or a subscription that stops halfway.

**vibration.** `StretchKept`: deleting secondary peaks leaves each stretch a peak
at least as high as each that was there, in a recording that begins and ends quietly.
*Exception:* a peak that drops by exactly 30 % (section 4). `EveryPeakHeard`: a recording without
continuous events becomes transient ones in the order of time, and each onset and
peak in the list of both is heard in a frame of its own time, unless it lies after the
end of the last frame. `Ends`: the deletion ends by itself; LOOP_TIMES_MAX, which would
end it in the code, is not in the model.
*Bounds:* eight blocks of three amplitudes are every shape of up to four peaks;
eleven blocks that alternate peaks and valleys of several heights have five, of
which neighbours are deleted in every order.

**lock_order.** `ClientMutexesOrdered`, that no threads wait in a circle for
`clientMutex_` and `channelMutex_`, which fails: see section 4. *Bounds:* two
application threads, the observer and the event thread make circles of up to four;
three calls make a channel, register and have one more call under way at a death.

### Fairness

- `EventRing`: weak fairness of ProcessEvents. The data thread loops over a
  condition variable that is notified under its lock.
- `ServiceThreads`: weak fairness of each thread's next step. A mutex a thread
  waits for is taken by others at most MaxCalls times, so weak fairness gives it.
- `HdiConnection`: weak fairness of each binder thread that delivers a death.
  `ClientAgent`: as long as one has work and the mutexes for it, one of them runs. They
  need not ever have them: the two deadlocks that keep them are in the model and named
  in `Reenabled`. Nothing is assumed of the driver, the service or the
  application: none of them need come back, call or answer well, and the liveness
  properties name these outcomes.
- `VibrationConvert`: weak fairness of a turn of the loop. One thread converts and
  nothing it does waits.

## 4. Disagreements and weaknesses met while modelling

**The order of the client's mutexes** (run `lock_order`).
Unregister holds `clientMutex_` and takes `channelMutex_` in Disconnect
(sensor_service_client.cpp:693, 777); ProcessDeathObserver holds
`channelMutex_` and takes `clientMutex_` (518, 522, 537). And
CreateSensorDataChannel holds `chanelMutex_` (sensor_agent_proxy.cpp:106) and takes
`channelMutex_` in TransferDataChannel (sensor_service_client.cpp:311, called at
sensor_agent_proxy.cpp:125), while ProcessDeathObserver, which holds
`channelMutex_` (518), takes `chanelMutex_` in SetIsChannelCreated (534, 543;
sensor_agent_proxy.cpp:99). `ClientAgent` has both circles
(`Deadlocked`); either way the process keeps no sensors after the death of the
service. docs/constraints.md:99 forbids them: "多锁场景必须保证全局统一的加锁顺序，禁止反向获取" (one global order
of locks, never the opposite).

What follows has no run of its own. Each was a counterexample of TLC to a
stronger property, or was met while translating; the properties of section 3
except exactly these cases.

*Service and driver*
- A second suspension of a suspended process saves into a copy of the map
  (sensor_power_policy.cpp:51): the configuration that
  docs/architecture/data-flow.md:67 says is saved is lost.
- Suspend tests for other clients and erases the sensor's subscriptions under
  another lock than EnableSensor (sensor_power_policy.cpp:81,
  sensor_manager.cpp:171); a client that subscribes in between is erased, against
  the log at sensor_power_policy.cpp:82.
- After the retries are used up, a later call connects without ReEnableSensor
  (hdi_connection.cpp:532), against docs/constraints.md:29.
- The driver may die between ISensorInterface::Get and AddDeathRecipient
  (hdi_connection.cpp:73, 85, 462). When nobody is told, the proxy of the dead process
  stays and every call fails until the service restarts.
- A Disable over its time limit is reported as success
  (sensor_hdi_connection.cpp:353): the sensor may be on for nobody.
- A period of zero passes the checks (sensor_agent_proxy.cpp:165, 252;
  sensor_service.cpp:608) and is stored for a sensor plugged in after the start, which
  SensorManager does not know (sensor_manager.cpp:127-133). ComputeBestPeriodCount
  then returns 0 (client_info.cpp:426) and every event of the sensor is dropped, the
  other subscribers' too, as long as it is subscribed. A suspended process
  with such an entry is never resumed completely: Resume refuses the period
  (sensor_power_policy.cpp:135).
- DisableSensor deletes the saved entry before it looks at the subscriptions
  (sensor_service.cpp:737), and SuspendSensors takes another lock: an entry saved in
  between is resumed although the process gave the sensor up.
- The blocks of a client without a channel outlive it (sensor_service.cpp:963),
  against the comment at line 969.
- RemoveSubscriber leaves an empty entry, which IsSubscribe takes for a
  subscription (client_info.cpp:277).
- DestroyHdiConnection unregisters the death recipient with whatever proxy there
  is; a death at shutdown reconnects a stopping service (hdi_connection.cpp:360).
- Counts and FIFOs may belong to a channel that was replaced since the event's
  channels were looked up (sensor_data_processer.cpp:103); `Dispatch` starts them afresh.

*Active information*
- isReportActiveInfo_ is one flag: the first client to disable its callback ends
  the reports to all (sensor_service.cpp:1158).
- GetActiveInfoList keeps one element beyond its limit (line 1098); the limit of
  sessions is off by one (stream_server.cpp:147).
- A sender that gives up inside a packet leaves the stream out of step, and one that
  succeeds with the last attempt reports failure (stream_session.cpp:60, 70).
- A burst beyond the buffer is dropped (stream_socket.cpp); callbacks run under
  `activeInfoCBMutex_`; two Register calls at once open two sockets;
  isConnected_ stays set after a failed reconnection.
- GetPidByTokenId and UpdatePermState find only the first process of a token.

*Client*
- The last unsubscription during a reconnection closes the new socket pair and
  leaves `isChannelCreated_` set (sensor_agent_proxy.cpp:151), against
  docs/architecture/data-flow.md:60.
- The sampling interval is one per process (sensor_agent_proxy.cpp:266), against
  interfaces/inner_api/sensor_agent.h:87.

*Plug events*
- A DeactivateSensor between the unplugging and its handling fails: the agent
  forgets the sensor, the service keeps the subscription
  (sensor_agent_proxy.cpp:225, sensor_service.cpp:745) and takes the sensor for on
  when it is plugged in again (line 641). The same after a refused activation
  (sensor_agent_proxy.cpp:188).
- Events between InitSensorList and InitPlugCallback, and between a client's
  GetSensorList and its registration, are missed (sensor_service_client.cpp:61).
- A HDI Disable that fails keeps the entry of g_sensorBasicInfoMap
  (hdi_connection.cpp:237).
- A changed set of sensors of equal number leaves the agent's array as it was
  (sensor_agent_proxy.cpp:399); EraseCacheSensorList answers false for an empty
  list, which suppresses the plug callbacks; UpdateSensorInfosCache leaks the old
  array and frees with free() what new[] made.

*Shake control*
- The ignore list is read and watched only by OnReceiveBootEvent: a service
  restarted after the boot never has it (sensor_service.cpp:173). An empty value
  of the parameter is refused, so a list cannot be cleared
  (sensor_shake_control_manager.cpp:66).
- The boot or the switch may happen between the reading of the parameter and the
  subscription to the event.
- A channel keeps the user it was made for; after a switch no entry matches its
  application until it is made again. TransferDataChannel may set the current
  user before the observer of the former one is removed.
- INVALID_USERID, 100, may be a real user.

*Bindings*
- A torn-down JavaScript environment leaves its plug callbacks and empty vectors
  (sensor_js.cpp:288), against docs/constraints.md:38: the sensor stays subscribed.
- A subscription that stops halfway leaves the user subscribed: JavaScript and ArkTS do
  not unsubscribe it (sensor_js.cpp:242-257), and the agent refuses Cangjie's attempt
  (cj_sensor_impl.cpp:60, sensor_agent_proxy.cpp:318-321).
- Off turns the sensor off with once callbacks pending
  (sensor_js.cpp:892-896), which then wait for ever; once and on name the device
  differently (line 412).
- A call whose work cannot be created or queued is not answered
  (sensor_napi_utils.cpp:556-561, 676-681).
- The system interface's unsubscribe edits a
  copy; operator[] makes erased keys again; the data of SUBSCRIBE_COMPASS is
  never filled.
- One status event per JavaScript callback is overwritten by the next one
  (sensor_js.cpp:203); ArkTS's sensorIndex is always 0, and status changes are not
  subscribed at the agent.
- A once callback of ArkTS whose event is too short is taken away and not called.
  ArkTS's Off never cancels another device's sensor; its callbacks run under
  g_onMutex, against docs/constraints.md:98. A failed GetInterval is taken for 200 ms.
- Cangjie's Off keeps the callback when the service refuses.
- JavaScript's getSingleSensor goes on with the default device when the first
  GetAllSensors fails; ArkTS's takes any device's sensor and hidden ones;
  getSensorListByDeviceSync reads an argument that was not given.
- GetAllSensors hands out the agent's array, which EraseCacheSensorInfos shifts and
  ConvertSensorInfos frees; it has other devices' sensors too, against
  docs/api/native-api.md:11 ("不跨设备", not across devices).

*Vibration conversion*
- There is no build file for it and no application calls it (see
  docs/constraints.md:67, docs/features/vibration-convert.md:5), and
  VibrationConvertCore does not compile as it stands; what is modelled is what the
  text says.
- DetectPeak dereferences max_element of an empty vector; GetDeleteFlagOfPeak reads
  beside the ends of the array; GetVoiceFlag keeps magnitudes in whole numbers.
- A peak that drops by exactly 30 % on one side is neither deleted nor a reason to
  delete (peak_finder.cpp:363-376), so that the highest peak of a stretch may go: of the
  heights 0, 10, 7, 10, 9, 12, 9, 10, 0 the 12 is deleted and a 10 stays.
- Frames begin every 46 ms and the hops they stand for every 46.44 ms
  (vibration_convert_core.cpp:844-854, 887-894): the windows fall behind by 0.44 ms a
  frame, and an onset or peak after the last one is left out, after five seconds a
  whole frame's.
- EmplaceOnsetTime loses every peak when a recording has continuous sounds and no
  onsets (line 505); a sound that lasts to
  the end is not continuous; the last frame of continuous events is never output
  and frames may overlap; StoreEventSequence drops the transient events after the last
  continuous one; the vectors of events are never cleared between conversions;
  InsertTransientEvent fails when two peaks share a frame.

## 5. What is proved

**`SensorService_proofs`**, from `RequestsAssumption`, `SensorsAssumption`,
`LimitsAssumption` and `NoInfoAssumption`, for any processes, sensors,
requests and limits: `TypeCorrect`, `AlwaysServed`, `AlwaysOffWhenIdle`,
`AlwaysStillAsked` and `AlwaysOneProcess`. The inductive invariant is

    IInv == TypeOK /\ Served /\ OffWhenIdle /\ StillAsked

`Served` and `OffWhenIdle` say the same of every slice (`Good`), so the argument
goes slice by slice: SubscribeKeeps, LeaveKeeps, StopKeeps and DropKeeps show
that the four ways in which a handler changes a slice keep it good and change
nobody else's subscription. They rest on BestIsBest, that GetBestSensorInfo is no
slower than any subscriber, hence on MinOfNats (in `LeastOfNats`, which most
of the other proofs use too), that a non-empty set of naturals has a least member
(segments 0 .. n are finite, and inclusion of finite sets is well founded). NextReg lifts the slices to actions (RegStep), NextType and
NextAsked give the remaining conjuncts. `StillAsked` needs no strengthening: a
resumption subscribes only from saved entries, which the invariant itself covers.

**`HdiConnection_proofs`**, from `HdiAssumption`, for any sensors, rates, binder
threads, retries, crashes and errors: `AlwaysRestored`, `AlwaysNoGhost` and
`AlwaysNoLiveProxyLost`. None of them is inductive; the invariant has five parts:

- `Link`: the proxy, the death on its way and the callback go together. A stale
  proxy has one notification outstanding, or none when its process died
  `unnoticed`, and any other has none: this alone gives `AlwaysNoLiveProxyLost`.
- `Noted(s)`: the map says what the service believes, but for a Disable that timed
  out. `Driver(s)`: the driver drives nothing else, and still knows the rate of a
  sensor that is configured but not enabled.
- `Loop`: what ReEnableSensor still has to do stays enabled, and somebody holds
  the mutex while there is any.
- `Recovery`: unless Reconnect gave up, without a proxy some thread is at
  ConnectHdi, and with one a thread is on its way to the loop or what the loop is
  done with is `Driven`. That someone stays on the way is the heart of it: a
  connection made by a call of the service, or by another thread's GetSensorList,
  finds the thread that saw the death still connecting.

One lemma per action shows the invariant kept; GetHdiKeeps and ConnectingKeeps
serve the three places that call GetHdiInterface.

The same module has the circular buffer between the driver and the data thread, from
`RingAssumption`, for every capacity: `RingTypeCorrect`, `AlwaysConsistent`,
`AlwaysWoken` and `RingImplements`, that the buffer implements `EventQueue`. The
inductive invariant is `RingTypeOK /\ Consistent /\ WokenForEvents`: without
`Consistent` a report into a full buffer need not overwrite the oldest event, and
without `WokenForEvents` a ProcessEvents on an empty buffer would not be a step of
the queue.

**`Dispatch_proofs`**, from `RatesAssumption` (periods and delays are naturals, a
period of zero included), for any processes, sensors, rates, failures
and calls: every property of the `dispatch` run. What is sent is decided in one
slot, so the argument is about slots first. `Good(sl, n)` strengthens the four
invariants to what the operators keep:

- `Ordered`: what waits in the cache comes after all that was sent, and both come
  before event n. Without it sending the cached event again could break `InOrder`.
- `Newest` is `NewestKept` itself.
- `Counted`: no more events were passed over than the count is past a multiple of
  the rate, when that is not zero. The count is not reset when a rate changes, so `NotPassedOver` alone is
  not kept.
- `Short`: a FIFO that was never used is empty.

One lemma per function (SendRawDataKeeps, CacheSensorEventKeeps,
SendNoneFifoCacheDataKeeps, SendFifoCacheDataKeeps) takes Good(sl, e) to
Good(sl', e + 1); Counts shows that the period count is zero only when the best
period was read before a change or is zero itself, and then Dropped counts nobody as
passed over. `Inv` says that the
slot of (p, s) is good up to the next event of s, and up to the event at hand while
p is still to be given it. `AlwaysBlockedUnsent` adds `BlockInv`, that what living
clients want blocked is blocked, and `Judged`, that whoever is being given the event
passed the filters.

**`ServiceThreads_proofs`**, from `PeriodsAssumption`, for any threads, processes,
periods and calls: `AlwaysTyped`, `AlwaysIsolated` and `AlwaysDeadAreGone`. The
invariant has a part that holds whatever overlaps,

- `Shape`: types; every handler is at a label of its own path (`Ways`), holds the
  lock of its kind exactly while it is between the lock and its release
  (`Holders`), and what it subscribes with is there until it has (`Wants`: the
  entry ResumeSensors works on stays while pidSensorInfoMutex_ is held);

and a part that holds until two kinds overlap, `~raced => Safe`:

- `Apart`: those that run are of one kind, so that one lock keeps them all apart
  (OneInside), and a death is alone with its process;
- `Rests`: with nobody inside, the subscriptions are `Served`. `Isolated` says it
  only when no handler runs, which no step of a second thread would keep;
- `Stage(t)`: what thread t relies on at each label, between the steps where
  `Served` is broken: the best period read is below every subscriber's, the last
  subscriber is still the last when the driver is turned off, and so on;
- `Buried`, `Dying` and `Gone`: a death still under way, or nothing left; nobody
  else who could subscribe a dead process or save an entry of it gets past its
  lock.

ShapeStep and SafeStep say once what a step of t does for all other threads; March
and Enter do the same for the steps inside a lock and into it, so that the lemma of
an action shows only what the next label of t needs.

**`ClientAgent_proofs`**, from `ClientAssumption` (finitely many
sensors: the calls refused in one loop over sensorInfoMap_ are counted), for any
sensors, users, intervals, binder threads, deaths and errors: `AlwaysMirrored` and
`AlwaysNoGhost`. `Link` ties a proxy of a dead service to the news of the death and
makes the observers' locked sections exclude each other; `Kept(s)` that a sensor the
service drives is in the map and one in the map has users, or a call for it failed;
`Recovery` that without a proxy somebody is connecting, and that what is not enabled
again is still before some observer; `Channel` that who has users has had a channel
and has it unless a reconnection gave up; `Marked` that an observer that marks the
channel as made has made one. A caller that waits (`creating`, `unregistering`) holds
observers up and changes nothing, so neither property excepts it.
`Mirrored` alone says nothing while anybody recovers, so it is not inductive.

The same module has what else runs in a client's process, the conversion of
recordings: `AlwaysKept`, from `PeakAssumption` and `ConvertAssumption`, for recordings of
any length and any amplitudes and block sizes: FilterSecondaryPeak, which erases the
entries it counts with, never deletes the highest peak of a stretch. The invariant
`ConvertInv` says what the two counters mean at each turn:

- `PeaksInOrder`: the peaks that are left ascend and each has the stretch it would find
  itself. So two neighbours are of one stretch exactly when no sample between them is
  under the threshold (Neighbours, from OneStretch and TwoStretches).
- `Counting`: the loop is in one of three places: counting a stretch from its first
  peak on (`AllOf`), back at the last peak it looked at (`Again`), or one past it, with a
  count of one that includes a peak of another stretch (`OnePast`).
- `Deleting`: what is looked at is a whole stretch, or the last peak of one and the
  first of the next. Both peaks of such a pair have a quiet side.
- `StoodFor`: every peak there was has one at least as high in its stretch.

HigherNeighbour is the heart: the first peak that is flagged has a neighbour in its
stretch that is at least as high. Where both valleys are shallow the flag does not
compare heights at all; it is right because the neighbour before it was passed over,
which it would not have been if it were lower. InOrderSorted shows that the peaks
come in order, EnvelopeType that amplitudes stay amplitudes.

`AlwaysHeard` is about what follows, from the same assumptions, for any onsets
and loudness, and any two frame lengths of which the step is not longer than the hop:
of the onsets and peaks in the list of both, those before the end of the last frame are
heard in a frame of their time. It does not speak of what EmplaceOnsetTime has not put
into the list. `HeardInv` says what each stage leaves for the next: the peaks are samples
of the recording in order (`PeaksHeld`), onsets and peaks are in the order of time and
within the hops whose loudness is measured (`InTime`), and of the transient events one
is in a frame of each that is before the end of the last frame (`Heard`). It rests on one fact about each of three loops:
keeping a distance between peaks leaves them in order (MinRangeGrows); merging peaks
into onsets leaves one in each frame, by frame (MergedByFrame), and as the frame of each
is the one whose boundary is nearest (`Centred`), by frame is by time (ByFrameInTime);
and taking the onsets and peaks one after the other passes over none that has a frame
(ByInsertTimeHears), as all have before the end of the last one (FrameOf). A loop
is a recursive function, and what its turns keep is shown by first-order induction over
its length, from the least of a set of numbers (UpTo): LoopRuns that the
function exists, LoopKeeps what its last value satisfies.

**`ActiveInfo_proofs`**, from `BoundsAssumption` and `StreamAssumption`,
for any clients, sessions, reports, deaths and errors, and for packets, buffers and
sockets of any size: `AlwaysTyped`, `AlwaysConnected`, `AlwaysNoLeak` and
`AlwaysInStep`. `Registry` says that sessions and open
descriptors are the same, that an index entry is a session of its process, and that
the service's end of a socket is open exactly while one descriptor is that end;
`Reachable` is the first half of `NoLeak`. `Thread(c)` is about the two threads of a
process that connect: the observer connects only what was connected, the application
only what was not, and what one has made is open until the service dies.
`Session(c)` says that a session is of a process that is registered or half way to
it, that the service watches whoever has left something with it, and that who is
connected is. FreeFdIsFree shows that the kernel finds a descriptor that is not in use: among
one more numbers than there are descriptors one is free.

`InStep` says what was heard is the beginning of what was sent, which no step
keeps by itself: what matters is what is between the two. `AlwaysStreams` is the
invariant that it needs beside `IInv`:

- `Hears(c)`: what was sent on the client's socket is what it heard followed by
  some packets q, and its buffer with the socket's cells behind it carries exactly q
  (`Carries`: packet i is in the cells from (i - 1) * PacketSize on), then what there
  is of the packet being sent. Reading, parsing and sending each move one of
  these borders. `Waits(c, t)` says it of a socket that nobody listens to yet.
- `Reporting`: what is left of the packet under way is its end, and the socket that
  has its beginning, while the service can send on it, is the current session's.
- `Owners`: sockets belong to one process each, so that nobody else reads from one
  or begins on one in the middle.

As cells and packets correspond, the reader always stands at a header: the number of
cells it parses is a packet's, and there is nothing to prove by induction over
what it parses. The step lemmas (SendAttempt's, Receive's, TakePacket's) rest on facts about
`Carries`: appending a part of a packet, completing it, taking the first one off.

`ActiveInfo_proofs` also has the motion policies: `AlwaysFollowed`, from
`DefaultUserAssumption`, for any users, applications, switches, changes, failures and
callbacks under way. `Followed` speaks of quiet states only; what leads there is
`ShakeInv`, which holds as long as no call outside failed (after that, nothing is
promised until the history says so, and `FailedKeeps` disposes of every such step):

- `Begins`: a booted service has begun to observe, or has the boot event still to
  come, or is just asking whether it is ready.
- `Knows`: who has begun, has no switch of users on its way and nothing to ask any
  more, has the active user for the current one. `Observes`: and observes it, or is
  about to. It is this that makes a change of another user's policy harmless.
- `Fetches`: unless a query is still to be asked, the lists are the active user's
  policies, or a job still has to store the newest answer (`Newest`). An older answer
  stored after it would undo it: that is what "overtaken" says, and `Followed` excepts.
- `Watches`: the ignore list is the parameter, or the newest value reported is.

`Rest` enumerates the lists of steps an event can leave to do; everything else is for
any constants.

**`Bindings_proofs`**, from `TablesAssumption`, `ListsAssumption` and
`StatusAssumption`, for any environments, functions, sensors and devices:
`AlwaysReaches`, `AlwaysNothingLeft`, `AlwaysSettled`, `AlwaysFound` and `AlwaysHeard`.
The invariant is kept even without the run's bounds, by every step of `FreeSpec`
(`BindingsRight`); that what TLC explores is part of it is `BoundedIsFree`.
What a subscription that stopped halfway leaves is in `stray`, which the invariant excepts from
what is subscribed and never from what is enabled. The invariant has a part for each of the three that `Bindings` composes:

- `TablesInv`: `TablesShape`; `Placed` and `Agrees`, that unless calls overlapped or
  failed at a key, what is in the tables and what the agent has subscribed and enabled
  differ by just what the call under way has still to do; `Plugged`, the same of plug
  callbacks; `Answering`, that a call that answers later has its answer under way.
- `ListsInv`: a question has read the entries before its index rightly, unless the
  array changed under it: which of the wanted sensors it has found is `Going`, or
  `Passed` once it is over.
- `StatusInv`: status events wait in the order they happened, and a function has been
  told of the last one that was taken out.

That every ArkTS function can take what its sensor's events become (EtsResponds)
is a matter of the tables in `EtsResponses` and is shown type by type; no invariant
depends on it. RemoveFirst, which the tables erase with, is the removal at the least
index (`MinOfNats` again).

`SensorService_proofs` has the plug events too, with no assumption on the constants:
`AlwaysNoGhost` and `AlwaysRunning`, for any clients, sensors, devices and reports. The
invariant `PlugInv` follows the report of a sensor that went through its stages (in the
driver's queue, in the service's lists, told to some of the clients):

- `Members`: whom the service tells is registered. `Holding`: who is between the two
  halves of GetDeviceSensors has the copy it asked for.
- `Copies`: an agent's copy has nothing that the client's list lacks, but a sensor that is
  just being erased.
- `Ghosts`: where a sensor that is gone may still be known, at each stage of its report.
- `Agreed`: who counts as a subscriber is registered and subscribes itself.
- `Stale`: a sensor whose going is being told is no longer in sensorMap_, and its
  subscribers are still to be told.
- `Off`: a subscribed sensor that is off has its going ahead of it or in hand.

Hears and Learns are the two ways in which a list is replaced while a report is on its
way.

`SensorService_proofs` has two more results, on suspension. `AlwaysResumeRestores` needs
no more than `IInv` and `Recalled`, that what is saved was stored (its period and
delay are what GetSensorInfo made of a request, or the request itself for a sensor
SensorManager does not know). `AlwaysResumable` has a hypothesis:
the queue of no sensor, at its least period, spans more than `NoLimit` nanoseconds
(292 years). It is needed: GetSensorInfo raises a period to the least one after
CheckParameter's overflow check, so that with `FifoMax * MinPeriod > NoLimit` the
entry that Suspend saves is refused by Resume's own check. With MinPeriod 50,
FifoMax 3 and NoLimit 100 TLC finds such a state.

### Only model-checked

Every safety and action property of a passing run, and the refinement, has its theorem
above. What is left to TLC:

- `ClientLocks`, whose run shows a violation.
- Every liveness property (`AllReturn`, `Reenabled`, `Drained`, `Recovers`, `Ends`):
  fairness needs ENABLED, which the prover does not do.

## 6. What is not modelled, and why

- Start-up (the first ConnectHdi, publishing the service) and shutdown
  (DestroyHdiConnection): they happen once, before and after the rest.
- The memory manager's flag (MEMMGR_ENABLE) and the mock driver of ENG builds
  (CompatibleConnection, HdiServiceImpl): conditional builds.
- Permissions, settings, dump, logging and marshalling (SensorDataManager,
  SensorDump, PrintSensorData, the value types, the C API): calls of other systems
  and text, with no state that the properties are about.
- FlushInfoRecord: nothing in src/ flushes through it any more.
- Sensor algorithms, spectral analysis, filters and onset detection:
  floating-point numerics.
- Lock-level interleavings inside one call of the client other than those of
  `ClientLocks`, `ActiveInfo` and `PlugEvents`: elsewhere a call is one step.

## 7. Plan

1. **Descriptors**: SendData's retries, the dup and close of both ends of the
   socket pair, and the fd-sanitizer's tags.
2. **Composition**: the client's reconnection (`ClientAgent`) with the service's
   handlers (`SensorService`) in place of the record of this process.
