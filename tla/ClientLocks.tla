----------------------------- MODULE ClientLocks ------------------------------
(* The mutexes of a client process, and the order in which its threads take     *)
(* them: SensorServiceClient, SensorAgentProxy and SensorDataChannel. A thread  *)
(* is what it has still to do: take and release mutexes, call the service, and  *)
(* decide by the state which of its branches to do next. Everything else these  *)
(* functions do is in ClientAgent and ActiveInfo.                               *)
EXTENDS Integers, Sequences, FiniteSets

CONSTANTS
    Callers,        \* the application's threads
    MaxCalls,       \* bound: calls of the application
    MaxDeaths       \* bound: deaths of the service

Mutexes == {"clientMutex", "channelMutex", "chanelMutex", "createChannelMutex",
            "subscribeMutex", "eventRunnerMutex", "activeInfoCBMutex", "mapMutex"}
Observer == "observer"
EventRunner == "eventRunner"
Threads == Callers \cup {Observer, EventRunner}
Free == "free"

VARIABLES
    todo,       \* what each thread has still to do
    holder,     \* the thread that holds each mutex, or Free
    created,    \* isChannelCreated_
    known,      \* dataChannel_ # nullptr in SensorServiceClient
    connected,  \* isConnected_, with a socket
    stale,      \* sensorServer_ is a proxy of a dead service
    calls, deaths

vars == <<todo, holder, created, known, connected, stale, calls, deaths>>

Init ==
    /\ todo = [t \in Threads |-> <<>>]
    /\ holder = [m \in Mutexes |-> Free]
    /\ created = FALSE /\ known = FALSE /\ connected = FALSE /\ stale = FALSE
    /\ calls = 0 /\ deaths = 0

-----------------------------------------------------------------------------
(* What a thread does: steps with a mutex, and decisions.                       *)
Take(m) == [do |-> "take", mutex |-> m]
Release(m) == [do |-> "release", mutex |-> m]
Decide(d) == [do |-> d, mutex |-> Free]
Under(m, steps) == <<Take(m)>> \o steps \o <<Release(m)>>
Brief(m) == Under(m, <<>>)

(* InitServiceClient, which every call begins with, and a call of the service.  *)
InitServiceClient == Brief("clientMutex")
Call(d) == InitServiceClient \o Under("clientMutex", <<Decide(d)>>)
IsValid == InitServiceClient \o Brief("clientMutex")

(* SensorAgentProxy.                                                            *)
SubscribeSensor ==
    IsValid \o Under("createChannelMutex",
                   Under("chanelMutex", <<Decide("createChannel")>>)
                   \o Brief("subscribeMutex"))
ActivateSensor == IsValid \o Under("subscribeMutex", InitServiceClient
                              \o Under("clientMutex", Brief("mapMutex")))
DeactivateSensor == Under("subscribeMutex", IsValid \o InitServiceClient
                              \o Under("clientMutex", Brief("mapMutex")))
UnsubscribeSensor ==
    Under("subscribeMutex", IsValid)
    \o Under("createChannelMutex",
           Brief("subscribeMutex") \o Under("chanelMutex", <<Decide("destroyChannel")>>))

(* CreateSensorDataChannel below its test, and DestroySensorDataChannel.        *)
CreateSensorDataChannel ==
    Brief("eventRunnerMutex") \o Under("channelMutex", <<Decide("known")>>)
    \o Call("transferred")
DestroySensorDataChannel == Brief("eventRunnerMutex") \o Call("destroyed")

(* SensorServiceClient: active information.                                     *)
Disconnect == Under("channelMutex", Brief("eventRunnerMutex"))
CreateSocketChannel ==
    Call("nothing") \o Under("channelMutex", Brief("eventRunnerMutex"))
    \o Under("clientMutex", <<Decide("connected")>>) \o <<Decide("enabled")>>
Register ==
    Under("channelMutex", <<Decide("known")>>) \o CreateSocketChannel
    \o Brief("activeInfoCBMutex")
Unregister ==
    Brief("activeInfoCBMutex") \o InitServiceClient
    \o Under("clientMutex", <<Decide("disabled")>>)

(* ProcessDeathObserver, then ReenableSensor. A data channel that is restored is *)
(* marked as made, and closed and marked so again when there is no proxy.       *)
ReenableSensor == Under("clientMutex", Brief("mapMutex")) \o <<Decide("reconnect")>>
ProcessDeathObserver == Under("channelMutex", <<Decide("restore")>>) \o ReenableSensor
RestoreDataChannel == Brief("eventRunnerMutex") \o Brief("eventRunnerMutex")
SetIsChannelCreated(d) == Under("chanelMutex", <<Decide(d)>>)
RenewProxy ==
    Under("clientMutex", <<Decide("renew")>>) \o InitServiceClient \o <<Decide("proxy")>>
TransferDataChannel == Brief("clientMutex")
CloseDataChannel ==
    Brief("eventRunnerMutex") \o SetIsChannelCreated("closed") \o <<Decide("giveUp")>>

(* The event thread: sensor events, packets of active information, and the end  *)
(* of the socket. It comes with no mutex in its hands.                          *)
HandleSensorData == Brief("subscribeMutex")
ReceiveMessage == Brief("activeInfoCBMutex")
OnShutdown == Disconnect

-----------------------------------------------------------------------------
Begin(t, steps) == todo' = [todo EXCEPT ![t] = steps]

Application(t) ==
    /\ todo[t] = <<>>
    /\ calls < MaxCalls
    /\ calls' = calls + 1
    /\ \/ Begin(t, SubscribeSensor) \/ Begin(t, ActivateSensor)
       \/ Begin(t, DeactivateSensor) \/ Begin(t, UnsubscribeSensor)
       \/ ~connected /\ Begin(t, Register)
       \/ connected /\ Begin(t, Unregister)
    /\ UNCHANGED <<holder, created, known, connected, stale, deaths>>

Events ==
    /\ todo[EventRunner] = <<>>
    /\ \/ created /\ Begin(EventRunner, HandleSensorData)
       \/ connected /\ Begin(EventRunner, ReceiveMessage)
       \/ connected /\ Begin(EventRunner, OnShutdown)
    /\ UNCHANGED <<holder, created, known, connected, stale, calls, deaths>>

(* The service dies; the death notification is delivered on a binder thread.    *)
ServiceDies ==
    /\ todo[Observer] = <<>>
    /\ deaths < MaxDeaths
    /\ deaths' = deaths + 1
    /\ stale' = TRUE
    /\ Begin(Observer, ProcessDeathObserver)
    /\ UNCHANGED <<holder, created, known, connected, calls>>

Lock(t) ==
    /\ todo[t] # <<>>
    /\ Head(todo[t]).do = "take"
    /\ holder[Head(todo[t]).mutex] = Free
    /\ holder' = [holder EXCEPT ![Head(todo[t]).mutex] = t]
    /\ Begin(t, Tail(todo[t]))
    /\ UNCHANGED <<created, known, connected, stale, calls, deaths>>

Unlock(t) ==
    /\ todo[t] # <<>>
    /\ Head(todo[t]).do = "release"
    /\ holder' = [holder EXCEPT ![Head(todo[t]).mutex] = Free]
    /\ Begin(t, Tail(todo[t]))
    /\ UNCHANGED <<created, known, connected, stale, calls, deaths>>

(* The branches a decision can lead to. A call of a dead service fails; the     *)
(* channel may not be restored, and the service not be found or loaded.         *)
Branches(d) ==
    CASE d = "createChannel"  -> {IF created THEN <<>> ELSE CreateSensorDataChannel}
      [] d = "destroyChannel" -> {IF created THEN DestroySensorDataChannel ELSE <<>>}
      [] d = "restore"        ->
            IF known THEN {RestoreDataChannel \o RenewProxy,
                           RestoreDataChannel \o SetIsChannelCreated("restored") \o RenewProxy}
            ELSE {RenewProxy}
      [] d = "proxy"          ->
            IF known THEN {TransferDataChannel, CloseDataChannel} ELSE {<<>>, <<Decide("giveUp")>>}
      [] d = "reconnect"      -> {IF connected THEN Disconnect \o CreateSocketChannel ELSE <<>>}
      [] d = "enabled"        -> {IF connected THEN <<>> ELSE Disconnect}
      [] d = "disabled"       -> {IF stale \/ ~connected THEN <<>> ELSE Disconnect}
      [] OTHER                -> {<<>>}

(* What a thread does after a decision, and what the decision does to the state *)
(* the others depend on. Who gives up only releases channelMutex_.              *)
Choose(t) ==
    /\ todo[t] # <<>>
    /\ Head(todo[t]).do \notin {"take", "release"}
    /\ LET d == Head(todo[t]).do IN
       /\ IF d = "giveUp" THEN Begin(t, <<Release("channelMutex")>>)
          ELSE \E steps \in Branches(d) : Begin(t, steps \o Tail(todo[t]))
       /\ created' = CASE d = "transferred" -> ~stale
                       [] d = "destroyed" -> created /\ stale
                       [] d = "restored" -> TRUE
                       [] d = "closed" -> FALSE
                       [] OTHER -> created
       /\ known' = (known \/ d = "known")
       /\ connected' = CASE d = "connected" -> ~stale
                         [] d = "disabled" -> connected /\ stale
                         [] OTHER -> connected
       /\ stale' = (stale /\ d # "renew")
    /\ UNCHANGED <<holder, calls, deaths>>

Next ==
    \/ \E t \in Callers : Application(t)
    \/ Events \/ ServiceDies
    \/ \E t \in Threads : Lock(t) \/ Unlock(t) \/ Choose(t)

Spec == Init /\ [][Next]_vars

-----------------------------------------------------------------------------
(* The thread t waits for: the holder of the mutex it is about to take.         *)
WaitsFor(t, u) ==
    /\ todo[t] # <<>>
    /\ Head(todo[t]).do = "take"
    /\ holder[Head(todo[t]).mutex] = u

(* No threads that wait for mutexes of M wait for each other in a circle: there *)
(* is one order in which those are taken.                                       *)
Ordered(M) ==
    LET waiting == {t \in Threads : \E u \in Threads :
                       WaitsFor(t, u) /\ Head(todo[t]).mutex \in M}
    IN \A S \in SUBSET waiting \ {{}} : ~ \A t \in S : \E u \in S : WaitsFor(t, u)

(* The mutexes of the proxy and of the data channel of the client have one      *)
(* order, as several mutexes always have (docs/constraints.md:99).              *)
ClientMutexesOrdered == Ordered({"clientMutex", "channelMutex"})
=============================================================================
