----------------------------- MODULE StatusEvents -----------------------------
(* How a function of an application hears that a sensor came or went. In ArkTS    *)
(* the plug thread calls it. In JavaScript the function's one AsyncCallbackInfo   *)
(* takes the event, and a task that refers to it is sent to the environment's     *)
(* thread: the next event overwrites the one that is still waiting there. Data    *)
(* events wait in the same queue with a copy of their own.                        *)
EXTENDS BindingTables, Sequences

CONSTANTS
    Watched,      \* sensors that come and go
    MaxQueue,     \* bound: tasks that wait
    MaxData       \* bound: data events

ASSUME StatusAssumption == MaxQueue \in Nat /\ MaxData \in Nat

VARIABLES
    online,       \* the sensors that are there
    status,       \* sensorStatusEvent of the AsyncCallbackInfo
    queue,        \* tasks sent to the environment's thread
    heard,        \* the function's own picture: the sensors it takes to be there
    data,         \* sent: number of the last data event, last: the last one heard
    missed        \* history: sensors of which an event was overwritten or not sent

statusVars == <<online, status, queue, heard, data, missed>>
NoStatus == [sensor |-> "none", isSensorOnline |-> FALSE]

StatusInit ==
    /\ online = {} /\ heard = {} /\ missed = {}
    /\ status = NoStatus /\ queue = <<>>
    /\ data = [sent |-> 0, last |-> 0]

UpdateSensorStatusEvent(s) == [sensor |-> s, isSensorOnline |-> s \notin online]
Told(event) ==
    IF event.isSensorOnline THEN heard \cup {event.sensor} ELSE heard \ {event.sensor}

(* napi_send_event refuses: the task is dropped.                                  *)
CoalescedMutant(task) == IF queue # <<>> THEN queue ELSE <<task>>
EmitUvEventLoop(task) == Append(queue, task)

(* What waits in the AsyncCallbackInfo, and nobody will hear of.                  *)
Overwritten(s) ==
    IF \E i \in DOMAIN queue : queue[i] = 0 THEN {status.sensor} \ {s} ELSE {}

PlugDataCallbackImpl(s) ==
    /\ lang = "js" /\ Len(queue) < MaxQueue
    /\ status' = UpdateSensorStatusEvent(s)
    /\ \/ queue' = EmitUvEventLoop(0) /\ missed' = (missed \cup Overwritten(s)) \ {s}
       \/ UNCHANGED queue /\ missed' = missed \cup Overwritten(s) \cup {s}
    /\ online' = IF s \in online THEN online \ {s} ELSE online \cup {s}
    /\ UNCHANGED <<heard, data>>

(* The function is called under g_statusChangeMutex. Its sensorIndex is 0.        *)
CallBackSensorStatusChange(s) ==
    /\ lang = "ets"
    /\ heard' = Told(UpdateSensorStatusEvent(s))
    /\ online' = IF s \in online THEN online \ {s} ELSE online \cup {s}
    /\ UNCHANGED <<status, queue, data, missed>>

(* EmitOnCallback: CopySensorData gives up on an event that is too short or long;  *)
(* that and a task that is refused change nothing.                                *)
EmitDataCallback ==
    /\ lang = "js" /\ Len(queue) < MaxQueue /\ data.sent < MaxData
    /\ data' = [data EXCEPT !.sent = @ + 1]
    /\ queue' = EmitUvEventLoop(data.sent + 1)
    /\ UNCHANGED <<online, status, heard, missed>>

(* The environment's thread runs the task: the data converted, the function       *)
(* called, its reference given up when it was for once (ReleaseCallback).         *)
RunTask ==
    /\ lang = "js" /\ queue # <<>>
    /\ queue' = Tail(queue)
    /\ IF Head(queue) = 0
       THEN heard' = Told(status) /\ UNCHANGED data
       ELSE data' = [data EXCEPT !.last = Head(queue)] /\ UNCHANGED heard
    /\ UNCHANGED <<online, status, missed>>

StatusNext ==
    \/ \E s \in Watched : PlugDataCallbackImpl(s) \/ CallBackSensorStatusChange(s)
    \/ EmitDataCallback \/ RunTask

-----------------------------------------------------------------------------
(* When nothing waits, the function takes those sensors to be there that are, but *)
(* for the ones whose event was overwritten by another sensor's or not sent; and  *)
(* it has heard every data event. sensor_js.cpp:199-219 (one event for all tasks  *)
(* of a callback), sensor_napi_utils.cpp:571-639.                                 *)
Heard ==
    queue = <<>> => /\ \A s \in Watched \ missed : (s \in heard) = (s \in online)
                    /\ data.last = data.sent
=============================================================================
