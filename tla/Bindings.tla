------------------------------- MODULE Bindings -------------------------------
(* The three language bindings over the same agent: what their tables promise,    *)
(* what they answer, and what their functions hear.                               *)
EXTENDS JsSensors, EtsSensors, CjSensors, SensorLists, StatusEvents

Ets == INSTANCE EtsResponses

allVars == <<vars, listVars, statusVars>>

(* The tables, the plug callbacks, the asynchronous calls, the questions for      *)
(* sensors and the events on their way share nothing.                             *)
Touched ==
    {part \in {"tables", "plug", "call", "lists", "events"} :
        \/ part = "tables" /\ \/ tables # <<None, None, None>>
                              \/ subscribed # {}
                              \/ \E t \in Threads : pc[t].at # "idle" /\ pc[t].op # Plug
        \/ part = "plug" /\ \/ plug # [cbs |-> {}, user |-> FALSE]
                            \/ \E t \in Threads : pc[t].op = Plug
        \/ part = "call" /\ call # NoCall
        \/ part = "lists" /\ (ask # NoAsk \/ infos # Start)
        \/ part = "events" /\ (data.sent > 0 \/ status # NoStatus \/ online # {})}

(* BOUND: parts that share nothing are not looked at together, nor is what follows *)
(* an overlap, a refused call or an array that changed under its reader.           *)
TablesNext ==
    /\ excused = {}
    /\ JsNext \/ EtsNext \/ CjNext \/ \E t \in Envs : SubscribeSensor(t) \/ ActivateSensor(t)

AllInit == Init /\ ListsInit /\ StatusInit

Next ==
    /\ \/ TablesNext /\ UNCHANGED <<listVars, statusVars>>
       \/ ~disturbed /\ ListsNext /\ UNCHANGED <<vars, statusVars>>
       \/ StatusNext /\ UNCHANGED <<vars, listVars>>
    /\ Cardinality(Touched') <= 1
Spec == AllInit /\ [][Next]_allVars

(* No thread is in the middle of a call for what is kept under this key.          *)
Quiet(k) == \A t \in Threads : Key(pc[t].d) = k => pc[t].at \notin Registering \cup Removing
Judged(k) == k \notin excused /\ Quiet(k)

(* Whoever is in the on or the system table is reached: the sensor is subscribed  *)
(* at the agent for the binding and reported by the service, unless calls for the *)
(* same key overlapped or the service refused one. The same for status changes in *)
(* JavaScript. Not so for the once table: off turns the sensor off with a once    *)
(* pending (sensor_js.cpp:892-896). sensor_js.cpp:853 (Off), 162                  *)
(* (EmitOnceCallback), 1809 (Unsubscribe); ohos.sensor.impl.cpp:1442;             *)
(* cj_sensor_impl.cpp:208.                                                        *)
Reaches ==
    /\ \A k \in Sensors : Judged(k) =>
          \A x \in At(on, k) \cup At(system, k) : x.d \in subscribed \cap enabled
    /\ lang = "js" /\ Plug \notin excused /\ (\A t \in Envs : pc[t].op # Plug) =>
          (plug.cbs # {} => plug.user)

(* Nothing goes on for nobody: a sensor for which no table has a callback is not  *)
(* reported, and is not subscribed either unless a subscription stopped halfway   *)
(* (sensor_js.cpp:249-253), which leaves the user at the agent till the next off. *)
(* ArkTS forgets sensors of other devices (GetSensorType names the local one), so *)
(* for ArkTS this is about the local sensor alone. sensor_js.cpp:176-188 (the     *)
(* last once callback switches off).                                              *)
NothingLeft ==
    \A k \in Sensors : (Judged(k) /\ (lang = "ets" => k = Local)
                        /\ (\A table \in {on, once, system} : At(table, Key(k)) = {}))
                       => k \notin enabled \cup (subscribed \ stray)

(* A call that answers later is answered: its function is called or its promise   *)
(* settled, whatever the agent returned. sensor_napi_utils.cpp:510 and 641 give   *)
(* up without an answer when the data of the call cannot be converted. The work   *)
(* itself is taken to be created and queued (see EmitAsyncWork).                  *)
Settled == call.how # "unanswered"
=============================================================================
