------------------------------ MODULE JsSensors ------------------------------
(* The JavaScript binding: on, once and off of applications, subscribe and        *)
(* unsubscribe of the system interface, status changes of sensors, and the calls  *)
(* that answer later. An environment's thread makes one call at a time. The       *)
(* thread that reads the data channel looks into the tables for every event and   *)
(* gives the callbacks to their threads, which nothing here waits for.            *)
EXTENDS BindingTables

CONSTANTS Codes   \* what the agent's functions return besides ERR_OK

-----------------------------------------------------------------------------
(* Arguments. A caller names the device, or leaves it to GetLocationDeviceId.     *)
Options == Remote \cup {"none"}
GetOptionalParameter(o) == IF o \in Remote THEN o ELSE Local

Free(t) == pc[t].at = "idle" /\ t \in alive
OnceUnlocked == ~(pc["data"].op = "once" /\ pc["data"].at \in Removing)

(* on: subscribes whether or not the sensor is subscribed already.                *)
On(e, f, o) ==
    /\ lang = "js" /\ Free(e)
    /\ Enter(e, "subscribe", "on", GetOptionalParameter(o), f)
    /\ UNCHANGED <<lang, agent, tables, plug, alive, call, excused, errors>>

(* once: always the local sensor; not subscribed when on has it.                  *)
Once(e, f) ==
    /\ lang = "js" /\ Free(e)
    /\ Enter(e, IF Local \in DOMAIN on THEN "record" ELSE "subscribe", "once", Local, f)
    /\ UNCHANGED <<lang, agent, tables, plug, alive, call, excused, errors>>

(* The system interface's subscribe: always the local sensor.                     *)
Subscribe(e, f) ==
    /\ lang = "js" /\ Free(e)
    /\ Enter(e, "subscribe", "system", Local, f)
    /\ UNCHANGED <<lang, agent, tables, plug, alive, call, excused, errors>>

(* The table, when the sensor is enabled. A function that is there already stays. *)
UpdateCallbackInfos(k, entry) ==
    on' = Put(on, k, At(on, k) \cup {entry}) /\ UNCHANGED <<once, system>>
UpdateOnceCallback(k, entry) ==
    OnceUnlocked /\ once' = Put(once, k, At(once, k) \cup {entry}) /\ UNCHANGED <<on, system>>
SaveSubscribeCallback(k, entry) ==
    system' = Put(system, k, At(system, k) \cup {entry}) /\ UNCHANGED <<on, once>>

Record(e) ==
    LET k == pc[e].d
        entry == [fn |-> pc[e].fn, d |-> k]
    IN /\ lang = "js" /\ e \in Envs /\ pc[e].at = "record" /\ pc[e].op # Plug
       /\ \/ pc[e].op = "on" /\ UpdateCallbackInfos(k, entry)
          \/ pc[e].op = "once" /\ UpdateOnceCallback(k, entry)
          \/ pc[e].op = "system" /\ SaveSubscribeCallback(k, entry)
       /\ excused' = Overlap(e, k, Removing)
       /\ Goto(e, "idle")
       /\ UNCHANGED <<lang, agent, plug, alive, call, errors>>

(* off of all of the environment's callbacks, or of one: what is left decides.    *)
RemoveAllCallback(e, k) == {x \in At(on, k) : EnvOf[x.fn] # e}
RemoveCallback(f, k) == {x \in At(on, k) : x.fn # f}

Off(e, k, left) ==
    /\ on' = IF left = {} THEN Drop(on, k) ELSE Put(on, k, left)
    /\ IF left # {} THEN UNCHANGED pc ELSE Enter(e, "checkSystem", "off", k, Idle.fn)

OffCall(e, o) ==
    LET k == GetOptionalParameter(o) IN
    /\ lang = "js" /\ Free(e)
    /\ \E left \in {RemoveAllCallback(e, k)} \cup {RemoveCallback(f, k) : f \in OfEnv(e)} :
          Off(e, k, left)
    /\ UNCHANGED <<lang, agent, once, system, plug, alive, call, excused, errors>>

(* The system interface's unsubscribe edits a copy of the vector, which is stored *)
(* only by erasing the key when nothing is left.                                  *)
RemoveSubscribeCallback(e) == {x \in At(system, Local) : EnvOf[x.fn] # e} = {}

Unsubscribe(e) ==
    /\ lang = "js" /\ Free(e)
    /\ IF RemoveSubscribeCallback(e)
       THEN /\ system' = Drop(system, Local)
            /\ Enter(e, "checkOn", "off", Local, Idle.fn)
       ELSE UNCHANGED <<system, pc>>
    /\ UNCHANGED <<lang, agent, on, once, plug, alive, call, excused, errors>>

(* CheckSubscribe and CheckSystemSubscribe. off asks the one, unsubscribe the     *)
(* other, and the data thread asks both after it emptied a once entry.            *)
CheckSubscribe(t) ==
    /\ lang = "js" /\ pc[t].at = "checkOn"
    /\ Goto(t, IF pc[t].d \in DOMAIN on THEN "idle"
               ELSE IF pc[t].op = "once" THEN "checkSystem" ELSE "unsubscribe")
    /\ UNCHANGED <<lang, agent, tables, plug, alive, call, excused, errors>>

SkipSystemMutant(t) ==
    /\ lang = "js" /\ pc[t].at = "checkSystem"
    /\ Goto(t, "unsubscribe")
    /\ UNCHANGED <<lang, agent, tables, plug, alive, call, excused, errors>>
CheckSystemSubscribe(t) ==
    /\ lang = "js" /\ pc[t].at = "checkSystem"
    /\ Goto(t, IF pc[t].d \in DOMAIN system THEN "idle" ELSE "unsubscribe")
    /\ UNCHANGED <<lang, agent, tables, plug, alive, call, excused, errors>>

UnsubscribeSensor(t) ==
    /\ lang = "js" /\ pc[t].at = "unsubscribe" /\ pc[t].op # Plug
    /\ Deactivated(t)
    /\ Goto(t, "idle")
    /\ UNCHANGED <<lang, tables, plug, alive, call>>

-----------------------------------------------------------------------------
(* The functions of the system interface, subscribe and unsubscribe of each type.  *)
SystemInterface(e) == (\E f \in OfEnv(e) : Subscribe(e, f)) \/ Unsubscribe(e)

(* The data thread: DataCallbackImpl. Callbacks of on are copied under the lock   *)
(* and sent on without it.                                                        *)
DataCallbackImpl(d) ==
    /\ lang = "js" /\ pc["data"].at = "idle"
    /\ d \in subscribed \cap enabled
    /\ Enter("data", IF d \in DOMAIN system THEN "emitSystem" ELSE "emitOnce", "once", d, Idle.fn)
    /\ UNCHANGED <<lang, agent, tables, plug, alive, call, excused, errors>>

(* The key was seen under an earlier lock; g_subscribeCallbacks[] makes it again  *)
(* when unsubscribe has erased it since.                                          *)
EmitSubscribeCallback ==
    LET d == pc["data"].d IN
    /\ lang = "js" /\ pc["data"].at = "emitSystem"
    /\ system' = Put(system, d, At(system, d))
    /\ excused' = IF d \in DOMAIN system THEN excused ELSE excused \cup {d}
    /\ Goto("data", "emitOnce")
    /\ UNCHANGED <<lang, agent, on, once, plug, alive, call, errors>>

(* g_onceMutex is held from here to the end of UnsubscribeSensor.                 *)
KeepSubscribedMutant ==
    LET d == pc["data"].d IN
    /\ lang = "js" /\ pc["data"].at = "emitOnce"
    /\ once' = Drop(once, d)
    /\ Goto("data", "idle")
    /\ UNCHANGED <<lang, agent, on, system, plug, alive, call, excused, errors>>
EmitOnceCallback ==
    LET d == pc["data"].d IN
    /\ lang = "js" /\ pc["data"].at = "emitOnce"
    /\ once' = Drop(once, d)
    /\ Goto("data", IF d \in DOMAIN once THEN "checkOn" ELSE "idle")
    /\ UNCHANGED <<lang, agent, on, system, plug, alive, call, excused, errors>>

-----------------------------------------------------------------------------
(* An environment is torn down: its callbacks leave the tables, the keys stay,    *)
(* and nobody asks whether the sensor is still wanted. The plug callbacks stay.   *)
Without(table, e) == [k \in DOMAIN table |-> {x \in table[k] : EnvOf[x.fn] # e}]

CleanUp(e) ==
    /\ lang = "js" /\ Free(e) /\ OnceUnlocked
    /\ alive' = alive \ {e}
    /\ on' = Without(on, e) /\ once' = Without(once, e) /\ system' = Without(system, e)
    /\ excused' = excused \cup {k \in Sensors : \E table \in {on, once, system} :
                                   At(table, k) # {} /\ \A x \in At(table, k) : EnvOf[x.fn] = e}
    /\ UNCHANGED <<lang, agent, plug, pc, call, errors>>

-----------------------------------------------------------------------------
(* Status changes of sensors.                                                     *)
OnPlugSensor(e, f) ==
    /\ lang = "js" /\ Free(e)
    /\ \/ /\ plug' = [plug EXCEPT !.user = TRUE]
          /\ Enter(e, "record", Plug, Local, f)
          /\ UNCHANGED errors
       \/ Error /\ UNCHANGED <<plug, pc>>
    /\ UNCHANGED <<lang, agent, tables, alive, call, excused>>

UpdatePlugCallbackInfos(e) ==
    /\ lang = "js" /\ e \in Envs /\ pc[e].at = "record" /\ pc[e].op = Plug
    /\ plug' = [plug EXCEPT !.cbs = @ \cup {pc[e].fn}]
    /\ excused' = IF \E u \in Envs \ {e} : pc[u].op = Plug /\ pc[u].at = "unsubscribe"
                  THEN excused \cup {Plug} ELSE excused
    /\ Goto(e, "idle")
    /\ UNCHANGED <<lang, agent, tables, alive, call, errors>>

OffPlugSensor(e) ==
    /\ lang = "js" /\ Free(e)
    /\ \E gone \in {OfEnv(e)} \cup {{f} : f \in OfEnv(e)} :
          /\ plug' = [plug EXCEPT !.cbs = @ \ gone]
          /\ IF plug.cbs \ gone # {} THEN UNCHANGED pc
             ELSE Enter(e, "unsubscribe", Plug, Local, Idle.fn)
    /\ UNCHANGED <<lang, agent, tables, alive, call, excused, errors>>

UnsubscribeSensorPlug(e) ==
    /\ lang = "js" /\ e \in Envs /\ pc[e].at = "unsubscribe" /\ pc[e].op = Plug
    /\ plug' = [plug EXCEPT !.user = FALSE]
    /\ excused' = IF \E u \in Envs \ {e} : pc[u].op = Plug /\ pc[u].at = "record"
                  THEN excused \cup {Plug} ELSE excused
    /\ Goto(e, "idle")
    /\ UNCHANGED <<lang, agent, tables, alive, call, errors>>

-----------------------------------------------------------------------------
(* Calls that answer later. Wrong arguments throw at once; so does an algorithm   *)
(* that fails, and getSingleSensor when there is no such sensor. A failed request *)
(* for the sensors answers later, with the agent's code.                          *)
NormalizeErrCodeMutant(code) == code
NormalizeErrCode(code) ==
    IF code \in {"PERMISSION_DENIED", "PARAMETER_ERROR", "NON_SYSTEM_API"} THEN code
    ELSE "SERVICE_EXCEPTION"

ERROR_MESSAGES == {"SERVICE_EXCEPTION", "PERMISSION_DENIED", "PARAMETER_ERROR",
                   "SENSOR_NO_SUPPORT", "NON_SYSTEM_API"}

Answer(type) == {[type |-> type, code |-> "ok"]}
Failure == {[type |-> "FAIL", code |-> NormalizeErrCode(c)] : c \in Codes}

GetGeomagneticField == Answer("GET_GEOMAGNETIC_FIELD")
TransformCoordinateSystem == Answer("TRANSFORM_COORDINATE_SYSTEM")
GetAngleModify == Answer("GET_ANGLE_MODIFY")
GetDirection == Answer("GET_DIRECTION")
CreateQuaternion == Answer("CREATE_QUATERNION")
GetAltitude == Answer("GET_ALTITUDE")
GetGeomagneticDip == Answer("GET_GEOMAGNETIC_DIP")
CreateRotationMatrix == Answer("CREATE_ROTATION_MATRIX")
CreateRotationAndInclination == Answer("ROTATION_INCLINATION_MATRIX")
GetSensorList == Answer("GET_SENSOR_LIST") \cup Failure
GetSingleSensor == Answer("GET_SINGLE_SENSOR") \cup Failure
GetBodyState == Answer("GET_BODY_STATE")
SubscribeFails == Answer("SUBSCRIBE_FAIL")

Answers == GetGeomagneticField \cup TransformCoordinateSystem \cup GetAngleModify
           \cup GetDirection \cup CreateQuaternion \cup GetAltitude \cup GetGeomagneticDip
           \cup CreateRotationMatrix \cup CreateRotationAndInclination
           \cup GetSensorList \cup GetSingleSensor \cup GetBodyState
           \cup SubscribeFails

(* g_convertfuncList, and ConvertToFailData, which needs a message for the code.  *)
(* SUBSCRIBE_FAIL has a function and no conversion.                               *)
Converted == {"GET_GEOMAGNETIC_FIELD", "GET_ALTITUDE", "GET_GEOMAGNETIC_DIP",
              "GET_ANGLE_MODIFY", "CREATE_ROTATION_MATRIX", "TRANSFORM_COORDINATE_SYSTEM",
              "CREATE_QUATERNION", "GET_DIRECTION", "ROTATION_INCLINATION_MATRIX",
              "GET_SENSOR_LIST", "GET_SINGLE_SENSOR", "GET_BODY_STATE", "SUBSCRIBE_COMPASS",
              "SENSOR_STATE_CHANGE"}
ConvertToFailData(a) == a.code \in ERROR_MESSAGES
Convertible(a) ==
    \/ a.type \in Converted \cup {"SUBSCRIBE_FAIL"}
    \/ a.type = "FAIL" /\ ConvertToFailData(a)

(* With a function, EmitAsyncCallbackWork; else EmitPromiseWork. Getting the body *)
(* state and a failed subscription take a function only. That the work is created *)
(* and queued is taken for granted: when it is not (sensor_napi_utils.cpp:556-561 *)
(* and 676-681) the call is not answered either.                                  *)
EmitAsyncWork(e) ==
    /\ lang = "js" /\ Free(e) /\ call = NoCall
    /\ \E a \in Answers, how \in {"callback", "promise"} :
          /\ a.type \in {"GET_BODY_STATE", "SUBSCRIBE_FAIL"} => how = "callback"
          /\ call' = [type |-> a.type, code |-> a.code, how |-> how]
    /\ UNCHANGED <<lang, agent, tables, plug, alive, pc, excused, errors>>

(* The work is done on the environment's thread: the function is called, or the   *)
(* promise settled. When the data cannot be converted neither happens.            *)
AsyncWorkDone ==
    /\ lang = "js" /\ call.how \in {"callback", "promise"}
    /\ call' = IF Convertible(call) THEN NoCall ELSE [call EXCEPT !.how = "unanswered"]
    /\ UNCHANGED <<lang, agent, tables, plug, alive, pc, excused, errors>>

-----------------------------------------------------------------------------
JsNext ==
    \/ \E e \in Envs :
          \/ \E f \in OfEnv(e) : \/ Once(e, f) \/ OnPlugSensor(e, f)
                                 \/ \E o \in Options : On(e, f, o)
          \/ \E o \in Options : OffCall(e, o)
          \/ SystemInterface(e) \/ Record(e) \/ CleanUp(e)
          \/ UpdatePlugCallbackInfos(e) \/ OffPlugSensor(e) \/ UnsubscribeSensorPlug(e)
          \/ EmitAsyncWork(e)
    \/ \E t \in Threads : CheckSubscribe(t) \/ CheckSystemSubscribe(t) \/ UnsubscribeSensor(t)
    \/ \E d \in Sensors : DataCallbackImpl(d)
    \/ EmitSubscribeCallback \/ EmitOnceCallback
    \/ AsyncWorkDone
=============================================================================
