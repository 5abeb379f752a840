------------------------------ MODULE EtsSensors ------------------------------
(* The ArkTS binding: on, once and off. Its tables are keyed by the type of the   *)
(* sensor alone, and the callbacks run on the thread that reads the data channel, *)
(* under the lock of their table: who needs that table waits. (A callback that    *)
(* itself calls on, once or off waits for its own thread.) Nothing fills the      *)
(* table of the system interface, and status changes are never asked for at the   *)
(* agent.                                                                         *)
EXTENDS BindingTables

OnUnlocked == ~(pc["data"].at = "inOn")
OnceMutexFree == ~(pc["data"].op = "once" /\ pc["data"].at \in Removing)

(* The device of the options, or the default one: nobody looks for the local one. *)
OnCommon(e, f, d) ==
    /\ lang = "ets" /\ pc[e].at = "idle"
    /\ Enter(e, "subscribe", "on", d, f)
    /\ UNCHANGED <<lang, agent, tables, plug, alive, call, excused, errors>>

OnceCommon(e, f) ==
    /\ lang = "ets" /\ pc[e].at = "idle" /\ OnUnlocked
    /\ Enter(e, IF Local \in DOMAIN on THEN "record" ELSE "subscribe", "once", Local, f)
    /\ UNCHANGED <<lang, agent, tables, plug, alive, call, excused, errors>>

(* A function that the table has, for whatever device, is not added again.        *)
Added(table, t) ==
    LET k == Key(pc[t].d)
        had == \E x \in At(table, k) : x.fn = pc[t].fn
    IN IF had THEN table
       ELSE Put(table, k, At(table, k) \cup {[fn |-> pc[t].fn, d |-> pc[t].d]})

UpdateCallbackInfosEts(e) ==
    /\ lang = "ets" /\ e \in Envs /\ pc[e].at = "record" /\ pc[e].op = "on" /\ OnUnlocked
    /\ on' = Added(on, e)
    /\ excused' = Overlap(e, Key(pc[e].d), Removing)
    /\ Goto(e, "idle")
    /\ UNCHANGED <<lang, agent, once, system, plug, alive, call, errors>>

UpdateOnceCallbackEts(e) ==
    /\ lang = "ets" /\ e \in Envs /\ pc[e].at = "record" /\ pc[e].op = "once"
    /\ OnceMutexFree
    /\ once' = Added(once, e)
    /\ excused' = Overlap(e, Key(pc[e].d), Removing)
    /\ Goto(e, "idle")
    /\ UNCHANGED <<lang, agent, on, system, plug, alive, call, errors>>

(* off of everything there is for the type, or of one function.                   *)
OffCommon(e, gone) ==
    LET left == {x \in At(on, Local) : x.fn \notin gone} IN
    /\ lang = "ets" /\ pc[e].at = "idle" /\ OnUnlocked
    /\ on' = IF left = {} THEN Drop(on, Local) ELSE Put(on, Local, left)
    /\ IF left # {} THEN UNCHANGED pc ELSE Enter(e, "checkSystem", "off", Local, Idle.fn)
    /\ UNCHANGED <<lang, agent, once, system, plug, alive, call, excused, errors>>

CheckSystem(t) ==
    /\ lang = "ets" /\ pc[t].at = "checkSystem"
    /\ Goto(t, IF Local \in DOMAIN system THEN "idle" ELSE "unsubscribe")
    /\ UNCHANGED <<lang, agent, tables, plug, alive, call, excused, errors>>

(* GetSensorType: the local sensor, whatever device the callbacks were for.       *)
UnsubscribeLocal(t) ==
    /\ lang = "ets" /\ pc[t].at = "unsubscribe"
    /\ Deactivated(t)
    /\ Goto(t, "idle")
    /\ UNCHANGED <<lang, tables, plug, alive, call>>

-----------------------------------------------------------------------------
(* An event of any device, in three parts. CheckSubscribe gives the lock up before *)
(* g_onCallbackInfos[] takes the callbacks, which makes a key that off has erased  *)
(* since again.                                                                    *)
DataOfType(d) ==
    /\ lang = "ets" /\ pc["data"].at = "idle" /\ d \in subscribed \cap enabled
    /\ Enter("data", IF Local \in DOMAIN on THEN "emitOn" ELSE "emitOnce", "once", Local, Idle.fn)
    /\ UNCHANGED <<lang, agent, tables, plug, alive, call, excused, errors>>

EmitOnCallback ==
    /\ lang = "ets" /\ pc["data"].at = "emitOn"
    /\ on' = Put(on, Local, At(on, Local))
    /\ excused' = IF Local \in DOMAIN on THEN excused ELSE excused \cup {Local}
    /\ Goto("data", "inOn")
    /\ UNCHANGED <<lang, agent, once, system, plug, alive, call, errors>>

CallbacksReturn ==
    /\ lang = "ets" /\ pc["data"].at = "inOn"
    /\ Goto("data", "emitOnce")
    /\ UNCHANGED <<lang, agent, tables, plug, alive, call, excused, errors>>

(* The callbacks run and are forgotten, also when the event is too short for any. *)
EmitOnce ==
    /\ lang = "ets" /\ pc["data"].at = "emitOnce"
    /\ once' = Drop(once, Local)
    /\ Goto("data", IF Local \in DOMAIN once THEN "checkOn" ELSE "idle")
    /\ UNCHANGED <<lang, agent, on, system, plug, alive, call, excused, errors>>

CheckType ==
    /\ lang = "ets" /\ pc["data"].at = "checkOn"
    /\ Goto("data", IF Local \in DOMAIN on THEN "idle" ELSE "checkSystem")
    /\ UNCHANGED <<lang, agent, tables, plug, alive, call, excused, errors>>

-----------------------------------------------------------------------------
(* Status changes: a list of functions, and no call of the agent.                 *)
OnSensorStatusChange(e, f) ==
    /\ lang = "ets" /\ pc[e].at = "idle"
    /\ plug' = [plug EXCEPT !.cbs = @ \cup {f}]
    /\ UNCHANGED <<lang, agent, tables, alive, pc, call, excused, errors>>

OffSensorStatusChange(e, gone) ==
    /\ lang = "ets" /\ pc[e].at = "idle"
    /\ plug' = [plug EXCEPT !.cbs = @ \ gone]
    /\ UNCHANGED <<lang, agent, tables, alive, pc, call, excused, errors>>

EtsNext ==
    \/ \E e \in Envs :
          \/ \E f \in OfEnv(e) : OnceCommon(e, f) \/ OnSensorStatusChange(e, f)
          \/ \E f \in OfEnv(e), d \in Sensors : OnCommon(e, f, d)
          \/ \E gone \in {Functions} \cup {{f} : f \in OfEnv(e)} :
                OffCommon(e, gone) \/ OffSensorStatusChange(e, gone)
          \/ UpdateCallbackInfosEts(e) \/ UpdateOnceCallbackEts(e)
    \/ \E t \in Threads : CheckSystem(t) \/ UnsubscribeLocal(t)
    \/ \E d \in Sensors : DataOfType(d)
    \/ EmitOnCallback \/ CallbacksReturn \/ EmitOnce \/ CheckType
=============================================================================
