------------------------------ MODULE CjSensors ------------------------------
(* The Cangjie binding: one callback per sensor description. A registration that  *)
(* replaces another is not told apart from it by the agent. A sensor is switched  *)
(* off first and its callback taken away after that, unless switching off failed. *)
EXTENDS BindingTables

(* With a description, or without one and then for the local sensor.              *)
OnSensorChange(t, f, d) ==
    /\ lang = "cj" /\ pc[t].at = "idle"
    /\ Enter(t, "subscribe", "on", d, f)
    /\ UNCHANGED <<lang, agent, tables, plug, alive, call, excused, errors>>

AddCallback2Map(t) ==
    LET d == pc[t].d IN
    /\ lang = "cj" /\ pc[t].at = "record"
    /\ on' = Put(on, d, {[fn |-> pc[t].fn, d |-> d]})
    /\ excused' = Overlap(t, d, Removing)
    /\ Goto(t, "idle")
    /\ UNCHANGED <<lang, agent, once, system, plug, alive, call, errors>>

OffSensorChange(t, d) ==
    /\ lang = "cj" /\ pc[t].at = "idle"
    /\ Enter(t, "unsubscribe", "off", d, Idle.fn)
    /\ UNCHANGED <<lang, agent, tables, plug, alive, call, excused, errors>>

(* The agent forgets the user although the service refuses: the callback stays    *)
(* here, and the next off fails too.                                              *)
UnsubscribeSensorImpl(t) ==
    /\ lang = "cj" /\ pc[t].at = "unsubscribe"
    /\ Deactivated(t)
    /\ Goto(t, IF pc[t].d \in subscribed /\ errors' = errors THEN "remove" ELSE "idle")
    /\ UNCHANGED <<lang, tables, plug, alive, call>>

DelCallback(t) ==
    /\ lang = "cj" /\ pc[t].at = "remove"
    /\ on' = Drop(on, pc[t].d)
    /\ Goto(t, "idle")
    /\ UNCHANGED <<lang, agent, once, system, plug, alive, call, excused, errors>>

CjNext ==
    \E t \in Envs :
       \/ \E f \in OfEnv(t), d \in Sensors : OnSensorChange(t, f, d)
       \/ \E d \in Sensors : OffSensorChange(t, d)
       \/ AddCallback2Map(t) \/ UnsubscribeSensorImpl(t) \/ DelCallback(t)
=============================================================================
