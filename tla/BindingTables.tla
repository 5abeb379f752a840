---------------------------- MODULE BindingTables ----------------------------
(* What the three language bindings have in common: tables of callbacks, and one *)
(* SensorUser each, for which a sensor is subscribed and enabled while a table    *)
(* has callbacks for it. The tables and the agent have locks of their own, and a  *)
(* call of a binding is a sequence of short steps under one of them at a time.    *)
(*                                                                                *)
(* A sensor is a SensorDescription. All of one type: Local is the one that is     *)
(* meant when the caller names no device, the others are of other devices. The    *)
(* identifier of the local device is DEFAULT_DEVICE_ID.                           *)
EXTENDS FiniteSets, Integers

CONSTANTS
    Local, Remote,   \* the sensors
    Envs,            \* environments of the language, each with its thread
    Functions,       \* functions an application registers
    EnvOf,           \* the environment of each
    MaxErrors,       \* bound: calls that the agent or the service refuses
    Languages        \* the bindings that are looked at: "js", "ets", "cj"

ASSUME TablesAssumption ==
    /\ Local \notin Remote
    /\ EnvOf \in [Functions -> Envs]
    /\ MaxErrors \in Nat
    /\ Languages \subseteq {"js", "ets", "cj"}

Sensors == {Local} \cup Remote

VARIABLES
    lang,         \* the binding of this process
    subscribed,   \* subscribeMap_ of the agent has the binding's user
    enabled,      \* the service reports the sensor to this process
    on,           \* g_onCallbackInfos or callbackMap_: key -> entries
    once,         \* g_onceCallbackInfos
    system,       \* g_subscribeCallbacks
    plug,         \* cbs: g_plugCallbackInfo, user: the agent's plug user set
    alive,        \* the environments that are not torn down
    pc,           \* a thread: where it is in its call, and the call's arguments
    call,         \* an asynchronous call under way
    stray,        \* history: sensors of a subscription that stopped halfway, till
                  \* they are unsubscribed
    excused,      \* history: keys at which calls overlapped or failed
    errors

vars == <<lang, subscribed, enabled, stray, on, once, system, plug, alive, pc, call, excused, errors>>
agent == <<subscribed, enabled, stray>>
tables == <<on, once, system>>

Threads == Envs \cup {"data"}
Plug == "plug"

(* An entry of a table: the function, and the sensor it was registered for.       *)
Entries == [fn : Functions, d : Sensors]
Idle == [at |-> "idle", op |-> "none", d |-> Local, fn |-> CHOOSE f \in Functions : TRUE]
NoCall == [type |-> "none", code |-> 0, how |-> "none"]
None == <<>>

Init ==
    /\ lang \in Languages
    /\ subscribed = {} /\ enabled = {} /\ stray = {}
    /\ on = None /\ once = None /\ system = None
    /\ plug = [cbs |-> {}, user |-> FALSE]
    /\ alive = Envs
    /\ pc = [t \in Threads |-> Idle]
    /\ call = NoCall
    /\ excused = {} /\ errors = 0

-----------------------------------------------------------------------------
(* Tables. A key can be there with nothing under it.                              *)
At(table, k) == IF k \in DOMAIN table THEN table[k] ELSE {}
Put(table, k, s) == [x \in DOMAIN table \cup {k} |-> IF x = k THEN s ELSE table[x]]
Drop(table, k) == [x \in DOMAIN table \ {k} |-> table[x]]
OfEnv(e) == {f \in Functions : EnvOf[f] = e}

(* JavaScript keys its tables by the whole description, ArkTS by the type alone.  *)
Key(d) == IF lang = "ets" THEN Local ELSE d

(* Where a thread registers, and where it takes away.                             *)
Registering == {"subscribe", "activate", "record"}
Removing == {"checkOn", "checkSystem", "unsubscribe", "remove"}
Overlap(t, k, places) ==
    IF \E u \in Threads \ {t} : pc[u].at \in places /\ Key(pc[u].d) = k /\ pc[u].op # Plug
    THEN excused \cup {k} ELSE excused

Goto(t, at) == pc' = [pc EXCEPT ![t] = IF at = "idle" THEN Idle ELSE [@ EXCEPT !.at = at]]
Enter(t, at, op, d, f) == pc' = [pc EXCEPT ![t] = [at |-> at, op |-> op, d |-> d, fn |-> f]]

Error == errors < MaxErrors /\ errors' = errors + 1

-----------------------------------------------------------------------------
(* SubscribeSensor of a binding: SubscribeSensor of the agent first.              *)
SubscribeSensor(t) ==
    /\ pc[t].at = "subscribe" /\ pc[t].op # Plug
    /\ \/ /\ subscribed' = subscribed \cup {pc[t].d}
          /\ Goto(t, "activate")
          /\ UNCHANGED errors
       \/ /\ Error
          /\ Goto(t, "idle")
          /\ UNCHANGED subscribed
    /\ UNCHANGED <<lang, enabled, stray, tables, plug, alive, call, excused>>

(* Then its SetBatch and its ActivateSensor, then the table. Both refuse what      *)
(* another thread has deactivated, and a negative interval or a sensor that is no  *)
(* longer there: the subscription stops halfway, and the user stays subscribed (in *)
(* Cangjie too, whose UnsubscribeSensor the agent refuses to who has not           *)
(* deactivated the sensor). A service that refuses ends the subscription.          *)
ActivateSensor(t) ==
    LET d == pc[t].d IN
    /\ pc[t].at = "activate"
    /\ \/ /\ d \in subscribed
          /\ enabled' = enabled \cup {d}
          /\ Goto(t, "record")
          /\ UNCHANGED <<subscribed, stray, excused, errors>>
       \/ /\ d \notin subscribed
          /\ Goto(t, "idle")
          /\ UNCHANGED <<agent, excused, errors>>
       \/ /\ d \in subscribed
          /\ Error
          /\ stray' = stray \cup {d}
          /\ Goto(t, "idle")
          /\ UNCHANGED <<subscribed, enabled, excused>>
       \/ /\ d \in subscribed
          /\ Error
          /\ subscribed' = subscribed \ {d}
          /\ stray' = stray \ {d}
          /\ enabled' \in {enabled, enabled \ {d}}
          /\ excused' = excused \cup {Key(d)}
          /\ Goto(t, "idle")
    /\ UNCHANGED <<lang, tables, plug, alive, call>>

(* DeactivateSensor and UnsubscribeSensor of the agent: an error when the sensor  *)
(* is not subscribed; forgotten also when the service refuses to disable it.      *)
Deactivated(t) ==
    LET d == pc[t].d IN
    /\ subscribed' = subscribed \ {d}
    /\ stray' = stray \ {d}
    /\ \/ /\ enabled' = IF d \in subscribed THEN enabled \ {d} ELSE enabled
          /\ excused' = IF d \in subscribed THEN Overlap(t, Key(d), Registering) ELSE excused
          /\ UNCHANGED errors
       \/ /\ d \in subscribed
          /\ Error
          /\ excused' = excused \cup {Key(d)}
          /\ UNCHANGED enabled
=============================================================================
