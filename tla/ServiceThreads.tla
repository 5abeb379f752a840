---------------------------- MODULE ServiceThreads ----------------------------
(***************************************************************************)
(* The handlers of SensorService that change the subscriptions of one      *)
(* sensor, on the binder threads that run them, one critical section of    *)
(* ClientInfo, or one call of the driver, per step.                        *)
(*                                                                         *)
(* EnableSensor, DisableSensor and DestroySensorChannel hold serviceLock_  *)
(* from end to end, SuspendSensors and ResumeSensors hold                  *)
(* pidSensorInfoMutex_: neither lock excludes the handlers of the other.   *)
(* Answers of the driver, rates refused and the report delay are in        *)
(* SensorService; here the driver always answers.                          *)
(***************************************************************************)
EXTENDS Integers, FiniteSetsExt

CONSTANTS
    Threads,   \* binder threads of the service
    Pids,      \* client processes
    Periods,   \* the sampling periods clients ask for
    MaxCalls,  \* bound: handlers started
    NoLimit,   \* LLONG_MAX
    None

ASSUME PeriodsAssumption ==
    /\ NoLimit \in Nat /\ Periods \subseteq 1 .. NoLimit - 1
    /\ None \notin 0 .. NoLimit /\ None \notin Threads /\ MaxCalls \in Nat

VARIABLES
    subs,      \* clientMap_ of the sensor: the period of each subscriber
    on, rate,  \* the driver
    saved,     \* pidSensorInfoMap_, for the sensor
    frozen,    \* the keys of pidSensorInfoMap_
    locks,     \* who holds serviceLock_ and pidSensorInfoMutex_
    thread,    \* what each thread runs, where it is, and its local variables
    dead,      \* processes whose death was delivered
    fault,     \* history: a channel was destroyed under the last subscriber
    raced,     \* history: handlers that no lock keeps apart ran together
    calls      \* counter for the bound

vars == <<subs, on, rate, saved, frozen, locks, thread, dead, fault, raced, calls>>

ServiceOps == {"Enable", "Disable", "Destroy", "Death"}
PowerOps == {"Suspend", "Resume"}
Ops == ServiceOps \cup PowerOps

\* What can be stored: GetCurPidSensorInfo returns NoLimit for no subscriber.
Stored == Periods \cup {NoLimit, None}

Labels == {"service", "power", "snapshot", "bury", "forget", "state", "update",
           "best", "batch", "enable", "info", "only", "stop", "erase", "leave",
           "drop", "end"}

NoThread == [op |-> "none", pid |-> None, period |-> None, at |-> "none",
             flag |-> FALSE, best |-> NoLimit]

TypeOK ==
    /\ subs \in [Pids -> Stored]
    /\ on \in BOOLEAN /\ rate \in 0 .. NoLimit
    /\ saved \in [Pids -> Stored] /\ frozen \subseteq Pids
    /\ locks \in [{"service", "power"} -> Threads \cup {None}]
    /\ thread \in [Threads -> {NoThread} \cup
          [op : Ops, pid : Pids, period : Stored, at : Labels,
           flag : BOOLEAN, best : 0 .. NoLimit]]
    /\ dead \subseteq Pids /\ fault \in BOOLEAN /\ raced \in BOOLEAN
    /\ calls \in 0 .. MaxCalls
    /\ \A p \in Pids \ frozen : saved[p] = None
    /\ \A l \in {"service", "power"} : locks[l] # None => thread[locks[l]] # NoThread

Init ==
    /\ subs = [p \in Pids |-> None]
    /\ on = FALSE /\ rate = NoLimit
    /\ saved = [p \in Pids |-> None] /\ frozen = {}
    /\ locks = [service |-> None, power |-> None]
    /\ thread = [t \in Threads |-> NoThread]
    /\ dead = {} /\ fault = FALSE /\ raced = FALSE
    /\ calls = 0

-----------------------------------------------------------------------------
(* Handlers begin                                                          *)

Subscribers == {p \in Pids : subs[p] # None}

\* Handlers that hold no common lock: a service handler and the power policy,
\* and the death of a process with a call of its own still under way.
Overlap(op, p, u) ==
    /\ thread[u] # NoThread
    /\ \/ (op \in PowerOps) # (thread[u].op \in PowerOps)
       \/ thread[u].pid = p /\ "Death" \in {op, thread[u].op}

\* The death observer goes straight to the subscriptions.
FirstMutant == [Enable |-> "service", Disable |-> "service", Destroy |-> "service",
                Death |-> "snapshot", Suspend |-> "snapshot", Resume |-> "power"]

\* The first label of each handler; the power manager may suspend or resume a
\* process at any time.
First == [Enable |-> "service", Disable |-> "service", Destroy |-> "service",
          Death |-> "bury", Suspend |-> "snapshot", Resume |-> "power"]

Begin(t, op, p, period) ==
    /\ thread[t] = NoThread /\ calls < MaxCalls
    /\ op \in ServiceOps => p \notin dead
    /\ thread' = [thread EXCEPT ![t] =
          [op |-> op, pid |-> p, period |-> period, at |-> First[op],
           flag |-> FALSE, best |-> NoLimit]]
    /\ dead' = IF op = "Death" THEN dead \cup {p} ELSE dead
    /\ raced' = (raced \/ \E u \in Threads : Overlap(op, p, u))
    /\ calls' = calls + 1
    /\ UNCHANGED <<subs, on, rate, saved, frozen, locks, fault>>

-----------------------------------------------------------------------------
(* Steps of a thread                                                       *)

At(t, label) == thread[t].at = label
Me(t) == thread[t].pid

\* Where t goes next, with local variables changed as told.
Goto(t, label) == thread' = [thread EXCEPT ![t].at = label]
GotoWith(t, label, flag, best) ==
    thread' = [thread EXCEPT ![t].at = label, ![t].flag = flag, ![t].best = best]

client == <<subs, fault>>
driver == <<on, rate>>
policy == <<saved, frozen>>
history == <<dead, raced, calls>>

\* A handler that does not wait for the lock.
FreeMutant(lock) == TRUE

Free(lock) == locks[lock] = None

Acquire(t, lock) ==
    /\ At(t, lock) /\ Free(lock)
    /\ locks' = [locks EXCEPT ![lock] = t]

LockService(t) ==
    /\ Acquire(t, "service")
    /\ Goto(t, CASE thread[t].op = "Enable" -> "state"
                 [] thread[t].op = "Destroy" -> "drop"
                 [] OTHER -> "forget")
    /\ UNCHANGED <<client, driver, policy, history>>

\* SuspendSensors remembers whether it works on a copy, ResumeSensors returns
\* when it finds nothing (the sensor may be missing from what it finds).
LockPower(t) ==
    /\ Acquire(t, "power")
    /\ GotoWith(t, IF thread[t].op = "Suspend" THEN "info"
                   ELSE IF saved[Me(t)] # None THEN "state" ELSE "end",
                Me(t) \in frozen, NoLimit)
    /\ UNCHANGED <<client, driver, policy, history>>

Forgotten(p) == saved' = [saved EXCEPT ![p] = None] /\ frozen' = frozen \ {p}

\* DeleteDeathPidSensorInfo and DeleteDisablePidSensorInfo.
Forget(t) ==
    /\ At(t, "bury") \/ At(t, "forget")
    /\ Free("power")
    /\ Forgotten(Me(t))
    /\ Goto(t, IF At(t, "bury") THEN "snapshot" ELSE "only")
    /\ UNCHANGED <<client, driver, locks, history>>

Leaves(t) == thread' = [thread EXCEPT ![t] = NoThread]

\* GetSensorIdByPid, before any lock is taken.
Snapshot(t) ==
    /\ At(t, "snapshot")
    /\ IF subs[Me(t)] # None
       THEN Goto(t, IF thread[t].op = "Death" THEN "service" ELSE "power")
       ELSE IF thread[t].op = "Death" THEN Goto(t, "drop") ELSE Leaves(t)
    /\ UNCHANGED <<client, driver, policy, locks, history>>

-----------------------------------------------------------------------------
(* EnableSensor, and Resume of what was saved                              *)

GetSensorState(t) ==
    /\ At(t, "state")
    /\ GotoWith(t, "update", Subscribers # {}, NoLimit)
    /\ UNCHANGED <<client, driver, policy, locks, history>>

Asked(t) == IF thread[t].op = "Resume" THEN saved[Me(t)] ELSE thread[t].period

UpdateSensorInfo(t) ==
    /\ At(t, "update")
    /\ subs' = [subs EXCEPT ![Me(t)] = Asked(t)]
    /\ Goto(t, "best")
    /\ UNCHANGED <<driver, policy, locks, history, fault>>

GetBestSensorInfo(t) ==
    /\ At(t, "best")
    /\ GotoWith(t, "batch", thread[t].flag,
                Min({NoLimit} \cup {subs[p] : p \in Subscribers}))
    /\ UNCHANGED <<client, driver, policy, locks, history>>

\* SetBestSensorParams of a subscriber, ResetBestSensorParams of one that left.
Subscribing(t) == thread[t].op \in {"Enable", "Resume"}

SetBatch(t) ==
    /\ At(t, "batch")
    /\ rate' = IF Subscribing(t) THEN Min({thread[t].best, Asked(t)}) ELSE thread[t].best
    /\ Goto(t, IF Subscribing(t) /\ ~thread[t].flag THEN "enable" ELSE "end")
    /\ UNCHANGED <<client, on, policy, locks, history>>

EnableSensor(t) ==
    /\ At(t, "enable")
    /\ on' = TRUE /\ fault' = FALSE
    /\ Goto(t, "end")
    /\ UNCHANGED <<subs, rate, policy, locks, history>>

-----------------------------------------------------------------------------
(* DisableSensor, Suspend and DestroySensorChannel                         *)

\* The subscription may have gone since the snapshot.
GetCurPidSensorInfo(t) ==
    /\ At(t, "info")
    /\ thread' = [thread EXCEPT ![t].at = "only", ![t].period =
                   IF subs[Me(t)] = None THEN NoLimit ELSE subs[Me(t)]]
    /\ UNCHANGED <<client, driver, policy, locks, history>>

OnlyCurPidSensorEnabled(t) ==
    /\ At(t, "only")
    /\ Goto(t, IF Subscribers = {Me(t)} THEN "stop" ELSE "leave")
    /\ UNCHANGED <<client, driver, policy, locks, history>>

DisableSensor(t) ==
    /\ At(t, "stop")
    /\ on' = FALSE
    /\ Goto(t, "erase")
    /\ UNCHANGED <<client, rate, policy, locks, history>>

\* AfterDisableSensor erases the entry of the sensor, whoever is in it by now.
ClearSensorInfo(t) ==
    /\ At(t, "erase")
    /\ subs' = [p \in Pids |-> None]
    /\ Goto(t, "end")
    /\ UNCHANGED <<driver, policy, locks, history, fault>>

ClearCurPidSensorInfo(t) ==
    /\ At(t, "leave")
    /\ subs' = [subs EXCEPT ![Me(t)] = None]
    /\ Goto(t, "best")
    /\ UNCHANGED <<driver, policy, locks, history, fault>>

\* ResumeSensors returns with its lock held.
ReleaseMutant(t) ==
    IF thread[t].op = "Resume" THEN UNCHANGED locks
    ELSE locks' = [l \in DOMAIN locks |-> IF locks[l] = t THEN None ELSE locks[l]]

Release(t) == locks' = [l \in DOMAIN locks |-> IF locks[l] = t THEN None ELSE locks[l]]

DestroySensorChannel(t) ==
    /\ At(t, "drop")
    /\ subs' = [subs EXCEPT ![Me(t)] = None]
    /\ fault' = (fault \/ Subscribers = {Me(t)})
    /\ Leaves(t) /\ Release(t)
    /\ UNCHANGED <<driver, policy, history>>

-----------------------------------------------------------------------------
(* Handlers end                                                            *)

\* The entries of SuspendSensors go into the map, or with the copy; those of
\* ResumeSensors go.  The death observer goes on without serviceLock_.
End(t) ==
    /\ At(t, "end")
    /\ CASE thread[t].op = "Suspend" /\ ~thread[t].flag ->
              /\ saved' = [saved EXCEPT ![Me(t)] = thread[t].period]
              /\ frozen' = frozen \cup {Me(t)}
         [] thread[t].op = "Resume" -> Forgotten(Me(t))
         [] OTHER -> UNCHANGED policy
    /\ Release(t)
    /\ IF thread[t].op = "Death" THEN Goto(t, "drop") ELSE Leaves(t)
    /\ UNCHANGED <<client, driver, history>>

Step(t) ==
    \/ LockService(t) \/ LockPower(t) \/ Forget(t) \/ Snapshot(t)
    \/ GetSensorState(t) \/ UpdateSensorInfo(t) \/ GetBestSensorInfo(t)
    \/ SetBatch(t) \/ EnableSensor(t)
    \/ GetCurPidSensorInfo(t) \/ OnlyCurPidSensorEnabled(t)
    \/ DisableSensor(t) \/ ClearSensorInfo(t) \/ ClearCurPidSensorInfo(t)
    \/ DestroySensorChannel(t) \/ End(t)

Quiet == \A t \in Threads : thread[t] = NoThread

\* Only for the bound: nothing more is called.
Done == Quiet /\ calls = MaxCalls /\ UNCHANGED vars

Next ==
    \/ \E t \in Threads :
          \/ Step(t)
          \/ \E p \in Pids, period \in Periods : Begin(t, "Enable", p, period)
          \/ \E p \in Pids, op \in Ops \ {"Enable"} : Begin(t, op, p, None)
    \/ Done

Spec == Init /\ [][Next]_vars

\* A thread that can run does; threads get a mutex they wait for, as MaxCalls
\* bounds how often others can take it.
FairSpec == Spec /\ \A t \in Threads : WF_vars(Step(t))

-----------------------------------------------------------------------------
(* Properties                                                              *)

\* The locks make every handler of the service one step for the others, and
\* every handler of the power policy one step for the others: when no handler
\* runs, and the two kinds never overlapped, a subscriber is served by a
\* driver that is on and fast enough, and without subscribers the driver is
\* off unless a channel was destroyed under the last one.
Isolated ==
    Quiet /\ ~raced =>
        IF Subscribers = {} THEN on => fault
        ELSE on /\ \A p \in Subscribers : rate <= subs[p]

\* The death of a process leaves nothing of it behind, neither a subscription
\* nor an entry that would bring one back, unless its last call or a call of
\* the power manager was still running.
DeadAreGone ==
    Quiet /\ ~raced => \A p \in dead : subs[p] = None /\ p \notin frozen

\* Every handler returns: no thread waits for ever for serviceLock_ or
\* pidSensorInfoMutex_, though DisableSensor takes the second inside the first.
AllReturn == \A t \in Threads : thread[t] # NoThread ~> thread[t] = NoThread
=============================================================================
