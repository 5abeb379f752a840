------------------------ MODULE ServiceThreads_proofs ------------------------
(***************************************************************************)
(* Isolated and DeadAreGone hold for any number of threads, processes,     *)
(* periods and calls.                                                      *)
(*                                                                         *)
(* Each handler walks along its own labels (Ways), and holds the lock of   *)
(* its kind exactly while it is inside (Holders).  While no two kinds have *)
(* overlapped, one lock keeps all the handlers apart, so what a handler    *)
(* relies on at each label (Stage) is disturbed by none of the others.     *)
(***************************************************************************)
EXTENDS ServiceThreads, LeastOfNats

Running == [op : Ops, pid : Pids, period : Stored, at : Labels,
            flag : BOOLEAN, best : 0 .. NoLimit]

Locks == {"service", "power"}

-----------------------------------------------------------------------------
(* The inductive invariant                                                 *)

\* The labels of each handler.
Path(op) ==
    CASE op = "Enable" -> {"service", "state", "update", "best", "batch", "enable", "end"}
      [] op = "Disable" -> {"service", "forget", "only", "stop", "erase", "leave", "best",
                            "batch", "end"}
      [] op = "Destroy" -> {"service", "drop"}
      [] op = "Death" -> {"bury", "snapshot", "service", "forget", "only", "stop", "erase",
                          "leave", "best", "batch", "end", "drop"}
      [] op = "Suspend" -> {"snapshot", "power", "info", "only", "stop", "erase", "leave",
                            "best", "batch", "end"}
      [] op = "Resume" -> {"power", "state", "update", "best", "batch", "enable", "end"}
      [] OTHER -> {}

Runs(t) == thread[t] # NoThread

\* Between the lock and its release.
Inner == {"forget", "state", "update", "best", "batch", "enable", "info", "only", "stop",
          "erase", "leave", "end"}
Inside(t) == thread[t].at \in Inner \/ (thread[t].at = "drop" /\ thread[t].op = "Destroy")
LockOf(t) == IF thread[t].op \in PowerOps THEN "power" ELSE "service"

Data ==
    /\ subs \in [Pids -> Stored]
    /\ on \in BOOLEAN /\ rate \in 0 .. NoLimit
    /\ saved \in [Pids -> Stored] /\ frozen \subseteq Pids
    /\ dead \subseteq Pids /\ fault \in BOOLEAN /\ raced \in BOOLEAN
    /\ calls \in 0 .. MaxCalls
    /\ \A p \in Pids \ frozen : saved[p] = None

Control ==
    /\ locks \in [Locks -> Threads \cup {None}]
    /\ thread \in [Threads -> {NoThread} \cup Running]

Ways == \A t \in Threads : Runs(t) => thread[t].at \in Path(thread[t].op)

Holders ==
    \A t \in Threads, l \in Locks : locks[l] = t <=> Inside(t) /\ LockOf(t) = l

\* What a handler subscribes with is there until it has: the entry that
\* ResumeSensors works on stays while pidSensorInfoMutex_ is held.
Asking == {"state", "update", "best", "batch"}
Wants ==
    \A t \in Threads :
        /\ thread[t].op = "Enable" => thread[t].period # None
        /\ thread[t].op = "Resume" /\ thread[t].at \in Asking => saved[Me(t)] # None

Shape == Data /\ Control /\ Ways /\ Holders /\ Wants

\* The handlers that run are all of one kind, and the death of a process is
\* alone with it.
Apart ==
    \A t, u \in Threads : Runs(t) /\ Runs(u) /\ t # u =>
        /\ thread[t].op \in PowerOps <=> thread[u].op \in PowerOps
        /\ thread[t].op = "Death" => Me(t) # Me(u)

Served ==
    IF Subscribers = {} THEN on => fault
    ELSE on /\ \A p \in Subscribers : rate <= subs[p]

BestIsLow(t) == \A p \in Subscribers : thread[t].best <= subs[p]

\* What EnableSensor and Resume rely on.
Joining(t) ==
    /\ thread[t].at \in {"state", "update", "end"} => Served
    /\ thread[t].at \in {"update", "best", "batch"} /\ thread[t].flag => on
    /\ thread[t].at \in {"best", "batch", "enable"} => subs[Me(t)] # None
    /\ thread[t].at = "batch" => BestIsLow(t)
    /\ thread[t].at = "enable" => \A p \in Subscribers : rate <= subs[p]

\* What DisableSensor, the death of a process and Suspend rely on.
Parting(t) ==
    /\ thread[t].at # "erase" => Served
    /\ thread[t].at = "leave" => Subscribers # {Me(t)}
    /\ thread[t].at \in {"stop", "erase"} => Subscribers = {Me(t)}
    /\ thread[t].at = "erase" => ~on
    /\ thread[t].at = "batch" => BestIsLow(t)
    /\ thread[t].at \in {"best", "batch", "end"} => subs[Me(t)] = None

Leaving(t) == thread[t].op \in {"Disable", "Death", "Suspend"}

Stage(t) ==
    Inside(t) =>
        /\ Subscribing(t) => Joining(t)
        /\ Leaving(t) => Parting(t)
        /\ thread[t].op = "Destroy" => Served

\* A dying process has no saved entry once the observer has removed it, and
\* no subscription when its channel is destroyed.
Buried(t) ==
    thread[t].op = "Death" =>
        /\ thread[t].at # "bury" => Me(t) \notin frozen
        /\ thread[t].at = "drop" => subs[Me(t)] = None

\* What may still run for a process that died: its death, and calls of the
\* power manager, which find nothing.
Dying(t) ==
    Runs(t) /\ Me(t) \in dead =>
        \/ thread[t].op = "Death"
        \/ thread[t].op = "Suspend" /\ thread[t].at = "snapshot"
        \/ thread[t].op = "Resume" /\ thread[t].at \in {"power", "end"}

Gone ==
    \A p \in dead :
        \/ \E t \in Threads : thread[t].op = "Death" /\ Me(t) = p
        \/ subs[p] = None /\ p \notin frozen

Rests == (\A t \in Threads : ~Inside(t)) => Served

Safe == Apart /\ Gone /\ Rests /\ \A t \in Threads : Stage(t) /\ Buried(t) /\ Dying(t)

IInv == Shape /\ (~raced => Safe)

-----------------------------------------------------------------------------
(* Facts about the parts                                                   *)

\* An idle thread is nowhere; a running one is a record of the right fields.
LEMMA Fields ==
    ASSUME Control, NEW t \in Threads
    PROVE  /\ ~Runs(t) => thread[t].op = "none" /\ thread[t].at = "none" /\ ~Inside(t)
           /\ Runs(t) => /\ thread[t] \in Running
                         /\ thread[t].op \in Ops /\ thread[t].at \in Labels
                         /\ Me(t) \in Pids /\ thread[t].period \in Stored
                         /\ thread[t].flag \in BOOLEAN /\ thread[t].best \in 0 .. NoLimit
<1>1. ASSUME ~Runs(t)
      PROVE  thread[t].op = "none" /\ thread[t].at = "none" /\ ~Inside(t)
  <2>1. thread[t] = NoThread
    BY <1>1 DEF Runs
  <2>2. thread[t].op = "none" /\ thread[t].at = "none"
    BY <2>1 DEF NoThread
  <2> QED BY <2>2 DEF Inside, Inner
<1>2. ASSUME Runs(t) PROVE thread[t] \in Running
  BY <1>2 DEF Runs, Control
<1> QED BY <1>1, <1>2 DEF Running, Me

\* A period is a number, and so is what is stored of a subscriber.
LEMMA Numbers ==
    /\ NoLimit \in Nat
    /\ Periods \subseteq 0 .. NoLimit
    /\ Stored \subseteq (0 .. NoLimit) \cup {None}
    /\ None \notin 0 .. NoLimit
<1>1. NoLimit \in Nat /\ None \notin 0 .. NoLimit /\ Periods \subseteq 1 .. NoLimit - 1
  BY PeriodsAssumption
<1>2. Periods \subseteq 0 .. NoLimit
  BY <1>1
<1>3. ASSUME NEW x \in Stored, x # None PROVE x \in 0 .. NoLimit
  BY <1>1, <1>2, <1>3 DEF Stored
<1> QED BY <1>1, <1>2, <1>3

\* The shape implies the type invariant.
LEMMA ShapeTypes ==
    ASSUME Shape PROVE TypeOK
<1>1. ASSUME NEW l \in Locks, locks[l] # None PROVE thread[locks[l]] # NoThread
  <2>1. locks[l] \in Threads
    BY <1>1 DEF Shape, Control
  <2>2. Inside(locks[l])
    BY <2>1, <1>1 DEF Shape, Holders
  <2> QED BY <2>1, <2>2, Fields DEF Runs, Shape
<1> QED BY <1>1 DEF Shape, Data, Control, Running, TypeOK, Locks

-----------------------------------------------------------------------------
(* How a thread moves                                                      *)

\* What a thread that goes on keeps, and where it is next.
Moved(t, label, period, flag, best) ==
    /\ thread' \in [Threads -> {NoThread} \cup Running]
    /\ \A u \in Threads \ {t} : thread'[u] = thread[u]
    /\ thread'[t] # NoThread
    /\ thread'[t].op = thread[t].op /\ thread'[t].pid = thread[t].pid
    /\ thread'[t].at = label /\ thread'[t].period = period
    /\ thread'[t].flag = flag /\ thread'[t].best = best

Left(t) ==
    /\ thread' \in [Threads -> {NoThread} \cup Running]
    /\ \A u \in Threads \ {t} : thread'[u] = thread[u]
    /\ thread'[t] = NoThread

\* A running thread set to a record whose op and pid are its own has moved.
LEMMA PutMoves ==
    ASSUME Control, NEW t \in Threads, Runs(t),
           NEW label \in Labels, NEW period \in Stored, NEW flag \in BOOLEAN,
           NEW best \in 0 .. NoLimit,
           thread' = [thread EXCEPT ![t] =
               [op |-> thread[t].op, pid |-> thread[t].pid, period |-> period,
                at |-> label, flag |-> flag, best |-> best]]
    PROVE  Moved(t, label, period, flag, best)
<1> DEFINE r == [op |-> thread[t].op, pid |-> thread[t].pid, period |-> period,
                 at |-> label, flag |-> flag, best |-> best]
<1>1. thread[t].op \in Ops /\ thread[t].pid \in Pids
  BY Fields DEF Me
<1>2. r \in Running
  BY <1>1 DEF Running
<1>3. r.op = thread[t].op /\ r.pid = thread[t].pid /\ r.period = period /\ r.at = label
      /\ r.flag = flag /\ r.best = best
  OBVIOUS
<1>4. r # NoThread
  BY <1>1, <1>3 DEF NoThread, Ops, ServiceOps, PowerOps
<1>5. thread' = [thread EXCEPT ![t] = r]
  OBVIOUS
<1> HIDE DEF r
<1>6. thread'[t] = r /\ (\A u \in Threads \ {t} : thread'[u] = thread[u])
  BY <1>5 DEF Control
<1>7. thread' \in [Threads -> {NoThread} \cup Running]
  BY <1>5, <1>2 DEF Control
<1> QED BY <1>3, <1>4, <1>6, <1>7 DEF Moved

\* A thread that goes to a label changes nothing else.
LEMMA GotoMoves ==
    ASSUME Control, NEW t \in Threads, Runs(t), NEW label \in Labels, Goto(t, label)
    PROVE  Moved(t, label, thread[t].period, thread[t].flag, thread[t].best)
<1> DEFINE r == [op |-> thread[t].op, pid |-> thread[t].pid, period |-> thread[t].period,
                 at |-> label, flag |-> thread[t].flag, best |-> thread[t].best]
<1>1. thread[t] \in [op : Ops, pid : Pids, period : Stored, at : Labels,
                     flag : BOOLEAN, best : 0 .. NoLimit]
  BY Fields DEF Running
<1>2. [thread[t] EXCEPT !.at = label] = r
  BY <1>1
<1>3. thread' = [thread EXCEPT ![t] = [thread[t] EXCEPT !.at = label]]
  BY DEF Goto
<1>4. thread' = [thread EXCEPT ![t] = r]
  BY <1>2, <1>3
<1> QED BY <1>4, PutMoves, Fields

\* A thread that goes to a label with what it found changes only that.
LEMMA GotoWithMoves ==
    ASSUME Control, NEW t \in Threads, Runs(t), NEW label \in Labels,
           NEW flag \in BOOLEAN, NEW best \in 0 .. NoLimit, GotoWith(t, label, flag, best)
    PROVE  Moved(t, label, thread[t].period, flag, best)
<1> DEFINE r == [op |-> thread[t].op, pid |-> thread[t].pid, period |-> thread[t].period,
                 at |-> label, flag |-> flag, best |-> best]
<1>1. thread[t] \in [op : Ops, pid : Pids, period : Stored, at : Labels,
                     flag : BOOLEAN, best : 0 .. NoLimit]
  BY Fields DEF Running
<1>2. [thread[t] EXCEPT !.at = label, !.flag = flag, !.best = best] = r
  <2> DEFINE R == [op : Ops, pid : Pids, period : Stored, at : Labels,
                   flag : BOOLEAN, best : 0 .. NoLimit]
             a == [thread[t] EXCEPT !.at = label]
             f == [a EXCEPT !.flag = flag]
  <2>1. a \in R /\ a = [op |-> thread[t].op, pid |-> thread[t].pid,
                        period |-> thread[t].period, at |-> label,
                        flag |-> thread[t].flag, best |-> thread[t].best]
    BY <1>1
  <2>2. f \in R /\ f = [op |-> thread[t].op, pid |-> thread[t].pid,
                        period |-> thread[t].period, at |-> label,
                        flag |-> flag, best |-> thread[t].best]
    <3> HIDE DEF a
    <3> QED BY <2>1
  <2>3. [f EXCEPT !.best = best] = r
    <3> HIDE DEF f
    <3> QED BY <2>2
  <2> QED BY <2>3
<1>3. thread' = [thread EXCEPT ![t] =
                    [thread[t] EXCEPT !.at = label, !.flag = flag, !.best = best]]
  BY DEF GotoWith, Control
<1>4. thread' = [thread EXCEPT ![t] = r]
  BY <1>2, <1>3
<1> QED BY <1>4, PutMoves, Fields

\* A thread that leaves is gone, and the others are as they were.
LEMMA LeavesLeft ==
    ASSUME Control, NEW t \in Threads, Leaves(t)
    PROVE  Left(t)
BY DEF Control, Leaves, Left

-----------------------------------------------------------------------------
(* A step of one thread, for all the others                                *)

\* What a step of t does to the control of the handlers: the other threads
\* stay, and t goes on along its path or is through.
Walks(t) ==
    /\ thread' \in [Threads -> {NoThread} \cup Running]
    /\ \A u \in Threads \ {t} : thread'[u] = thread[u]
    /\ Runs(t)
    /\ Runs(t)' => /\ thread'[t].op = thread[t].op /\ thread'[t].pid = thread[t].pid
                   /\ thread'[t].at \in Path(thread[t].op)

\* Locks change hands only by t, which holds its own while inside; the saved
\* entries change only where no other handler of the power policy is inside.
Locked(t) ==
    /\ locks' \in [Locks -> Threads \cup {None}]
    /\ \A u \in Threads \ {t}, l \in Locks : locks'[l] = u <=> locks[l] = u
    /\ \A l \in Locks : locks'[l] = t <=> (Inside(t) /\ LockOf(t) = l)'
    /\ saved' # saved => locks["power"] \in {None, t}

WantsAt(t) ==
    /\ thread[t].op = "Enable" => thread[t].period # None
    /\ thread[t].op = "Resume" /\ thread[t].at \in Asking => saved[Me(t)] # None

\* The shape survives a step that walks, locks and wants as told.
LEMMA ShapeStep ==
    ASSUME Shape, NEW t \in Threads, Walks(t), Locked(t), Data', WantsAt(t)'
    PROVE  Shape'
<1>1. Control'
  BY DEF Walks, Locked, Control
<1>2. ASSUME NEW u \in Threads \ {t}
      PROVE  thread'[u] = thread[u]
  BY DEF Walks
<1>3. Ways'
  <2> SUFFICES ASSUME NEW u \in Threads, Runs(u)'
               PROVE  thread'[u].at \in Path(thread'[u].op)
    BY DEF Ways
  <2>1. CASE u = t
    BY <2>1 DEF Walks
  <2>2. CASE u # t
    BY <2>2, <1>2 DEF Shape, Ways, Runs
  <2> QED BY <2>1, <2>2
<1>4. Holders'
  <2> SUFFICES ASSUME NEW u \in Threads, NEW l \in Locks
               PROVE  locks'[l] = u <=> (Inside(u) /\ LockOf(u) = l)'
    BY DEF Holders
  <2>1. CASE u = t
    BY <2>1 DEF Locked
  <2>2. CASE u # t
    <3>1. (Inside(u) /\ LockOf(u) = l)' <=> Inside(u) /\ LockOf(u) = l
      BY <2>2, <1>2 DEF Inside, LockOf
    <3>2. locks'[l] = u <=> locks[l] = u
      BY <2>2 DEF Locked
    <3> QED BY <3>1, <3>2 DEF Shape, Holders
  <2> QED BY <2>1, <2>2
<1>5. Wants'
  <2> SUFFICES ASSUME NEW u \in Threads PROVE WantsAt(u)'
    BY DEF Wants, WantsAt
  <2>1. CASE u # t
    <3>1. WantsAt(u)
      BY DEF Shape, Wants, WantsAt
    <3>2. ASSUME thread[u].op = "Resume", thread[u].at \in Asking
          PROVE  saved' = saved
      <4>1. Inside(u) /\ LockOf(u) = "power"
        BY <3>2 DEF Inside, Inner, Asking, LockOf, PowerOps
      <4>2. locks["power"] = u
        BY <4>1 DEF Shape, Holders, Locks
      <4>3. u # None
        BY PeriodsAssumption
      <4> QED BY <2>1, <4>2, <4>3 DEF Locked
    <3> QED BY <2>1, <1>2, <3>1, <3>2 DEF WantsAt, Me
  <2> QED BY <2>1
<1> QED BY <1>1, <1>3, <1>4, <1>5 DEF Shape

\* While no two kinds have overlapped, one thread at most is inside.
LEMMA OneInside ==
    ASSUME Shape, Apart, NEW t \in Threads, NEW u \in Threads, Inside(t), Inside(u)
    PROVE  t = u
<1> SUFFICES ASSUME t # u PROVE FALSE
  OBVIOUS
<1>1. Runs(t) /\ Runs(u)
  BY Fields DEF Shape
<1>2. LockOf(t) = LockOf(u) /\ LockOf(t) \in Locks
  BY <1>1 DEF Apart, LockOf, Locks
<1> QED BY <1>2 DEF Shape, Holders

\* A thread that finds its lock free finds nobody inside.
LEMMA FreeMeansAlone ==
    ASSUME Shape, Apart, NEW t \in Threads, Runs(t), ~Inside(t), Free(LockOf(t))
    PROVE  \A u \in Threads : ~Inside(u)
<1> SUFFICES ASSUME NEW u \in Threads, Inside(u) PROVE FALSE
  OBVIOUS
<1>1. Runs(u) /\ u # t
  BY Fields DEF Shape
<1>2. LockOf(t) = LockOf(u) /\ LockOf(t) \in Locks
  BY <1>1 DEF Apart, LockOf, Locks
<1>3. u # None
  BY PeriodsAssumption
<1> QED BY <1>2, <1>3 DEF Shape, Holders, Free

\* What a step of t does to the subscriptions and what is saved, for the
\* others: it touches its own process, or clears, and the data of a sensor
\* only from inside.
Touches(t) ==
    /\ dead' = dead
    /\ Inside(t) \/ (subs' = subs /\ on' = on /\ rate' = rate /\ fault' = fault)
    /\ \A p \in Pids :
          subs[p] = None /\ subs'[p] # None => p = Me(t) /\ thread[t].at = "update"
    /\ frozen' \ frozen # {} =>
          frozen' \ frozen = {Me(t)} /\ thread[t].op = "Suspend" /\ thread[t].at = "end"
    /\ thread[t].op = "Death" /\ ~Runs(t)' => thread[t].at = "drop"

\* The safe part survives a step when it holds of the thread that takes it.
LEMMA SafeStep ==
    ASSUME Shape, Safe, Data', NEW t \in Threads, Walks(t), Touches(t),
           (Stage(t) /\ Buried(t) /\ Dying(t))', Rests'
    PROVE  Safe'
<1>1. ASSUME NEW u \in Threads \ {t}
      PROVE  thread'[u] = thread[u]
  BY DEF Walks
<1>2. ASSUME NEW u \in Threads, Runs(u)'
      PROVE  Runs(u) /\ thread'[u].op = thread[u].op /\ Me(u)' = Me(u)
  BY <1>1, <1>2 DEF Walks, Runs, Me
<1>3. Apart'
  <2> SUFFICES ASSUME NEW u \in Threads, NEW v \in Threads, Runs(u)', Runs(v)', u # v
               PROVE  (/\ thread[u].op \in PowerOps <=> thread[v].op \in PowerOps
                       /\ thread[u].op = "Death" => Me(u) # Me(v))'
    BY DEF Apart
  <2>1. /\ Runs(u) /\ thread'[u].op = thread[u].op /\ Me(u)' = Me(u)
        /\ Runs(v) /\ thread'[v].op = thread[v].op /\ Me(v)' = Me(v)
    BY <1>2
  <2>2. /\ thread[u].op \in PowerOps <=> thread[v].op \in PowerOps
        /\ thread[u].op = "Death" => Me(u) # Me(v)
    BY <2>1 DEF Safe, Apart
  <2> QED BY <2>1, <2>2
<1>4. Runs(t) /\ Me(t) \in Pids /\ thread[t].at \in Path(thread[t].op)
  BY Fields DEF Walks, Shape, Ways
<1>5. ASSUME thread[t].at = "update" PROVE Me(t) \notin dead
  BY <1>4, <1>5 DEF Safe, Dying, Path
<1>6. ASSUME thread[t].op = "Suspend", thread[t].at = "end" PROVE Me(t) \notin dead
  BY <1>4, <1>6 DEF Safe, Dying
<1>7. Gone'
  <2> SUFFICES ASSUME NEW p \in dead
               PROVE  \/ \E u \in Threads : thread'[u].op = "Death" /\ Me(u)' = p
                      \/ subs'[p] = None /\ p \notin frozen'
    BY DEF Gone, Touches
  <2>1. p \in Pids
    BY DEF Shape, Data
  <2>2. CASE subs[p] = None /\ p \notin frozen
    BY <2>1, <2>2, <1>5, <1>6 DEF Touches
  <2>3. ASSUME NEW u \in Threads, thread[u].op = "Death", Me(u) = p
        PROVE  \/ thread'[u].op = "Death" /\ Me(u)' = p
               \/ subs'[p] = None /\ p \notin frozen'
    <3>1. CASE u # t
      BY <2>3, <3>1, <1>1 DEF Me
    <3>2. CASE u = t /\ Runs(t)'
      BY <2>3, <3>2, <1>2
    <3>3. CASE u = t /\ ~Runs(t)'
      <4>1. thread[t].at = "drop"
        BY <2>3, <3>3 DEF Touches
      <4>2. subs[p] = None /\ p \notin frozen
        BY <2>3, <3>3, <4>1 DEF Safe, Buried
      <4> QED BY <2>1, <4>2, <1>5, <1>6 DEF Touches
    <3> QED BY <3>1, <3>2, <3>3
  <2> QED BY <2>2, <2>3 DEF Safe, Gone
<1>8. ASSUME NEW u \in Threads, u # t
      PROVE  (Stage(u) /\ Buried(u) /\ Dying(u))'
  <2>1. /\ thread'[u] = thread[u] /\ Me(u)' = Me(u) /\ Stage(u) /\ Buried(u) /\ Dying(u)
        /\ (Runs(u)' <=> Runs(u)) /\ (Inside(u)' <=> Inside(u))
    BY <1>1, <1>8 DEF Safe, Me, Runs, Inside
  <2>2. Stage(u)'
    <3>1. CASE Inside(t)
      <4>1. ~Inside(u)
        BY <3>1, <1>8, OneInside DEF Safe
      <4> QED BY <4>1, <2>1 DEF Stage
    <3>2. CASE ~Inside(t)
      <4>1. subs' = subs /\ on' = on /\ rate' = rate /\ fault' = fault
        BY <3>2 DEF Touches
      <4>2. Served' <=> Served
        BY <4>1 DEF Served, Subscribers
      <4>3. BestIsLow(u)' <=> BestIsLow(u)
        BY <4>1, <2>1 DEF BestIsLow, Subscribers
      <4>4. Joining(u) => Joining(u)'
        BY <4>1, <4>2, <4>3, <2>1 DEF Joining, Subscribers
      <4>5. Parting(u) => Parting(u)'
        BY <4>1, <4>2, <4>3, <2>1 DEF Parting, Subscribers
      <4> QED BY <4>2, <4>4, <4>5, <2>1 DEF Stage, Subscribing, Leaving
    <3> QED BY <3>1, <3>2
  <2>3. Buried(u)'
    <3> SUFFICES ASSUME thread[u].op = "Death"
                 PROVE  /\ thread[u].at # "bury" => Me(u) \notin frozen'
                        /\ thread[u].at = "drop" => subs'[Me(u)] = None
      BY <2>1 DEF Buried
    <3>1. Runs(u) /\ Me(u) \in Pids
      BY Fields DEF Shape
    <3>2. Me(u) # Me(t) /\ thread[t].op # "Suspend"
      BY <1>4, <1>8, <3>1 DEF Safe, Apart, PowerOps
    <3> QED BY <3>1, <3>2, <2>1 DEF Touches, Buried
  <2>4. Dying(u)'
    BY <2>1 DEF Dying, Touches
  <2> QED BY <2>2, <2>3, <2>4
<1> QED BY <1>3, <1>7, <1>8 DEF Safe

-----------------------------------------------------------------------------
(* Steps inside the lock                                                   *)

\* What such a step leaves alone, and what it may do to the subscriptions.
Inward(t) ==
    /\ UNCHANGED <<policy, locks, history>>
    /\ subs' \in [Pids -> Stored] /\ on' \in BOOLEAN /\ rate' \in 0 .. NoLimit
    /\ fault' \in BOOLEAN
    /\ \A p \in Pids :
          subs[p] = None /\ subs'[p] # None => p = Me(t) /\ thread[t].at = "update"

\* A step from one label inside to the next keeps the invariant when the next
\* label finds what it relies on.
LEMMA March ==
    ASSUME IInv, NEW t \in Threads, Runs(t), Inside(t), thread[t].at # "end",
           NEW label \in Inner \cap Path(thread[t].op),
           NEW period, NEW flag, NEW best, Moved(t, label, period, flag, best),
           Inward(t),
           thread[t].op = "Enable" => period = thread[t].period,
           thread[t].op = "Resume" /\ label \in Asking => thread[t].at \in Asking,
           ~raced => (Subscribing(t) => Joining(t)') /\ (Leaving(t) => Parting(t)')
    PROVE  IInv'
<1>1. /\ thread'[t].op = thread[t].op /\ Me(t)' = Me(t) /\ thread'[t].at = label
      /\ thread'[t].period = period /\ Runs(t)'
  BY DEF Moved, Me, Runs
<1>2. Inside(t)' /\ LockOf(t)' = LockOf(t)
  BY <1>1 DEF Inside, LockOf
<1>3. Walks(t)
  BY <1>1 DEF Moved, Walks
<1>4. Locked(t)
  BY <1>2 DEF Locked, Inward, Shape, IInv, Control, Holders, policy
<1>5. Data'
  BY DEF Inward, policy, history, IInv, Shape, Data
<1>6. WantsAt(t)'
  BY <1>1 DEF WantsAt, Inward, policy, IInv, Shape, Wants
<1>7. Shape'
  BY <1>3, <1>4, <1>5, <1>6, ShapeStep DEF IInv
<1>8. ASSUME ~raced' PROVE Safe'
  <2>1. ~raced /\ Safe
    BY <1>8 DEF Inward, history, IInv
  <2>2. Touches(t)
    BY <1>1 DEF Touches, Inward, policy, history
  <2>3. thread[t].op \in Ops \ {"Destroy"}
    BY Fields DEF IInv, Shape, Path, Inner
  <2>4. Stage(t)'
    BY <2>1, <2>3, <1>1 DEF Stage, Subscribing, Leaving
  <2>5. Buried(t)'
    <3>1. (thread[t].at # "bury" /\ label # "drop") \/ thread[t].op # "Death"
      BY DEF Inside, Inner
    <3>2. Buried(t)
      BY <2>1 DEF Safe
    <3> QED BY <1>1, <3>1, <3>2 DEF Buried, Inward, policy
  <2>6. Dying(t)'
    <3>1. Dying(t) /\ thread[t].at \notin {"snapshot", "power", "end"}
      BY <2>1 DEF Safe, Inside, Inner
    <3> QED BY <1>1, <3>1 DEF Dying, Inward, history
  <2>7. Rests'
    BY <1>2 DEF Rests
  <2> QED BY <2>1, <2>2, <2>4, <2>5, <2>6, <2>7, <1>3, <1>5, SafeStep DEF IInv
<1> QED BY <1>7, <1>8 DEF IInv

\* A thread that is at a label inside runs, and the label is on its path.
LEMMA AtInside ==
    ASSUME IInv, NEW t \in Threads, NEW label \in Inner, At(t, label)
    PROVE  /\ Runs(t) /\ Inside(t) /\ thread[t] \in Running
           /\ thread[t].op \in Ops /\ label \in Path(thread[t].op) /\ Me(t) \in Pids
           /\ thread[t].period \in Stored
           /\ thread[t].flag \in BOOLEAN /\ thread[t].best \in 0 .. NoLimit
           /\ ~raced => (Subscribing(t) => Joining(t)) /\ (Leaving(t) => Parting(t))
<1>1. Inside(t)
  BY DEF At, Inside
<1>2. Runs(t)
  BY <1>1, Fields DEF IInv, Shape
<1>3. label \in Path(thread[t].op)
  BY <1>2 DEF IInv, Shape, Ways, At
<1>4. ~raced => (Subscribing(t) => Joining(t)) /\ (Leaving(t) => Parting(t))
  BY <1>1 DEF IInv, Safe, Stage
<1> QED BY <1>1, <1>2, <1>3, <1>4, Fields DEF IInv, Shape

\* Who joins, who parts.
LEMMA Kinds ==
    ASSUME NEW t \in Threads
    PROVE  /\ Subscribing(t) <=> thread[t].op \in {"Enable", "Resume"}
           /\ Leaving(t) <=> thread[t].op \in {"Disable", "Death", "Suspend"}
BY DEF Subscribing, Leaving

\* GetSensorState keeps the invariant.
LEMMA GetSensorStateKeeps ==
    ASSUME IInv, NEW t \in Threads, GetSensorState(t)
    PROVE  IInv'
<1> DEFINE some == Subscribers # {}
<1>1. At(t, "state") /\ GotoWith(t, "update", some, NoLimit)
      /\ UNCHANGED <<client, driver, policy, locks, history>>
  BY DEF GetSensorState
<1>a. "state" \in Inner
  BY DEF Inner
<1>2. /\ Runs(t) /\ Inside(t) /\ thread[t].op \in Ops /\ "state" \in Path(thread[t].op)
      /\ thread[t].period \in Stored /\ (~raced => (Subscribing(t) => Joining(t)))
  BY <1>1, <1>a, AtInside
<1>3. thread[t].op \in {"Enable", "Resume"}
  BY <1>2 DEF Path
<1>4. some \in BOOLEAN /\ (some <=> Subscribers # {})
  OBVIOUS
<1> HIDE DEF some
<1>5. Moved(t, "update", thread[t].period, some, NoLimit)
  <2>1. "update" \in Labels /\ NoLimit \in 0 .. NoLimit
    BY Numbers DEF Labels
  <2> QED BY <1>1, <1>2, <1>4, <2>1, GotoWithMoves DEF IInv, Shape
<1>6. "update" \in Inner \cap Path(thread[t].op)
  BY <1>3 DEF Inner, Path
<1>7. Inward(t)
  BY <1>1 DEF Inward, client, driver, IInv, Shape, Data
<1>8. ASSUME ~raced PROVE (Subscribing(t) => Joining(t)') /\ (Leaving(t) => Parting(t)')
  <2>1. Joining(t) /\ ~Leaving(t)
    BY <1>2, <1>3, <1>8 DEF Subscribing, Leaving
  <2>2. Served
    BY <2>1, <1>1 DEF Joining, At
  <2>3. Served' /\ (some => on')
    BY <2>2, <1>1, <1>4 DEF Served, Subscribers, client, driver
  <2> QED BY <2>1, <2>3, <1>5 DEF Joining, Moved
<1> QED BY <1>1, <1>2, <1>3, <1>5, <1>6, <1>7, <1>8, March DEF Asking, At

\* UpdateSensorInfo keeps the invariant.
LEMMA UpdateSensorInfoKeeps ==
    ASSUME IInv, NEW t \in Threads, UpdateSensorInfo(t)
    PROVE  IInv'
<1> DEFINE asked == Asked(t)
<1>1. At(t, "update") /\ subs' = [subs EXCEPT ![Me(t)] = asked] /\ Goto(t, "best")
      /\ UNCHANGED <<driver, policy, locks, history, fault>>
  BY DEF UpdateSensorInfo
<1>a. "update" \in Inner
  BY DEF Inner
<1>2. /\ Runs(t) /\ Inside(t) /\ thread[t].op \in Ops /\ "update" \in Path(thread[t].op)
      /\ Me(t) \in Pids /\ thread[t].period \in Stored
      /\ (~raced => (Subscribing(t) => Joining(t)))
  BY <1>1, <1>a, AtInside
<1>3. thread[t].op \in {"Enable", "Resume"}
  BY <1>2 DEF Path
<1>4. asked \in Stored /\ asked # None
  BY <1>1, <1>2, <1>3 DEF Asked, IInv, Shape, Data, Wants, Asking, At
<1> HIDE DEF asked
<1>5. Moved(t, "best", thread[t].period, thread[t].flag, thread[t].best)
  <2>1. "best" \in Labels
    BY DEF Labels
  <2> QED BY <1>1, <1>2, <2>1, GotoMoves DEF IInv, Shape
<1>6. "best" \in Inner \cap Path(thread[t].op)
  BY <1>3 DEF Inner, Path
<1>7. /\ subs' \in [Pids -> Stored] /\ subs'[Me(t)] = asked
      /\ \A p \in Pids \ {Me(t)} : subs'[p] = subs[p]
  BY <1>1, <1>2, <1>4 DEF IInv, Shape, Data
<1>8. Inward(t)
  BY <1>1, <1>7 DEF Inward, driver, IInv, Shape, Data, At
<1>9. ASSUME ~raced PROVE (Subscribing(t) => Joining(t)') /\ (Leaving(t) => Parting(t)')
  <2>1. Joining(t) /\ ~Leaving(t)
    BY <1>2, <1>3, <1>9 DEF Subscribing, Leaving
  <2>2. thread[t].flag => on
    BY <2>1, <1>1 DEF Joining, At
  <2>3. on' = on /\ Me(t)' = Me(t) /\ thread'[t].flag = thread[t].flag
        /\ thread'[t].at = "best"
    BY <1>1, <1>5 DEF driver, Moved, Me
  <2>4. subs'[Me(t)'] # None
    BY <2>3, <1>7, <1>4
  <2> QED BY <2>1, <2>2, <2>3, <2>4 DEF Joining
<1> QED BY <1>1, <1>2, <1>3, <1>5, <1>6, <1>8, <1>9, March DEF Asking, At

\* The best period is below that of every subscriber.
LEMMA BestIsLeast ==
    ASSUME subs \in [Pids -> Stored]
    PROVE  LET best == Min({NoLimit} \cup {subs[p] : p \in Subscribers})
           IN  best \in 0 .. NoLimit /\ \A p \in Subscribers : best <= subs[p]
<1> DEFINE S == {NoLimit} \cup {subs[p] : p \in Subscribers}
<1>1. \A p \in Subscribers : subs[p] \in 0 .. NoLimit
  BY Numbers DEF Subscribers
<1>2. S \in SUBSET (0 .. NoLimit)
  BY <1>1, Numbers
<1>3. S \in SUBSET Nat /\ S # {}
  BY <1>2
<1>4. \A p \in Subscribers : subs[p] \in S
  OBVIOUS
<1> HIDE DEF S
<1>5. Min(S) \in S /\ \A n \in S : Min(S) <= n
  BY <1>3, MinOfNats
<1>6. Min(S) \in 0 .. NoLimit /\ \A p \in Subscribers : Min(S) <= subs[p]
  BY <1>2, <1>4, <1>5
<1> QED BY <1>6 DEF S

\* GetBestSensorInfo keeps the invariant.
LEMMA GetBestSensorInfoKeeps ==
    ASSUME IInv, NEW t \in Threads, GetBestSensorInfo(t)
    PROVE  IInv'
<1> DEFINE least == Min({NoLimit} \cup {subs[p] : p \in Subscribers})
<1>1. At(t, "best") /\ GotoWith(t, "batch", thread[t].flag, least)
      /\ UNCHANGED <<client, driver, policy, locks, history>>
  BY DEF GetBestSensorInfo
<1>2. least \in 0 .. NoLimit /\ \A p \in Subscribers : least <= subs[p]
  BY BestIsLeast DEF IInv, Shape, Data
<1> HIDE DEF least
<1>a. "best" \in Inner
  BY DEF Inner
<1>3. /\ Runs(t) /\ Inside(t) /\ thread[t].op \in Ops /\ "best" \in Path(thread[t].op)
      /\ Me(t) \in Pids /\ thread[t].period \in Stored /\ thread[t].flag \in BOOLEAN
      /\ (~raced => (Subscribing(t) => Joining(t)) /\ (Leaving(t) => Parting(t)))
  BY <1>1, <1>a, AtInside
<1>4. "batch" \in Inner \cap Path(thread[t].op)
  BY <1>3 DEF Inner, Path
<1>5. Moved(t, "batch", thread[t].period, thread[t].flag, least)
  <2>1. "batch" \in Labels
    BY DEF Labels
  <2> QED BY <1>1, <1>2, <1>3, <2>1, GotoWithMoves DEF IInv, Shape
<1>6. Inward(t)
  BY <1>1 DEF Inward, client, driver, IInv, Shape, Data
<1>7. ASSUME ~raced PROVE (Subscribing(t) => Joining(t)') /\ (Leaving(t) => Parting(t)')
  <2>1. /\ thread'[t].at = "batch" /\ thread'[t].flag = thread[t].flag
        /\ thread'[t].best = least /\ Me(t)' = Me(t)
        /\ subs' = subs /\ on' = on /\ rate' = rate /\ fault' = fault
    BY <1>1, <1>5 DEF Moved, Me, client, driver
  <2>2. BestIsLow(t)'
    BY <2>1, <1>2 DEF BestIsLow, Subscribers
  <2>3. Joining(t) => Joining(t)'
    BY <2>1, <2>2, <1>1 DEF Joining, At
  <2>4. Served => Served'
    BY <2>1 DEF Served, Subscribers
  <2>5. Parting(t) => Parting(t)'
    BY <2>1, <2>2, <2>4, <1>1 DEF Parting, At
  <2> QED BY <1>7, <1>3, <2>3, <2>5
<1> QED BY <1>1, <1>3, <1>4, <1>5, <1>6, <1>7, March DEF Asking, At

\* SetBatch keeps the invariant.
LEMMA SetBatchKeeps ==
    ASSUME IInv, NEW t \in Threads, SetBatch(t)
    PROVE  IInv'
<1> DEFINE next == IF Subscribing(t) /\ ~thread[t].flag THEN "enable" ELSE "end"
<1>1. /\ At(t, "batch") /\ Goto(t, next)
      /\ rate' = IF Subscribing(t) THEN Min({thread[t].best, Asked(t)}) ELSE thread[t].best
      /\ UNCHANGED <<client, on, policy, locks, history>>
  BY DEF SetBatch
<1>a. "batch" \in Inner
  BY DEF Inner
<1>2. /\ Runs(t) /\ Inside(t) /\ thread[t].op \in Ops /\ "batch" \in Path(thread[t].op)
      /\ Me(t) \in Pids /\ thread[t].period \in Stored /\ thread[t].best \in 0 .. NoLimit
      /\ (~raced => (Subscribing(t) => Joining(t)) /\ (Leaving(t) => Parting(t)))
  BY <1>1, <1>a, AtInside
<1>3. /\ next \in Inner \cap Path(thread[t].op) /\ next \in Labels
      /\ next \in {"enable", "end"}
      /\ (next = "enable" => Subscribing(t))
      /\ (next = "end" => thread[t].flag \/ ~Subscribing(t))
  BY <1>2 DEF Inner, Path, Labels, Subscribing
<1> HIDE DEF next
<1>4. Moved(t, next, thread[t].period, thread[t].flag, thread[t].best)
  BY <1>1, <1>2, <1>3, GotoMoves DEF IInv, Shape
<1>5. rate' \in 0 .. NoLimit /\ rate' <= thread[t].best
  <2>1. CASE ~Subscribing(t)
    BY <2>1, <1>1, <1>2, Numbers
  <2>2. CASE Subscribing(t)
    <3> DEFINE asked == Asked(t)
               S == {thread[t].best, asked}
    <3>1. asked \in Stored /\ asked # None
      BY <2>2, <1>1, <1>2
      DEF Asked, Subscribing, IInv, Shape, Data, Wants, Asking, At
    <3>2. asked \in 0 .. NoLimit
      <4> HIDE DEF asked
      <4> QED BY <3>1, Numbers
    <3> HIDE DEF asked
    <3>3. S \in SUBSET (0 .. NoLimit) /\ S # {} /\ thread[t].best \in S
      BY <3>2, <1>2
    <3>4. rate' = Min(S)
      BY <1>1, <2>2 DEF asked
    <3> HIDE DEF S
    <3>5. S \in SUBSET Nat
      BY <3>3
    <3>6. Min(S) \in S /\ \A n \in S : Min(S) <= n
      BY <3>3, <3>5, MinOfNats
    <3> QED BY <3>3, <3>4, <3>6
  <2> QED BY <2>1, <2>2
<1>6. Inward(t)
  BY <1>1, <1>5 DEF Inward, client, IInv, Shape, Data
<1>7. ASSUME ~raced PROVE (Subscribing(t) => Joining(t)') /\ (Leaving(t) => Parting(t)')
  <2>1. /\ thread'[t].at = next /\ thread'[t].flag = thread[t].flag /\ Me(t)' = Me(t)
        /\ subs' = subs /\ on' = on /\ fault' = fault
    BY <1>1, <1>4 DEF Moved, Me, client
  <2>2. ASSUME BestIsLow(t) PROVE \A p \in Subscribers : rate' <= subs[p]
    <3> SUFFICES ASSUME NEW p \in Subscribers PROVE rate' <= subs[p]
      OBVIOUS
    <3>1. subs[p] \in 0 .. NoLimit
      BY Numbers DEF Subscribers, IInv, Shape, Data
    <3>2. thread[t].best <= subs[p]
      BY <2>2 DEF BestIsLow
    <3> QED BY <3>1, <3>2, <1>2, <1>5
  <2>3. Subscribing(t) => Joining(t)'
    <3> SUFFICES ASSUME Subscribing(t) PROVE Joining(t)'
      OBVIOUS
    <3>1. Joining(t)
      BY <1>2, <1>7
    <3>2. BestIsLow(t) /\ subs[Me(t)] # None /\ (thread[t].flag => on)
      BY <3>1, <1>1 DEF Joining, At
    <3>3. \A p \in Subscribers' : rate' <= subs'[p]
      BY <2>1, <2>2, <3>2 DEF Subscribers
    <3>4. next = "end" => Served'
      <4>1. Me(t) \in Subscribers'
        BY <2>1, <3>2, <1>2 DEF Subscribers
      <4> QED BY <4>1, <3>2, <3>3, <2>1, <1>3 DEF Served
    <3> QED BY <2>1, <3>2, <3>3, <3>4, <1>3 DEF Joining
  <2>4. Leaving(t) => Parting(t)'
    <3> SUFFICES ASSUME Leaving(t) PROVE Parting(t)'
      OBVIOUS
    <3>1. Parting(t) /\ ~Subscribing(t)
      BY <1>2, <1>7 DEF Leaving, Subscribing
    <3>2. BestIsLow(t) /\ Served /\ subs[Me(t)] = None /\ next = "end"
      BY <3>1, <1>1, <1>3 DEF Parting, At
    <3>3. Served'
      <4>1. Subscribers' = Subscribers
        BY <2>1 DEF Subscribers
      <4> QED BY <4>1, <3>2, <2>1, <2>2 DEF Served
    <3> QED BY <2>1, <3>2, <3>3 DEF Parting
  <2> QED BY <2>3, <2>4
<1> QED BY <1>1, <1>2, <1>3, <1>4, <1>6, <1>7, March DEF Asking, At

\* EnableSensor keeps the invariant.
LEMMA EnableSensorKeeps ==
    ASSUME IInv, NEW t \in Threads, EnableSensor(t)
    PROVE  IInv'
<1>1. /\ At(t, "enable") /\ Goto(t, "end") /\ on' = TRUE /\ fault' = FALSE
      /\ UNCHANGED <<subs, rate, policy, locks, history>>
  BY DEF EnableSensor
<1>a. "enable" \in Inner
  BY DEF Inner
<1>2. /\ Runs(t) /\ Inside(t) /\ thread[t].op \in Ops /\ "enable" \in Path(thread[t].op)
      /\ Me(t) \in Pids /\ thread[t].period \in Stored
      /\ (~raced => (Subscribing(t) => Joining(t)))
  BY <1>1, <1>a, AtInside
<1>3. thread[t].op \in {"Enable", "Resume"}
  BY <1>2 DEF Path
<1>4. "end" \in Inner \cap Path(thread[t].op) /\ "end" \in Labels
  BY <1>3 DEF Inner, Path, Labels
<1>5. Moved(t, "end", thread[t].period, thread[t].flag, thread[t].best)
  BY <1>1, <1>2, <1>4, GotoMoves DEF IInv, Shape
<1>6. Inward(t)
  BY <1>1 DEF Inward, IInv, Shape, Data
<1>7. ASSUME ~raced PROVE (Subscribing(t) => Joining(t)') /\ (Leaving(t) => Parting(t)')
  <2>1. Joining(t) /\ ~Leaving(t)
    BY <1>2, <1>3, <1>7 DEF Subscribing, Leaving
  <2>2. subs[Me(t)] # None /\ \A p \in Subscribers : rate <= subs[p]
    BY <2>1, <1>1 DEF Joining, At
  <2>3. Served'
    <3>1. Subscribers' = Subscribers /\ Me(t) \in Subscribers
      BY <1>1, <1>2, <2>2 DEF Subscribers
    <3> QED BY <3>1, <1>1, <2>2 DEF Served
  <2> QED BY <2>1, <2>3, <1>5 DEF Joining, Moved
<1> QED BY <1>1, <1>2, <1>4, <1>5, <1>6, <1>7, March DEF Asking, At

\* GetCurPidSensorInfo keeps the invariant.
LEMMA GetCurPidSensorInfoKeeps ==
    ASSUME IInv, NEW t \in Threads, GetCurPidSensorInfo(t)
    PROVE  IInv'
<1> DEFINE found == IF subs[Me(t)] = None THEN NoLimit ELSE subs[Me(t)]
           r == [op |-> thread[t].op, pid |-> thread[t].pid, period |-> found,
                 at |-> "only", flag |-> thread[t].flag, best |-> thread[t].best]
<1>1. /\ At(t, "info")
      /\ thread' = [thread EXCEPT ![t].at = "only", ![t].period = found]
      /\ UNCHANGED <<client, driver, policy, locks, history>>
  BY DEF GetCurPidSensorInfo
<1>a. "info" \in Inner
  BY DEF Inner
<1>2. /\ Runs(t) /\ Inside(t) /\ thread[t] \in Running
      /\ thread[t].op \in Ops /\ "info" \in Path(thread[t].op)
      /\ Me(t) \in Pids /\ thread[t].flag \in BOOLEAN /\ thread[t].best \in 0 .. NoLimit
      /\ (~raced => (Leaving(t) => Parting(t)))
  BY <1>1, <1>a, AtInside
<1>3. thread[t].op = "Suspend"
  BY <1>2 DEF Path
<1>4. "only" \in Inner \cap Path(thread[t].op) /\ "only" \in Labels
  BY <1>3 DEF Inner, Path, Labels
<1>5. found \in Stored
  BY <1>2 DEF IInv, Shape, Data, Stored
<1> HIDE DEF found
<1>6. Moved(t, "only", found, thread[t].flag, thread[t].best)
  <2> DEFINE a == [thread[t] EXCEPT !.at = "only"]
  <2>1. /\ a \in [op : Ops, pid : Pids, period : Stored, at : Labels,
                  flag : BOOLEAN, best : 0 .. NoLimit]
        /\ a = [op |-> thread[t].op, pid |-> thread[t].pid, period |-> thread[t].period,
                at |-> "only", flag |-> thread[t].flag, best |-> thread[t].best]
    BY <1>2, <1>4 DEF Running
  <2>2. [a EXCEPT !.period = found] = r
    <3> HIDE DEF a
    <3> QED BY <2>1
  <2>3. thread' = [thread EXCEPT ![t] =
                      [thread[t] EXCEPT !.at = "only", !.period = found]]
    BY <1>1 DEF IInv, Shape, Control
  <2>4. thread' = [thread EXCEPT ![t] = r]
    BY <2>2, <2>3
  <2> QED BY <2>4, <1>2, <1>4, <1>5, PutMoves DEF IInv, Shape
<1>7. Inward(t)
  BY <1>1 DEF Inward, client, driver, IInv, Shape, Data
<1>8. ASSUME ~raced PROVE (Subscribing(t) => Joining(t)') /\ (Leaving(t) => Parting(t)')
  <2>1. Parting(t) /\ ~Subscribing(t)
    BY <1>2, <1>3, <1>8 DEF Subscribing, Leaving
  <2>2. Served
    BY <2>1, <1>1 DEF Parting, At
  <2>3. Served'
    BY <2>2, <1>1 DEF Served, Subscribers, client, driver
  <2> QED BY <2>1, <2>3, <1>6 DEF Parting, Moved
<1> QED BY <1>1, <1>2, <1>3, <1>4, <1>6, <1>7, <1>8, March DEF Asking, At

\* OnlyCurPidSensorEnabled keeps the invariant.
LEMMA OnlyCurPidSensorEnabledKeeps ==
    ASSUME IInv, NEW t \in Threads, OnlyCurPidSensorEnabled(t)
    PROVE  IInv'
<1> DEFINE next == IF Subscribers = {Me(t)} THEN "stop" ELSE "leave"
<1>1. /\ At(t, "only") /\ Goto(t, next)
      /\ UNCHANGED <<client, driver, policy, locks, history>>
  BY DEF OnlyCurPidSensorEnabled
<1>a. "only" \in Inner
  BY DEF Inner
<1>2. /\ Runs(t) /\ Inside(t) /\ thread[t].op \in Ops /\ "only" \in Path(thread[t].op)
      /\ (~raced => (Leaving(t) => Parting(t)))
  BY <1>1, <1>a, AtInside
<1>3. thread[t].op \in {"Disable", "Death", "Suspend"}
  BY <1>2 DEF Path
<1>4. /\ next \in Inner \cap Path(thread[t].op) /\ next \in Labels
      /\ next \in {"stop", "leave"} /\ (next = "stop" <=> Subscribers = {Me(t)})
  BY <1>3 DEF Inner, Path, Labels
<1> HIDE DEF next
<1>5. Moved(t, next, thread[t].period, thread[t].flag, thread[t].best)
  BY <1>1, <1>2, <1>4, GotoMoves DEF IInv, Shape
<1>6. Inward(t)
  BY <1>1 DEF Inward, client, driver, IInv, Shape, Data
<1>7. ASSUME ~raced PROVE (Subscribing(t) => Joining(t)') /\ (Leaving(t) => Parting(t)')
  <2>1. Parting(t) /\ ~Subscribing(t)
    BY <1>2, <1>3, <1>7 DEF Subscribing, Leaving
  <2>2. Served
    BY <2>1, <1>1 DEF Parting, At
  <2>3. Served' /\ Subscribers' = Subscribers /\ Me(t)' = Me(t) /\ thread'[t].at = next
    BY <2>2, <1>1, <1>5 DEF Served, Subscribers, client, driver, Moved, Me
  <2> QED BY <2>1, <2>3, <1>4 DEF Parting
<1> QED BY <1>1, <1>2, <1>3, <1>4, <1>5, <1>6, <1>7, March DEF Asking, At

\* DisableSensor keeps the invariant.
LEMMA DisableSensorKeeps ==
    ASSUME IInv, NEW t \in Threads, DisableSensor(t)
    PROVE  IInv'
<1>1. /\ At(t, "stop") /\ Goto(t, "erase") /\ on' = FALSE
      /\ UNCHANGED <<client, rate, policy, locks, history>>
  BY DEF DisableSensor
<1>a. "stop" \in Inner
  BY DEF Inner
<1>2. /\ Runs(t) /\ Inside(t) /\ thread[t].op \in Ops /\ "stop" \in Path(thread[t].op)
      /\ (~raced => (Leaving(t) => Parting(t)))
  BY <1>1, <1>a, AtInside
<1>3. thread[t].op \in {"Disable", "Death", "Suspend"}
  BY <1>2 DEF Path
<1>4. "erase" \in Inner \cap Path(thread[t].op) /\ "erase" \in Labels
  BY <1>3 DEF Inner, Path, Labels
<1>5. Moved(t, "erase", thread[t].period, thread[t].flag, thread[t].best)
  BY <1>1, <1>2, <1>4, GotoMoves DEF IInv, Shape
<1>6. Inward(t)
  BY <1>1 DEF Inward, client, IInv, Shape, Data
<1>7. ASSUME ~raced PROVE (Subscribing(t) => Joining(t)') /\ (Leaving(t) => Parting(t)')
  <2>1. Parting(t) /\ ~Subscribing(t)
    BY <1>2, <1>3, <1>7 DEF Subscribing, Leaving
  <2>2. Subscribers = {Me(t)}
    BY <2>1, <1>1 DEF Parting, At
  <2>3. Subscribers' = Subscribers /\ Me(t)' = Me(t) /\ thread'[t].at = "erase" /\ ~on'
    BY <1>1, <1>5 DEF Subscribers, client, Moved, Me
  <2> QED BY <2>1, <2>2, <2>3 DEF Parting
<1> QED BY <1>1, <1>2, <1>3, <1>4, <1>5, <1>6, <1>7, March DEF Asking, At

\* ClearSensorInfo keeps the invariant.
LEMMA ClearSensorInfoKeeps ==
    ASSUME IInv, NEW t \in Threads, ClearSensorInfo(t)
    PROVE  IInv'
<1>1. /\ At(t, "erase") /\ Goto(t, "end") /\ subs' = [p \in Pids |-> None]
      /\ UNCHANGED <<driver, policy, locks, history, fault>>
  BY DEF ClearSensorInfo
<1>a. "erase" \in Inner
  BY DEF Inner
<1>2. /\ Runs(t) /\ Inside(t) /\ thread[t].op \in Ops /\ "erase" \in Path(thread[t].op)
      /\ Me(t) \in Pids /\ (~raced => (Leaving(t) => Parting(t)))
  BY <1>1, <1>a, AtInside
<1>3. thread[t].op \in {"Disable", "Death", "Suspend"}
  BY <1>2 DEF Path
<1>4. "end" \in Inner \cap Path(thread[t].op) /\ "end" \in Labels
  BY <1>3 DEF Inner, Path, Labels
<1>5. Moved(t, "end", thread[t].period, thread[t].flag, thread[t].best)
  BY <1>1, <1>2, <1>4, GotoMoves DEF IInv, Shape
<1>6. Inward(t)
  BY <1>1 DEF Inward, driver, IInv, Shape, Data, Stored
<1>7. ASSUME ~raced PROVE (Subscribing(t) => Joining(t)') /\ (Leaving(t) => Parting(t)')
  <2>1. Parting(t) /\ ~Subscribing(t)
    BY <1>2, <1>3, <1>7 DEF Subscribing, Leaving
  <2>2. ~on
    BY <2>1, <1>1 DEF Parting, At
  <2>3. /\ Subscribers' = {} /\ Me(t)' = Me(t) /\ thread'[t].at = "end" /\ on' = on
        /\ subs'[Me(t)] = None
    BY <1>1, <1>2, <1>5 DEF Subscribers, driver, Moved, Me
  <2>4. Served'
    BY <2>2, <2>3 DEF Served
  <2> QED BY <2>3, <2>4, <2>1 DEF Parting
<1> QED BY <1>1, <1>2, <1>3, <1>4, <1>5, <1>6, <1>7, March DEF Asking, At

\* One subscriber fewer is still served, unless it was the last.
LEMMA FewerServed ==
    ASSUME Served, subs \in [Pids -> Stored], NEW p \in Pids, UNCHANGED driver,
           subs' = [subs EXCEPT ![p] = None],
           fault => fault', Subscribers = {p} => fault'
    PROVE  Served'
<1>1. Subscribers' = Subscribers \ {p}
  BY DEF Subscribers
<1>2. \A q \in Subscribers' : subs'[q] = subs[q]
  BY <1>1 DEF Subscribers
<1>3. on' = on /\ rate' = rate
  BY DEF driver
<1>4. CASE Subscribers' = {}
  BY <1>1, <1>3, <1>4 DEF Served
<1>5. CASE Subscribers' # {}
  BY <1>1, <1>2, <1>3, <1>5 DEF Served
<1> QED BY <1>4, <1>5

\* ClearCurPidSensorInfo keeps the invariant.
LEMMA ClearCurPidSensorInfoKeeps ==
    ASSUME IInv, NEW t \in Threads, ClearCurPidSensorInfo(t)
    PROVE  IInv'
<1>1. /\ At(t, "leave") /\ Goto(t, "best") /\ subs' = [subs EXCEPT ![Me(t)] = None]
      /\ UNCHANGED <<driver, policy, locks, history, fault>>
  BY DEF ClearCurPidSensorInfo
<1>a. "leave" \in Inner
  BY DEF Inner
<1>2. /\ Runs(t) /\ Inside(t) /\ thread[t].op \in Ops /\ "leave" \in Path(thread[t].op)
      /\ Me(t) \in Pids /\ (~raced => (Leaving(t) => Parting(t)))
  BY <1>1, <1>a, AtInside
<1>3. thread[t].op \in {"Disable", "Death", "Suspend"}
  BY <1>2 DEF Path
<1>4. "best" \in Inner \cap Path(thread[t].op) /\ "best" \in Labels
  BY <1>3 DEF Inner, Path, Labels
<1>5. Moved(t, "best", thread[t].period, thread[t].flag, thread[t].best)
  BY <1>1, <1>2, <1>4, GotoMoves DEF IInv, Shape
<1>6. /\ subs \in [Pids -> Stored] /\ subs' \in [Pids -> Stored] /\ subs'[Me(t)] = None
      /\ \A p \in Pids \ {Me(t)} : subs'[p] = subs[p]
  BY <1>1, <1>2 DEF IInv, Shape, Data, Stored
<1>7. Inward(t)
  BY <1>1, <1>6 DEF Inward, driver, IInv, Shape, Data
<1>8. ASSUME ~raced PROVE (Subscribing(t) => Joining(t)') /\ (Leaving(t) => Parting(t)')
  <2>1. Parting(t) /\ ~Subscribing(t)
    BY <1>2, <1>3, <1>8 DEF Subscribing, Leaving
  <2>2. Served /\ Subscribers # {Me(t)}
    BY <2>1, <1>1 DEF Parting, At
  <2>3. Served'
    BY <2>2, <1>1, <1>2, <1>6, FewerServed
  <2>4. Me(t)' = Me(t) /\ thread'[t].at = "best"
    BY <1>5 DEF Moved, Me
  <2> QED BY <2>1, <2>3, <2>4, <1>6 DEF Parting
<1> QED BY <1>1, <1>2, <1>3, <1>4, <1>5, <1>7, <1>8, March DEF Asking, At

-----------------------------------------------------------------------------
(* Steps into the lock                                                     *)

\* The subscriptions are as they should be when the lock was free.
LEMMA ServedWhenFree ==
    ASSUME IInv, ~raced, NEW t \in Threads, Runs(t), ~Inside(t), Free(LockOf(t))
    PROVE  Served
<1>1. \A u \in Threads : ~Inside(u)
  BY FreeMeansAlone DEF IInv, Safe
<1> QED BY <1>1 DEF IInv, Safe, Rests

\* A thread that takes the lock of its kind keeps the invariant when the label
\* it enters at finds what it relies on.
LEMMA Enter ==
    ASSUME IInv, NEW t \in Threads, Runs(t), ~Inside(t), Acquire(t, LockOf(t)),
           NEW label \in Path(thread[t].op),
           label \in Inner \/ (label = "drop" /\ thread[t].op = "Destroy"),
           NEW flag, NEW best, Moved(t, label, thread[t].period, flag, best),
           UNCHANGED <<client, driver, policy, history>>, WantsAt(t)',
           ~raced => (Stage(t) /\ Buried(t) /\ Dying(t))'
    PROVE  IInv'
<1>1. /\ thread'[t].op = thread[t].op /\ Me(t)' = Me(t) /\ thread'[t].at = label /\ Runs(t)'
      /\ LockOf(t)' = LockOf(t) /\ LockOf(t) \in Locks
  BY DEF Moved, Me, Runs, LockOf, Locks
<1>2. Inside(t)'
  BY <1>1 DEF Inside
<1>3. Walks(t)
  BY <1>1 DEF Moved, Walks
<1>4. /\ locks \in [Locks -> Threads \cup {None}]
      /\ locks' = [locks EXCEPT ![LockOf(t)] = t] /\ locks[LockOf(t)] = None
      /\ saved' = saved
  BY DEF Acquire, Free, policy, IInv, Shape, Control
<1>5. Locked(t)
  <2>1. locks' \in [Locks -> Threads \cup {None}]
    BY <1>4
  <2>2. \A u \in Threads \ {t}, l \in Locks : locks'[l] = u <=> locks[l] = u
    BY <1>1, <1>4, PeriodsAssumption
  <2>3. ASSUME NEW l \in Locks PROVE locks'[l] = t <=> (Inside(t) /\ LockOf(t) = l)'
    <3>1. locks[l] # t
      BY DEF IInv, Shape, Holders
    <3> QED BY <3>1, <1>1, <1>2, <1>4
  <2> QED BY <2>1, <2>2, <2>3, <1>4 DEF Locked
<1>6. Data'
  BY DEF client, driver, policy, history, IInv, Shape, Data
<1>7. Shape'
  BY <1>3, <1>5, <1>6, ShapeStep DEF IInv
<1>8. ASSUME ~raced' PROVE Safe'
  <2>1. ~raced /\ Safe
    BY <1>8 DEF history, IInv
  <2>2. Touches(t)
    BY <1>1 DEF Touches, client, driver, policy, history
  <2>3. Rests'
    BY <1>2 DEF Rests
  <2> QED BY <2>1, <2>2, <2>3, <1>3, <1>6, SafeStep DEF IInv
<1> QED BY <1>7, <1>8 DEF IInv

\* The lock of serviceLock_ keeps the invariant.
LEMMA LockServiceKeeps ==
    ASSUME IInv, NEW t \in Threads, LockService(t)
    PROVE  IInv'
<1> DEFINE next == CASE thread[t].op = "Enable" -> "state"
                     [] thread[t].op = "Destroy" -> "drop"
                     [] OTHER -> "forget"
<1>1. /\ At(t, "service") /\ Acquire(t, "service") /\ Goto(t, next)
      /\ UNCHANGED <<client, driver, policy, history>>
  BY DEF LockService, Acquire
<1>2. Runs(t) /\ ~Inside(t)
  BY <1>1, Fields DEF At, Inside, Inner, IInv, Shape
<1>3. /\ thread[t].op \in ServiceOps /\ thread[t].period \in Stored
      /\ thread[t].flag \in BOOLEAN /\ thread[t].best \in 0 .. NoLimit /\ Me(t) \in Pids
  <2>1. thread[t].op \in Ops /\ "service" \in Path(thread[t].op)
    BY <1>1, <1>2, Fields DEF At, IInv, Shape, Ways
  <2>2. thread[t].op \in ServiceOps
    BY <2>1 DEF Path, Ops, PowerOps
  <2> QED BY <2>2, <1>2, Fields DEF IInv, Shape
<1>4. LockOf(t) = "service"
  BY <1>3 DEF LockOf, ServiceOps, PowerOps
<1>5. /\ next \in Path(thread[t].op) /\ next \in Labels
      /\ next \in Inner \/ (next = "drop" /\ thread[t].op = "Destroy")
      /\ next = "state" <=> thread[t].op = "Enable"
      /\ next \in {"state", "forget", "drop"}
      /\ next = "drop" => thread[t].op = "Destroy"
      /\ next = "forget" => thread[t].op \in {"Disable", "Death"}
  BY <1>3 DEF ServiceOps, Path, Labels, Inner
<1> HIDE DEF next
<1>6. Moved(t, next, thread[t].period, thread[t].flag, thread[t].best)
  BY <1>1, <1>2, <1>5, GotoMoves DEF IInv, Shape
<1>7. /\ thread'[t].op = thread[t].op /\ Me(t)' = Me(t) /\ thread'[t].at = next
      /\ thread'[t].period = thread[t].period
  BY <1>6 DEF Moved, Me
<1>8. WantsAt(t)'
  BY <1>3, <1>7 DEF WantsAt, ServiceOps, IInv, Shape, Wants
<1>9. ASSUME ~raced PROVE (Stage(t) /\ Buried(t) /\ Dying(t))'
  <2>1. Served
    BY <1>9, <1>1, <1>2, <1>4, ServedWhenFree DEF Acquire
  <2>2. Served'
    BY <2>1, <1>1 DEF Served, Subscribers, client, driver
  <2>3. Stage(t)'
    BY <2>2, <1>3, <1>5, <1>7
    DEF Stage, Joining, Parting, Subscribing, Leaving, ServiceOps
  <2>4. Buried(t) /\ Dying(t)
    BY <1>9 DEF IInv, Safe
  <2>5. Buried(t)' /\ Dying(t)'
    BY <2>4, <1>1, <1>2, <1>3, <1>5, <1>7 DEF Buried, Dying, policy, history, At, ServiceOps
  <2> QED BY <2>3, <2>5
<1> QED BY <1>1, <1>2, <1>4, <1>5, <1>6, <1>8, <1>9, Enter

\* The lock of pidSensorInfoMutex_ keeps the invariant.
LEMMA LockPowerKeeps ==
    ASSUME IInv, NEW t \in Threads, LockPower(t)
    PROVE  IInv'
<1> DEFINE next == IF thread[t].op = "Suspend" THEN "info"
                   ELSE IF saved[Me(t)] # None THEN "state" ELSE "end"
           copied == Me(t) \in frozen
<1>1. /\ At(t, "power") /\ Acquire(t, "power") /\ GotoWith(t, next, copied, NoLimit)
      /\ UNCHANGED <<client, driver, policy, history>>
  BY DEF LockPower, Acquire
<1>2. Runs(t) /\ ~Inside(t)
  BY <1>1, Fields DEF At, Inside, Inner, IInv, Shape
<1>3. thread[t].op \in {"Suspend", "Resume"} /\ thread[t].period \in Stored /\ Me(t) \in Pids
  <2>1. thread[t].op \in Ops /\ "power" \in Path(thread[t].op)
    BY <1>1, <1>2, Fields DEF At, IInv, Shape, Ways
  <2>2. thread[t].op \in {"Suspend", "Resume"}
    BY <2>1 DEF Path
  <2> QED BY <2>2, <1>2, Fields DEF IInv, Shape
<1>4. LockOf(t) = "power"
  BY <1>3 DEF LockOf, PowerOps
<1>5. /\ next \in Path(thread[t].op) /\ next \in Labels /\ next \in Inner
      /\ next \in {"info", "state", "end"}
      /\ next = "info" <=> thread[t].op = "Suspend"
      /\ next = "state" => saved[Me(t)] # None
  BY <1>3 DEF Path, Labels, Inner
<1> HIDE DEF next
<1>6. copied \in BOOLEAN
  OBVIOUS
<1> HIDE DEF copied
<1>7. Moved(t, next, thread[t].period, copied, NoLimit)
  <2>1. NoLimit \in 0 .. NoLimit
    BY Numbers
  <2> QED BY <1>1, <1>2, <1>5, <1>6, <2>1, GotoWithMoves DEF IInv, Shape
<1>8. /\ thread'[t].op = thread[t].op /\ Me(t)' = Me(t) /\ thread'[t].at = next
      /\ thread'[t].period = thread[t].period
  BY <1>7 DEF Moved, Me
<1>9. WantsAt(t)'
  BY <1>1, <1>3, <1>5, <1>8 DEF WantsAt, Asking, policy
<1>10. ASSUME ~raced PROVE (Stage(t) /\ Buried(t) /\ Dying(t))'
  <2>1. Served
    BY <1>10, <1>1, <1>2, <1>4, ServedWhenFree DEF Acquire
  <2>2. Served'
    BY <2>1, <1>1 DEF Served, Subscribers, client, driver
  <2>3. Stage(t)'
    BY <2>2, <1>3, <1>5, <1>8 DEF Stage, Joining, Parting, Subscribing, Leaving
  <2>4. Buried(t)'
    BY <1>3, <1>8 DEF Buried
  <2>5. Dying(t)'
    <3> SUFFICES ASSUME Me(t) \in dead
                 PROVE  thread[t].op = "Resume" /\ next = "end"
      BY <1>1, <1>8 DEF Dying, history
    <3>1. thread[t].op = "Resume"
      BY <1>10, <1>1, <1>2, <1>3 DEF IInv, Safe, Dying, At
    <3>2. ASSUME NEW u \in Threads, thread[u].op = "Death" PROVE FALSE
      <4>1. Runs(u) /\ u # t
        BY <3>1, <3>2, Fields DEF IInv, Shape
      <4> QED BY <4>1, <3>1, <3>2, <1>2, <1>10 DEF IInv, Safe, Apart, PowerOps
    <3>3. Me(t) \notin frozen
      BY <3>2, <1>10 DEF IInv, Safe, Gone
    <3>4. saved[Me(t)] = None
      BY <3>3, <1>3 DEF IInv, Shape, Data
    <3> QED BY <3>1, <3>4, <1>5
  <2> QED BY <2>3, <2>4, <2>5
<1> QED BY <1>1, <1>2, <1>4, <1>5, <1>7, <1>9, <1>10, Enter

-----------------------------------------------------------------------------
(* Steps outside the lock, and out of it                                   *)

\* A thread that was and stays outside leaves the locks as they have to be.
LEMMA OutsideLocked ==
    ASSUME IInv, NEW t \in Threads, ~Inside(t), ~Inside(t)', locks' = locks,
           saved' # saved => locks["power"] = None
    PROVE  Locked(t)
BY DEF Locked, IInv, Shape, Control, Holders

\* And so does one that releases what it holds.
LEMMA ReleaseLocked ==
    ASSUME IInv, NEW t \in Threads, ~Inside(t)', Release(t),
           saved' # saved => locks["power"] \in {None, t}
    PROVE  Locked(t)
<1>1. locks \in [Locks -> Threads \cup {None}]
  BY DEF IInv, Shape, Control
<1>2. locks' = [l \in Locks |-> IF locks[l] = t THEN None ELSE locks[l]]
  BY <1>1 DEF Release
<1>3. locks' \in [Locks -> Threads \cup {None}]
  BY <1>1, <1>2
<1>4. None \notin Threads
  BY PeriodsAssumption
<1>5. \A u \in Threads \ {t}, l \in Locks : locks'[l] = u <=> locks[l] = u
  BY <1>2, <1>4
<1>6. \A l \in Locks : locks'[l] # t
  BY <1>2, <1>4
<1> QED BY <1>3, <1>5, <1>6 DEF Locked

\* When the subscriptions and the driver stay, so does what was served.
LEMMA ServedStays ==
    ASSUME UNCHANGED <<client, driver>>
    PROVE  Served' <=> Served
BY DEF Served, Subscribers, client, driver

\* DeleteDeathPidSensorInfo and DeleteDisablePidSensorInfo keep the invariant.
LEMMA ForgetKeeps ==
    ASSUME IInv, NEW t \in Threads, Forget(t)
    PROVE  IInv'
<1> DEFINE next == IF At(t, "bury") THEN "snapshot" ELSE "only"
<1>1. /\ At(t, "bury") \/ At(t, "forget")
      /\ Free("power") /\ Forgotten(Me(t)) /\ Goto(t, next)
      /\ UNCHANGED <<client, driver, locks, history>>
  BY DEF Forget
<1>2. Runs(t)
  BY <1>1, Fields DEF At, IInv, Shape
<1>3. /\ thread[t].op \in Ops /\ Me(t) \in Pids /\ thread[t].period \in Stored
      /\ thread[t].flag \in BOOLEAN /\ thread[t].best \in 0 .. NoLimit
      /\ thread[t].at \in Path(thread[t].op)
  BY <1>2, Fields DEF IInv, Shape, Ways
<1>4. /\ thread[t].op \in {"Disable", "Death"}
      /\ thread[t].at = "bury" => thread[t].op = "Death"
  BY <1>1, <1>3 DEF Path, At
<1>5. /\ next \in Path(thread[t].op) /\ next \in Labels /\ next \in {"snapshot", "only"}
      /\ next = "snapshot" <=> thread[t].at = "bury"
      /\ next = "only" <=> thread[t].at = "forget"
  BY <1>1, <1>4 DEF Path, Labels, At
<1> HIDE DEF next
<1>6. Moved(t, next, thread[t].period, thread[t].flag, thread[t].best)
  BY <1>1, <1>2, <1>3, <1>5, GotoMoves DEF IInv, Shape
<1>7. /\ thread'[t].op = thread[t].op /\ Me(t)' = Me(t) /\ thread'[t].at = next /\ Runs(t)'
      /\ LockOf(t)' = LockOf(t)
  BY <1>6 DEF Moved, Me, Runs, LockOf
<1>8. Walks(t)
  BY <1>2, <1>5, <1>7, <1>6 DEF Moved, Walks
<1>9. /\ saved' \in [Pids -> Stored] /\ frozen' = frozen \ {Me(t)} /\ frozen' \subseteq Pids
      /\ \A p \in Pids \ frozen' : saved'[p] = None
  BY <1>1, <1>3 DEF Forgotten, IInv, Shape, Data, Stored
<1>10. Data'
  BY <1>1, <1>9 DEF Data, client, driver, history, IInv, Shape
<1>11. Inside(t)' <=> Inside(t)
  BY <1>1, <1>5, <1>7 DEF Inside, Inner, At
<1>12. Locked(t)
  BY <1>1, <1>7, <1>11 DEF Locked, Free, IInv, Shape, Control, Holders
<1>13. WantsAt(t)'
  BY <1>4, <1>7 DEF WantsAt
<1>14. Shape'
  BY <1>8, <1>10, <1>12, <1>13, ShapeStep DEF IInv
<1>15. ASSUME ~raced' PROVE Safe'
  <2>1. ~raced /\ Safe
    BY <1>1, <1>15 DEF history, IInv
  <2>2. Touches(t)
    BY <1>1, <1>7, <1>9 DEF Touches, client, driver, history
  <2>3. Served' <=> Served
    BY <1>1, ServedStays
  <2>4. Stage(t)'
    <3> SUFFICES ASSUME Inside(t)' PROVE Parting(t)'
      BY <1>4, <1>7 DEF Stage, Subscribing, Leaving
    <3>1. Inside(t) /\ next = "only" /\ thread[t].at = "forget"
      BY <1>11, <1>5, <1>7 DEF Inside, Inner
    <3>2. Served
      BY <3>1, <2>1, <1>4 DEF Safe, Stage, Leaving, Parting
    <3> QED BY <3>1, <3>2, <2>3, <1>7 DEF Parting
  <2>5. Buried(t)'
    BY <1>5, <1>7, <1>9 DEF Buried
  <2>6. Dying(t)'
    BY <2>1, <1>1, <1>2, <1>4, <1>7 DEF Dying, Safe, history
  <2>7. Rests'
    <3> SUFFICES ASSUME \A u \in Threads : ~Inside(u)' PROVE Served
      BY <2>3 DEF Rests
    <3>1. \A u \in Threads : Inside(u)' <=> Inside(u)
      BY <1>8, <1>11 DEF Walks, Inside
    <3> QED BY <3>1, <2>1 DEF Safe, Rests
  <2> QED BY <2>1, <2>2, <2>4, <2>5, <2>6, <2>7, <1>8, <1>10, SafeStep DEF IInv
<1> QED BY <1>14, <1>15 DEF IInv

\* GetSensorIdByPid keeps the invariant.
LEMMA SnapshotKeeps ==
    ASSUME IInv, NEW t \in Threads, Snapshot(t)
    PROVE  IInv'
<1>1. /\ At(t, "snapshot")
      /\ UNCHANGED <<client, driver, policy, locks, history>>
  BY DEF Snapshot
<1>2. Runs(t) /\ ~Inside(t)
  BY <1>1, Fields DEF At, Inside, Inner, IInv, Shape
<1>3. /\ thread[t].op \in Ops /\ Me(t) \in Pids /\ thread[t].period \in Stored
      /\ thread[t].flag \in BOOLEAN /\ thread[t].best \in 0 .. NoLimit
      /\ thread[t].at \in Path(thread[t].op)
  BY <1>2, Fields DEF IInv, Shape, Ways
<1>4. thread[t].op \in {"Death", "Suspend"}
  BY <1>1, <1>3 DEF Path, At
<1> DEFINE next == IF subs[Me(t)] = None THEN "drop"
                   ELSE IF thread[t].op = "Death" THEN "service" ELSE "power"
<1>5. \/ Goto(t, next) /\ (subs[Me(t)] = None => thread[t].op = "Death")
      \/ Leaves(t) /\ subs[Me(t)] = None /\ thread[t].op = "Suspend"
  BY <1>4 DEF Snapshot
<1>6. /\ next \in Labels /\ next \in {"drop", "service", "power"}
      /\ next = "drop" <=> subs[Me(t)] = None
      /\ (next # "drop" => (next = "service" <=> thread[t].op = "Death"))
  BY DEF Labels
<1> HIDE DEF next
<1>7. \/ /\ Moved(t, next, thread[t].period, thread[t].flag, thread[t].best)
         /\ next \in Path(thread[t].op)
         /\ subs[Me(t)] = None => thread[t].op = "Death"
      \/ Left(t) /\ subs[Me(t)] = None /\ thread[t].op = "Suspend"
  <2>1. CASE Goto(t, next) /\ (subs[Me(t)] = None => thread[t].op = "Death")
    <3>1. next \in Path(thread[t].op)
      BY <2>1, <1>4, <1>6 DEF Path
    <3> QED BY <2>1, <3>1, <1>2, <1>6, GotoMoves DEF IInv, Shape
  <2>2. CASE Leaves(t) /\ subs[Me(t)] = None /\ thread[t].op = "Suspend"
    BY <2>2, LeavesLeft DEF IInv, Shape
  <2> QED BY <1>5, <2>1, <2>2
<1>8. \/ /\ thread'[t].op = thread[t].op /\ Me(t)' = Me(t) /\ thread'[t].at = next /\ Runs(t)'
         /\ next \in Path(thread[t].op)
         /\ subs[Me(t)] = None => thread[t].op = "Death"
      \/ /\ thread'[t].op = "none" /\ thread'[t].at = "none" /\ ~Runs(t)'
         /\ thread[t].op = "Suspend"
  BY <1>7 DEF Moved, Left, Me, Runs, NoThread
<1>9. ~Inside(t)'
  BY <1>4, <1>6, <1>8 DEF Inside, Inner
<1>10. Walks(t)
  BY <1>2, <1>7, <1>8 DEF Moved, Left, Walks, Me, Runs
<1>11. Data'
  BY <1>1 DEF Data, client, driver, policy, history, IInv, Shape
<1>12. Locked(t)
  BY <1>1, <1>2, <1>9, OutsideLocked DEF policy
<1>13. WantsAt(t)'
  BY <1>4, <1>8 DEF WantsAt
<1>14. Shape'
  BY <1>10, <1>11, <1>12, <1>13, ShapeStep DEF IInv
<1>15. ASSUME ~raced' PROVE Safe'
  <2>1. ~raced /\ Safe
    BY <1>1, <1>15 DEF history, IInv
  <2>2. Touches(t)
    BY <1>1, <1>4, <1>8 DEF Touches, client, driver, policy, history
  <2>3. Stage(t)'
    BY <1>9 DEF Stage
  <2>4. Buried(t)'
    BY <2>1, <1>1, <1>6, <1>8 DEF Buried, Safe, At, policy, client
  <2>5. Dying(t)'
    <3> SUFFICES ASSUME Runs(t)', Me(t) \in dead PROVE thread[t].op = "Death"
      BY <1>1, <1>8 DEF Dying, history
    <3> SUFFICES ASSUME thread[t].op = "Suspend" PROVE FALSE
      BY <1>4
    <3>1. subs[Me(t)] # None
      BY <1>8
    <3>2. PICK u \in Threads : thread[u].op = "Death"
      BY <2>1, <3>1 DEF Safe, Gone
    <3>3. Runs(u) /\ u # t
      BY <3>2, Fields DEF IInv, Shape
    <3> QED BY <3>2, <3>3, <1>2, <2>1 DEF Safe, Apart, PowerOps
  <2>6. Rests'
    <3> SUFFICES ASSUME \A u \in Threads : ~Inside(u)' PROVE Served
      BY <1>1, ServedStays DEF Rests
    <3>1. \A u \in Threads : ~Inside(u)
      BY <1>2, <1>10 DEF Walks, Inside
    <3> QED BY <3>1, <2>1 DEF Safe, Rests
  <2> QED BY <2>1, <2>2, <2>3, <2>4, <2>5, <2>6, <1>10, <1>11, SafeStep DEF IInv
<1> QED BY <1>14, <1>15 DEF IInv

\* DestroySensorChannel keeps the invariant.
LEMMA DestroySensorChannelKeeps ==
    ASSUME IInv, NEW t \in Threads, DestroySensorChannel(t)
    PROVE  IInv'
<1>1. /\ At(t, "drop") /\ subs' = [subs EXCEPT ![Me(t)] = None]
      /\ fault' = (fault \/ Subscribers = {Me(t)})
      /\ Leaves(t) /\ Release(t)
      /\ UNCHANGED <<driver, policy, history>>
  BY DEF DestroySensorChannel
<1>2. Runs(t)
  BY <1>1, Fields DEF At, IInv, Shape
<1>3. thread[t].op \in Ops /\ Me(t) \in Pids /\ thread[t].at \in Path(thread[t].op)
  BY <1>2, Fields DEF IInv, Shape, Ways
<1>4. thread[t].op \in {"Destroy", "Death"}
  BY <1>1, <1>3 DEF Path, At
<1>5. Left(t)
  BY <1>1, LeavesLeft DEF IInv, Shape
<1>6. thread'[t].op = "none" /\ thread'[t].at = "none" /\ ~Runs(t)' /\ ~Inside(t)'
  BY <1>5 DEF Left, NoThread, Runs, Inside, Inner
<1>7. Walks(t)
  BY <1>2, <1>5, <1>6 DEF Left, Walks
<1>8. /\ subs \in [Pids -> Stored] /\ subs' \in [Pids -> Stored] /\ subs'[Me(t)] = None
      /\ \A p \in Pids \ {Me(t)} : subs'[p] = subs[p]
  BY <1>1, <1>3 DEF IInv, Shape, Data, Stored
<1>9. fault' \in BOOLEAN /\ (fault => fault') /\ (Subscribers = {Me(t)} => fault')
  BY <1>1 DEF IInv, Shape, Data
<1>10. Data'
  BY <1>1, <1>8, <1>9 DEF Data, driver, policy, history, IInv, Shape
<1>11. Locked(t)
  BY <1>1, <1>6, ReleaseLocked DEF policy
<1>12. WantsAt(t)'
  BY <1>6 DEF WantsAt
<1>13. Shape'
  BY <1>7, <1>10, <1>11, <1>12, ShapeStep DEF IInv
<1>14. ASSUME ~raced' PROVE Safe'
  <2>1. ~raced /\ Safe
    BY <1>1, <1>14 DEF history, IInv
  <2>2. ASSUME thread[t].op = "Death"
        PROVE  ~Inside(t) /\ UNCHANGED <<client, driver>>
    <3>1. subs[Me(t)] = None
      BY <2>1, <2>2, <1>1 DEF Safe, Buried, At
    <3>2. subs' = subs
      BY <3>1, <1>1, <1>8
    <3>3. Me(t) \notin Subscribers
      BY <3>1 DEF Subscribers
    <3>4. fault' = fault
      BY <3>3, <1>1 DEF IInv, Shape, Data
    <3>5. ~Inside(t)
      BY <2>2, <1>1 DEF Inside, Inner, At
    <3> QED BY <3>2, <3>4, <3>5, <1>1 DEF client
  <2>3. ASSUME thread[t].op = "Destroy"
        PROVE  Inside(t) /\ Served /\ Served'
    <3>1. Inside(t)
      BY <2>3, <1>1 DEF Inside, At
    <3>2. Served
      BY <2>1, <2>3, <3>1 DEF Safe, Stage
    <3> QED BY <3>1, <3>2, <1>1, <1>3, <1>8, <1>9, FewerServed
  <2>4. Touches(t)
    <3>1. Inside(t) \/ (subs' = subs /\ on' = on /\ rate' = rate /\ fault' = fault)
      BY <1>4, <2>2, <2>3 DEF client, driver
    <3>2. \A p \in Pids : ~(subs[p] = None /\ subs'[p] # None)
      BY <1>8
    <3> QED BY <3>1, <3>2, <1>1 DEF Touches, policy, history, At
  <2>5. Stage(t)' /\ Buried(t)' /\ Dying(t)'
    BY <1>6 DEF Stage, Buried, Dying
  <2>6. Rests'
    <3> SUFFICES ASSUME \A u \in Threads : ~Inside(u)' PROVE Served'
      BY DEF Rests
    <3>1. CASE thread[t].op = "Destroy"
      BY <3>1, <2>3
    <3>2. CASE thread[t].op = "Death"
      <4>1. \A u \in Threads : ~Inside(u)
        BY <3>2, <2>2, <1>7 DEF Walks, Inside
      <4> QED BY <4>1, <3>2, <2>1, <2>2, ServedStays DEF Safe, Rests
    <3> QED BY <3>1, <3>2, <1>4
  <2> QED BY <2>1, <2>4, <2>5, <2>6, <1>7, <1>10, SafeStep DEF IInv
<1> QED BY <1>13, <1>14 DEF IInv

\* The end of a handler keeps the invariant.
LEMMA EndKeeps ==
    ASSUME IInv, NEW t \in Threads, End(t)
    PROVE  IInv'
<1>1. At(t, "end") /\ Release(t) /\ UNCHANGED <<client, driver, history>>
  BY DEF End
<1>a. "end" \in Inner
  BY DEF Inner
<1>2. /\ Runs(t) /\ Inside(t) /\ thread[t].op \in Ops /\ "end" \in Path(thread[t].op)
      /\ Me(t) \in Pids /\ thread[t].period \in Stored
      /\ thread[t].flag \in BOOLEAN /\ thread[t].best \in 0 .. NoLimit
      /\ (~raced => (Subscribing(t) => Joining(t)) /\ (Leaving(t) => Parting(t)))
  BY <1>1, <1>a, AtInside
<1>3. thread[t].op \in Ops \ {"Destroy"}
  BY <1>2 DEF Path
<1>4. \/ /\ thread[t].op = "Suspend"
         /\ saved' = [saved EXCEPT ![Me(t)] = thread[t].period]
         /\ frozen' = frozen \cup {Me(t)}
      \/ thread[t].op = "Resume" /\ Forgotten(Me(t))
      \/ UNCHANGED policy
  BY DEF End
<1>5. \/ /\ Moved(t, "drop", thread[t].period, thread[t].flag, thread[t].best)
         /\ thread[t].op = "Death"
      \/ Left(t) /\ thread[t].op # "Death"
  <2>1. "drop" \in Labels
    BY DEF Labels
  <2>2. CASE thread[t].op = "Death"
    BY <2>1, <2>2, <1>2, GotoMoves DEF End, IInv, Shape
  <2>3. CASE thread[t].op # "Death"
    BY <2>3, LeavesLeft DEF End, IInv, Shape
  <2> QED BY <2>2, <2>3
<1>6. \/ /\ thread'[t].op = "Death" /\ thread[t].op = "Death" /\ Me(t)' = Me(t)
         /\ thread'[t].at = "drop" /\ Runs(t)'
      \/ /\ thread'[t].op = "none" /\ thread'[t].at = "none" /\ ~Runs(t)'
         /\ thread[t].op # "Death"
  BY <1>5 DEF Moved, Left, Me, Runs, NoThread
<1>7. ~Inside(t)'
  BY <1>6 DEF Inside, Inner
<1>8. Walks(t)
  <2>1. "drop" \in Path("Death")
    BY DEF Path
  <2> QED BY <2>1, <1>2, <1>5, <1>6 DEF Moved, Left, Walks, Me, Runs
<1>9. /\ saved' \in [Pids -> Stored] /\ frozen' \subseteq Pids
      /\ \A p \in Pids \ frozen' : saved'[p] = None
  <2>1. saved \in [Pids -> Stored] /\ frozen \subseteq Pids
        /\ \A p \in Pids \ frozen : saved[p] = None
    BY DEF IInv, Shape, Data
  <2>2. CASE saved' = [saved EXCEPT ![Me(t)] = thread[t].period]
             /\ frozen' = frozen \cup {Me(t)}
    BY <2>1, <2>2, <1>2
  <2>3. CASE Forgotten(Me(t))
    BY <2>1, <2>3, <1>2 DEF Forgotten, Stored
  <2>4. CASE UNCHANGED policy
    BY <2>1, <2>4 DEF policy
  <2> QED BY <1>4, <2>2, <2>3, <2>4
<1>10. Data'
  BY <1>1, <1>9 DEF Data, client, driver, history, IInv, Shape
<1>11. Locked(t)
  <2>1. ASSUME thread[t].op \in PowerOps PROVE locks["power"] = t
    BY <2>1, <1>2 DEF LockOf, Locks, IInv, Shape, Holders
  <2>2. saved' # saved => locks["power"] \in {None, t}
    BY <2>1, <1>4 DEF PowerOps, policy
  <2> QED BY <2>2, <1>1, <1>7, ReleaseLocked
<1>12. WantsAt(t)'
  BY <1>6 DEF WantsAt
<1>13. Shape'
  BY <1>8, <1>10, <1>11, <1>12, ShapeStep DEF IInv
<1>14. ASSUME ~raced' PROVE Safe'
  <2>1. ~raced /\ Safe
    BY <1>1, <1>14 DEF history, IInv
  <2>2. Touches(t)
    <3>1. frozen' \ frozen # {} =>
             frozen' \ frozen = {Me(t)} /\ thread[t].op = "Suspend" /\ thread[t].at = "end"
      BY <1>1, <1>4 DEF Forgotten, policy, At
    <3> QED BY <3>1, <1>1, <1>6 DEF Touches, client, driver, history
  <2>3. Served
    <3>1. Subscribing(t) \/ Leaving(t)
      BY <1>3 DEF Subscribing, Leaving, Ops, ServiceOps, PowerOps
    <3> QED BY <3>1, <2>1, <1>1, <1>2 DEF Joining, Parting, At
  <2>4. Stage(t)'
    BY <1>7 DEF Stage
  <2>5. Buried(t)'
    <3> SUFFICES ASSUME thread[t].op = "Death"
                 PROVE  Me(t) \notin frozen' /\ subs'[Me(t)] = None
      BY <1>6 DEF Buried
    <3>1. subs[Me(t)] = None
      BY <2>1, <1>1, <1>2 DEF Leaving, Parting, At
    <3>2. Me(t) \notin frozen
      BY <2>1, <1>1 DEF Safe, Buried, At
    <3>3. frozen' = frozen
      BY <1>4 DEF policy
    <3> QED BY <3>1, <3>2, <3>3, <1>1 DEF client
  <2>6. Dying(t)'
    BY <1>6 DEF Dying
  <2>7. Rests'
    BY <2>3, <1>1, ServedStays DEF Rests
  <2> QED BY <2>1, <2>2, <2>4, <2>5, <2>6, <2>7, <1>8, <1>10, SafeStep DEF IInv
<1> QED BY <1>13, <1>14 DEF IInv

-----------------------------------------------------------------------------
(* The beginning of a handler                                              *)

\* A handler that begins does so outside, on its path, and if it overlaps no
\* other kind, finds everything as it needs it.
LEMMA BeginKeeps ==
    ASSUME IInv, NEW t \in Threads, NEW op \in Ops, NEW p \in Pids, NEW period \in Stored,
           op = "Enable" => period # None, Begin(t, op, p, period)
    PROVE  IInv'
<1> DEFINE r == [op |-> op, pid |-> p, period |-> period, at |-> First[op],
                 flag |-> FALSE, best |-> NoLimit]
<1>1. /\ thread[t] = NoThread /\ calls < MaxCalls /\ (op \in ServiceOps => p \notin dead)
      /\ thread' = [thread EXCEPT ![t] = r]
      /\ dead' = (IF op = "Death" THEN dead \cup {p} ELSE dead)
      /\ raced' = (raced \/ \E u \in Threads : Overlap(op, p, u))
      /\ calls' = calls + 1
      /\ UNCHANGED <<subs, on, rate, saved, frozen, locks, fault>>
  BY DEF Begin
<1>2. First[op] = (CASE op = "Death" -> "bury" [] op = "Suspend" -> "snapshot"
                     [] op = "Resume" -> "power" [] OTHER -> "service")
  BY DEF First, Ops, ServiceOps, PowerOps
<1>3. /\ First[op] \in Labels /\ First[op] \in Path(op) /\ First[op] \notin Inner
      /\ First[op] # "drop" /\ First[op] \notin Asking
      /\ op = "Death" => First[op] = "bury"
      /\ op = "Suspend" => First[op] = "snapshot"
      /\ op = "Resume" => First[op] = "power"
  BY <1>2 DEF Ops, ServiceOps, PowerOps, Labels, Path, Inner, Asking
<1>4. r \in Running
  <2>1. NoLimit \in 0 .. NoLimit
    BY Numbers
  <2> QED BY <1>3, <2>1 DEF Running
<1>5. r.op = op /\ r.pid = p /\ r.period = period /\ r.at = First[op]
  OBVIOUS
<1> HIDE DEF r
<1>6. r # NoThread
  BY <1>5 DEF NoThread, Ops, ServiceOps, PowerOps
<1>7. /\ thread'[t] = r /\ (\A u \in Threads \ {t} : thread'[u] = thread[u])
      /\ thread' \in [Threads -> {NoThread} \cup Running]
  BY <1>1, <1>4 DEF IInv, Shape, Control
<1>8. Runs(t)' /\ ~Inside(t)' /\ Me(t)' = p /\ ~Runs(t) /\ ~Inside(t)
  <2>1. Runs(t)' /\ ~Inside(t)' /\ Me(t)' = p /\ ~Runs(t)
    BY <1>1, <1>3, <1>5, <1>6, <1>7 DEF Runs, Inside, Me
  <2> QED BY <2>1, Fields DEF IInv, Shape
<1>9. \A u \in Threads : Inside(u)' <=> Inside(u)
  BY <1>7, <1>8 DEF Inside
<1>10. Data'
  <2>1. calls' \in 0 .. MaxCalls
    BY <1>1, PeriodsAssumption DEF IInv, Shape, Data
  <2>2. raced' \in BOOLEAN /\ dead' \subseteq Pids
    BY <1>1 DEF IInv, Shape, Data
  <2> QED BY <1>1, <2>1, <2>2 DEF Data, IInv, Shape
<1>11. Shape'
  <2>1. Control'
    BY <1>1, <1>7 DEF Control, IInv, Shape
  <2>2. Ways'
    <3> SUFFICES ASSUME NEW u \in Threads, Runs(u)'
                 PROVE  thread'[u].at \in Path(thread'[u].op)
      BY DEF Ways
    <3>1. CASE u = t
      BY <3>1, <1>3, <1>5, <1>7
    <3>2. CASE u # t
      BY <3>2, <1>7 DEF Runs, IInv, Shape, Ways
    <3> QED BY <3>1, <3>2
  <2>3. Holders'
    <3> SUFFICES ASSUME NEW u \in Threads, NEW l \in Locks
                 PROVE  locks[l] = u <=> Inside(u)' /\ LockOf(u)' = l
      BY <1>1 DEF Holders
    <3>1. CASE u = t
      BY <3>1, <1>8 DEF IInv, Shape, Holders
    <3>2. CASE u # t
      BY <3>2, <1>7, <1>9 DEF LockOf, IInv, Shape, Holders
    <3> QED BY <3>1, <3>2
  <2>4. Wants'
    <3> SUFFICES ASSUME NEW u \in Threads PROVE WantsAt(u)'
      BY DEF Wants, WantsAt
    <3>1. CASE u = t
      BY <3>1, <1>3, <1>5, <1>7 DEF WantsAt
    <3>2. CASE u # t
      BY <3>2, <1>1, <1>7 DEF WantsAt, Me, IInv, Shape, Wants
    <3> QED BY <3>1, <3>2
  <2> QED BY <1>10, <2>1, <2>2, <2>3, <2>4 DEF Shape
<1>12. ASSUME ~raced' PROVE Safe'
  <2>1. ~raced /\ Safe /\ \A u \in Threads : ~Overlap(op, p, u)
    BY <1>1, <1>12 DEF IInv
  <2>2. ASSUME NEW u \in Threads, Runs(u)
        PROVE  /\ op \in PowerOps <=> thread[u].op \in PowerOps
               /\ "Death" \in {op, thread[u].op} => Me(u) # p
    BY <2>1, <2>2 DEF Overlap, Runs, Me
  <2>3. Apart'
    <3> SUFFICES ASSUME NEW u \in Threads, NEW v \in Threads, Runs(u)', Runs(v)', u # v
                 PROVE  (/\ thread[u].op \in PowerOps <=> thread[v].op \in PowerOps
                         /\ thread[u].op = "Death" => Me(u) # Me(v))'
      BY DEF Apart
    <3>1. \A w \in Threads \ {t} : (Runs(w)' <=> Runs(w)) /\ thread'[w] = thread[w]
                                   /\ Me(w)' = Me(w)
      BY <1>7 DEF Runs, Me
    <3>2. CASE u = t
      BY <3>1, <3>2, <2>2, <1>5, <1>7, <1>8
    <3>3. CASE v = t
      BY <3>1, <3>3, <2>2, <1>5, <1>7, <1>8
    <3>4. CASE u # t /\ v # t
      BY <3>1, <3>4, <2>1 DEF Safe, Apart
    <3> QED BY <3>2, <3>3, <3>4
  <2>4. Gone'
    <3> SUFFICES ASSUME NEW q \in dead'
                 PROVE  \/ \E u \in Threads : thread'[u].op = "Death" /\ Me(u)' = q
                        \/ subs[q] = None /\ q \notin frozen
      BY <1>1 DEF Gone
    <3>1. CASE op = "Death" /\ q = p
      BY <3>1, <1>5, <1>7, <1>8
    <3>2. CASE q \in dead
      <4>1. ASSUME NEW u \in Threads, thread[u].op = "Death", Me(u) = q
            PROVE  thread'[u].op = "Death" /\ Me(u)' = q
        <5>1. u # t
          BY <4>1, <1>1 DEF NoThread
        <5> QED BY <4>1, <5>1, <1>7 DEF Me
      <4> QED BY <3>2, <4>1, <2>1 DEF Safe, Gone
    <3> QED BY <3>1, <3>2, <1>1
  <2>5. Served' <=> Served
    BY <1>1, ServedStays DEF client, driver
  <2>6. Rests'
    BY <2>1, <2>5, <1>9 DEF Safe, Rests
  <2>7. Stage(t)' /\ Buried(t)' /\ Dying(t)'
    <3>1. Stage(t)'
      BY <1>8 DEF Stage
    <3>2. Buried(t)'
      BY <1>3, <1>5, <1>7 DEF Buried
    <3>3. Dying(t)'
      BY <1>1, <1>3, <1>5, <1>7, <1>8 DEF Dying, Ops, PowerOps
    <3> QED BY <3>1, <3>2, <3>3
  <2>8. ASSUME NEW u \in Threads, u # t
        PROVE  (Stage(u) /\ Buried(u) /\ Dying(u))'
    <3>1. /\ thread'[u] = thread[u] /\ Me(u)' = Me(u) /\ Stage(u) /\ Buried(u) /\ Dying(u)
          /\ (Runs(u)' <=> Runs(u)) /\ (Inside(u)' <=> Inside(u))
      BY <2>1, <2>8, <1>7 DEF Safe, Me, Runs, Inside
    <3>2. Stage(u)'
      <4>1. BestIsLow(u)' <=> BestIsLow(u)
        BY <1>1, <3>1 DEF BestIsLow, Subscribers
      <4>2. Joining(u) => Joining(u)'
        BY <1>1, <2>5, <3>1, <4>1 DEF Joining, Subscribers
      <4>3. Parting(u) => Parting(u)'
        BY <1>1, <2>5, <3>1, <4>1 DEF Parting, Subscribers
      <4> QED BY <2>5, <3>1, <4>2, <4>3 DEF Stage, Subscribing, Leaving
    <3>3. Buried(u)'
      BY <1>1, <3>1 DEF Buried
    <3>4. Dying(u)'
      BY <1>1, <2>2, <3>1 DEF Dying
    <3> QED BY <3>2, <3>3, <3>4
  <2> QED BY <2>3, <2>4, <2>6, <2>7, <2>8 DEF Safe
<1> QED BY <1>11, <1>12 DEF IInv

-----------------------------------------------------------------------------
(* The theorems                                                            *)

\* The invariant holds at the start.
LEMMA InitHolds ==
    ASSUME Init PROVE IInv
<1>1. \A t \in Threads : thread[t].op = "none" /\ thread[t].at = "none" /\ ~Runs(t)
  BY DEF Init, NoThread, Runs
<1>2. \A t \in Threads : ~Inside(t)
  BY <1>1 DEF Inside, Inner
<1>3. Data
  <2>1. NoLimit \in 0 .. NoLimit /\ 0 \in 0 .. MaxCalls
    BY PeriodsAssumption
  <2> QED BY <2>1 DEF Init, Data, Stored
<1>4. Control
  <2>1. locks = [l \in Locks |-> None]
    BY DEF Init, Locks
  <2> QED BY <2>1 DEF Init, Control
<1>5. Ways /\ Wants
  BY <1>1 DEF Ways, Wants
<1>6. Holders
  <2>1. \A l \in Locks : locks[l] = None
    BY DEF Init, Locks
  <2> QED BY <2>1, <1>2, PeriodsAssumption DEF Holders
<1>7. Subscribers = {} /\ ~on /\ dead = {}
  BY DEF Init, Subscribers
<1>8. Apart /\ Gone /\ Rests
  BY <1>1, <1>7 DEF Apart, Gone, Rests, Served
<1>9. \A t \in Threads : Stage(t) /\ Buried(t) /\ Dying(t)
  BY <1>1, <1>2 DEF Stage, Buried, Dying
<1> QED BY <1>3, <1>4, <1>5, <1>6, <1>8, <1>9 DEF IInv, Shape, Safe

\* Nothing changes when nothing happens.
LEMMA StutterKeeps ==
    ASSUME IInv, UNCHANGED vars PROVE IInv'
BY DEF vars, IInv, Shape, Data, Control, Ways, Holders, Wants, Safe, Apart, Gone, Rests,
       Served, Subscribers, Stage, Buried, Dying, Joining, Parting, BestIsLow, Subscribing, Leaving,
       Inside, LockOf, Runs, Me

\* Every step of the service keeps the invariant.
LEMMA NextKeeps ==
    ASSUME IInv, [Next]_vars PROVE IInv'
<1>1. ASSUME NEW t \in Threads, Step(t) PROVE IInv'
  BY <1>1, LockServiceKeeps, LockPowerKeeps, ForgetKeeps, SnapshotKeeps, GetSensorStateKeeps,
     UpdateSensorInfoKeeps, GetBestSensorInfoKeeps, SetBatchKeeps, EnableSensorKeeps,
     GetCurPidSensorInfoKeeps, OnlyCurPidSensorEnabledKeeps, DisableSensorKeeps,
     ClearSensorInfoKeeps, ClearCurPidSensorInfoKeeps, DestroySensorChannelKeeps, EndKeeps
  DEF Step
<1>2. ASSUME NEW t \in Threads, NEW p \in Pids, NEW period \in Periods,
             Begin(t, "Enable", p, period)
      PROVE  IInv'
  <2>1. period \in Stored /\ period # None /\ "Enable" \in Ops
    BY Numbers DEF Stored, Ops, ServiceOps
  <2> QED BY <1>2, <2>1, BeginKeeps
<1>3. ASSUME NEW t \in Threads, NEW p \in Pids, NEW op \in Ops \ {"Enable"},
             Begin(t, op, p, None)
      PROVE  IInv'
  BY <1>3, BeginKeeps DEF Stored
<1>4. ASSUME Done \/ UNCHANGED vars PROVE IInv'
  BY <1>4, StutterKeeps DEF Done
<1> QED BY <1>1, <1>2, <1>3, <1>4 DEF Next

\* The inductive invariant holds of every reachable state: the handlers of one
\* kind find the subscriptions, at every label, as if they ran alone.
THEOREM Inductive == Spec => []IInv
<1>1. Init => IInv
  BY InitHolds
<1>2. IInv /\ [Next]_vars => IInv'
  BY NextKeeps
<1> QED BY <1>1, <1>2, PTL DEF Spec

\* Every variable keeps its type: the lock of a thread that runs nothing is
\* free, and no process has a saved entry without being known as suspended.
THEOREM AlwaysTyped == Spec => []TypeOK
<1>1. IInv => TypeOK
  BY ShapeTypes DEF IInv
<1> QED BY <1>1, Inductive, PTL

\* While no handler runs, nobody is inside.
LEMMA QuietIsOutside ==
    ASSUME IInv, Quiet PROVE \A t \in Threads : ~Inside(t) /\ thread[t].op = "none"
BY Fields DEF Quiet, Runs, IInv, Shape

\* serviceLock_ and pidSensorInfoMutex_ make every handler one step for those
\* of its kind: at rest, and when the two kinds never overlapped, whoever is
\* subscribed is served by a driver that is on and fast enough, and without
\* subscribers it is off, unless a channel was destroyed under the last one.
THEOREM AlwaysIsolated == Spec => []Isolated
<1>1. IInv => Isolated
  <2> SUFFICES ASSUME IInv, Quiet, ~raced PROVE Served
    BY DEF Isolated, Served
  <2> QED BY QuietIsOutside DEF IInv, Safe, Rests
<1> QED BY <1>1, Inductive, PTL

\* The death of a process leaves neither a subscription of it nor a saved
\* entry that ResumeSensors would bring back, when no call of its own and none
\* of the power manager was still running.
THEOREM AlwaysDeadAreGone == Spec => []DeadAreGone
<1>1. IInv => DeadAreGone
  <2> SUFFICES ASSUME IInv, Quiet, ~raced, NEW p \in dead
               PROVE  subs[p] = None /\ p \notin frozen
    BY DEF DeadAreGone
  <2>1. \A t \in Threads : thread[t].op # "Death"
    BY QuietIsOutside
  <2> QED BY <2>1 DEF IInv, Safe, Gone
<1> QED BY <1>1, Inductive, PTL

=============================================================================
