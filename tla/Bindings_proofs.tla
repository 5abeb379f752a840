---------------------------- MODULE Bindings_proofs ----------------------------
(***************************************************************************)
(* The safety of the language bindings, for any environments, functions,   *)
(* sensors, arrays and queues, and without the bounds of Bindings: its     *)
(* parts may be looked at together, and calls go on after an overlap, a    *)
(* refusal or a disturbed reader.                                          *)
(***************************************************************************)
EXTENDS Bindings, LeastOfNats, SequenceTheorems

-----------------------------------------------------------------------------
(* The specification without its bounds                                    *)

TablesStep ==
    JsNext \/ EtsNext \/ CjNext \/ \E t \in Envs : SubscribeSensor(t) \/ ActivateSensor(t)

FreeNext ==
    \/ TablesStep /\ UNCHANGED <<listVars, statusVars>>
    \/ ListsNext /\ UNCHANGED <<vars, statusVars>>
    \/ StatusNext /\ UNCHANGED <<vars, listVars>>
FreeSpec == AllInit /\ [][FreeNext]_allVars

-----------------------------------------------------------------------------
(* The invariant of the tables                                             *)

Labels == {"idle", "subscribe", "activate", "record", "checkOn", "checkSystem", "unsubscribe",
           "remove", "emitSystem", "emitOnce", "emitOn", "inOn"}
Ops == {"none", "on", "once", "system", "off", Plug}
ThreadShape == [at : Labels, op : Ops, d : Sensors, fn : Functions \cup {Idle.fn}]

Keys == {Key(d) : d \in Sensors}
Emitting == {"emitSystem", "emitOnce", "emitOn", "inOn"}

IsTable(table) ==
    /\ DOMAIN table \subseteq Keys
    /\ \A k \in DOMAIN table : \A x \in table[k] : x.d \in Sensors /\ Key(x.d) = k

\* What every variable holds. Nothing fills the other tables of Cangjie.
TablesShape ==
    /\ lang \in {"js", "ets", "cj"}
    /\ subscribed \subseteq Sensors /\ enabled \subseteq Sensors /\ stray \subseteq Sensors
    /\ IsTable(on) /\ IsTable(once) /\ IsTable(system)
    /\ lang = "cj" => DOMAIN system = {}
    /\ pc \in [Threads -> ThreadShape]
    /\ errors \in Nat

\* A thread is at one of these places for sensor k of the tables.
In(k, t, places) == pc[t].op # Plug /\ pc[t].d = k /\ pc[t].at \in places

\* A callback for k is on its way into a table. On the way from subscribe it can still
\* stop, from record not.
Comers == {{"record"}, {"activate", "record"}}
Coming(k, places) == \E t \in Threads : In(k, t, places)

\* Nothing is empty under its key, and nothing is enabled that is not subscribed.
Clean(k) ==
    /\ \A d \in enabled : Key(d) = k => d \in subscribed
    /\ k \in DOMAIN on => on[k] # {}
    /\ k \in DOMAIN once => once[k] # {}
    /\ k \in DOMAIN system => system[k] # {}

\* Who is in a table is reached, or about to be taken out (Cangjie).
Reached(k) ==
    \/ \E t \in Threads : In(k, t, {"remove"})
    \/ \A x \in At(on, k) \cup At(system, k) : x.d \in subscribed \cap enabled

\* What is reported is for somebody, or somebody sees to it; and so is what is subscribed,
\* unless a subscription stopped halfway.
ForSomebody(k, places) ==
    \/ At(on, k) \cup At(once, k) \cup At(system, k) # {}
    \/ Coming(k, places) \/ Coming(k, Removing)
Justified(k) ==
    /\ k \in enabled => ForSomebody(k, {"record"})
    /\ k \in subscribed \ stray => ForSomebody(k, {"activate", "record"})

\* What a thread relies on at each place.
Stage(t) ==
    LET k == Key(pc[t].d) IN
    /\ pc[t].at = "record" /\ pc[t].op \in {"on", "system"} =>
          pc[t].d \in subscribed \cap enabled
    /\ pc[t].at \in Registering /\ lang = "cj" => pc[t].op = "on"
    /\ pc[t].at \in Removing => pc[t].d = k
    /\ pc[t].at = "checkSystem" => k \notin DOMAIN on
    /\ pc[t].at = "checkOn" /\ pc[t].op # "once" => k \notin DOMAIN system
    /\ pc[t].at = "unsubscribe" /\ lang # "cj" => k \notin DOMAIN on \cup DOMAIN system
    /\ pc[t].at = "remove" =>
          /\ lang = "cj"
          /\ k \in enabled => Coming(k, {"record"})
          /\ k \in subscribed \ stray => Coming(k, {"activate", "record"})

Of(t, k) == pc[t].op # Plug /\ Key(pc[t].d) = k

Good(k) ==
    /\ Clean(k) /\ Reached(k) /\ Justified(k)
    /\ \A t \in Threads : Of(t, k) => Stage(t)

Agrees == \A k \in Keys \ excused : Good(k)

\* An event goes to the callbacks of its sensor; calls about status changes have two places.
Placed ==
    \A t \in Threads :
        /\ pc[t].at \in Emitting => pc[t].op = "once" /\ (lang = "ets" => pc[t].d = Local)
        /\ pc[t].op = Plug => lang = "js" /\ pc[t].at \in {"record", "unsubscribe"}

\* JavaScript: who waits for status changes is told of them, unless somebody just took
\* the last function away.
PlugShape == [cbs : SUBSET (Functions \cup {Idle.fn}), user : BOOLEAN]
PlugAgrees ==
    /\ plug.cbs # {} => plug.user
    /\ \A e \in Envs : pc[e].op = Plug =>
          /\ pc[e].at = "record" => plug.user
          /\ pc[e].at = "unsubscribe" => plug.cbs = {}
Plugged ==
    lang = "js" => plug \in PlugShape /\ (Plug \notin excused => PlugAgrees)

\* A call that is under way has an answer, and somebody to give it to.
Answering ==
    call = NoCall \/ /\ [type |-> call.type, code |-> call.code] \in Answers
                     /\ call.how \in {"callback", "promise"}

-----------------------------------------------------------------------------
(* Tables and threads                                                      *)

\* The key of a device is a key, and its own; only ETS has one key for all devices.
LEMMA KeyIs ==
    ASSUME NEW d \in Sensors
    PROVE  /\ Key(d) \in Keys /\ Key(d) \in Sensors /\ Key(Key(d)) = Key(d)
           /\ lang # "ets" => Key(d) = d
           /\ lang = "ets" => Key(d) = Local
BY DEF Keys, Key, Sensors

\* A key is a device with itself as its key.
LEMMA KeysAre ==
    ASSUME NEW k \in Keys
    PROVE  k \in Sensors /\ Key(k) = k
BY DEF Keys, Key, Sensors

\* A thread that does nothing has the shape of a thread.
LEMMA IdleIs ==
    /\ Idle \in ThreadShape /\ Idle.at = "idle" /\ Idle.op = "none" /\ Idle.d = Local
    /\ Idle.fn \in Functions \cup {Idle.fn}
BY DEF Idle, ThreadShape, Labels, Ops, Sensors, Plug

\* Put changes a table at one key.
LEMMA PutIs ==
    ASSUME NEW T, NEW k, NEW s
    PROVE  /\ DOMAIN Put(T, k, s) = DOMAIN T \cup {k}
           /\ Put(T, k, s)[k] = s /\ At(Put(T, k, s), k) = s
           /\ \A j \in DOMAIN T : j # k => Put(T, k, s)[j] = T[j]
           /\ \A j : j # k => At(Put(T, k, s), j) = At(T, j)
BY DEF Put, At

\* Drop takes one key out of a table.
LEMMA DropIs ==
    ASSUME NEW T, NEW k
    PROVE  /\ DOMAIN Drop(T, k) = DOMAIN T \ {k}
           /\ At(Drop(T, k), k) = {}
           /\ \A j \in DOMAIN T : j # k => Drop(T, k)[j] = T[j]
           /\ \A j : j # k => At(Drop(T, k), j) = At(T, j)
BY DEF Drop, At

\* A table after Drop, as the steps below use it.
LEMMA AfterDrop ==
    ASSUME NEW T, NEW k, NEW U, U = Drop(T, k)
    PROVE  /\ k \notin DOMAIN U /\ At(U, k) = {}
           /\ \A j : j # k => (j \in DOMAIN U <=> j \in DOMAIN T) /\ At(U, j) = At(T, j)
BY DEF Drop, At

\* A table after Put, as the steps below use it.
LEMMA AfterPut ==
    ASSUME NEW T, NEW k, NEW s, NEW U, U = Put(T, k, s)
    PROVE  /\ k \in DOMAIN U /\ U[k] = s /\ At(U, k) = s
           /\ \A j : j # k => (j \in DOMAIN U <=> j \in DOMAIN T) /\ At(U, j) = At(T, j)
BY DEF Put, At

\* Put keeps a table a table when the functions belong to the key.
LEMMA PutIsTable ==
    ASSUME NEW T, IsTable(T), NEW k \in Keys, NEW s,
           \A x \in s : x.d \in Sensors /\ Key(x.d) = k
    PROVE  IsTable(Put(T, k, s))
<1> DEFINE U == Put(T, k, s)
<1>1. /\ DOMAIN U = DOMAIN T \cup {k} /\ U[k] = s
      /\ \A j \in DOMAIN T : j # k => U[j] = T[j]
  BY DEF Put
<1>2. ASSUME NEW j \in DOMAIN U, NEW x \in U[j]
      PROVE  x.d \in Sensors /\ Key(x.d) = j
  <2> HIDE DEF U
  <2> QED BY <1>1, <1>2 DEF IsTable
<1> QED BY <1>1, <1>2 DEF IsTable

\* Drop keeps a table a table.
LEMMA DropIsTable ==
    ASSUME NEW T, IsTable(T), NEW k
    PROVE  IsTable(Drop(T, k))
<1> DEFINE U == Drop(T, k)
<1>1. /\ DOMAIN U = DOMAIN T \ {k}
      /\ \A j \in DOMAIN T : j # k => U[j] = T[j]
  BY DropIs
<1>2. ASSUME NEW j \in DOMAIN U, NEW x \in U[j]
      PROVE  x.d \in Sensors /\ Key(x.d) = j
  <2> HIDE DEF U
  <2> QED BY <1>1, <1>2 DEF IsTable
<1> QED BY <1>1, <1>2 DEF IsTable

\* What a table has at a key are functions of that key.
LEMMA AtIs ==
    ASSUME NEW T, IsTable(T), NEW k
    PROVE  /\ \A x \in At(T, k) : x.d \in Sensors /\ Key(x.d) = k
           /\ k \notin Keys => At(T, k) = {}
BY DEF IsTable, At

\* Where threads are after a step of t.
LEMMA OneMoves ==
    ASSUME pc \in [Threads -> ThreadShape], NEW t \in Threads, NEW x \in ThreadShape,
           pc' = [pc EXCEPT ![t] = x]
    PROVE  /\ pc' \in [Threads -> ThreadShape]
           /\ pc'[t] = x /\ \A u \in Threads \ {t} : pc'[u] = pc[u]
OBVIOUS

\* Goto moves one thread, which keeps its call unless it ends.
LEMMA GotoIs ==
    ASSUME TablesShape, NEW t \in Threads, NEW at \in Labels, Goto(t, at)
    PROVE  /\ pc' \in [Threads -> ThreadShape]
           /\ pc'[t].at = at /\ \A u \in Threads \ {t} : pc'[u] = pc[u]
           /\ at = "idle" => pc'[t] = Idle
           /\ at # "idle" => pc'[t].op = pc[t].op /\ pc'[t].d = pc[t].d
<1> DEFINE x == IF at = "idle" THEN Idle ELSE [pc[t] EXCEPT !.at = at]
<1>1. x \in ThreadShape /\ x.at = at
  BY IdleIs DEF TablesShape, ThreadShape
<1>2. pc' = [pc EXCEPT ![t] = x]
  BY DEF Goto
<1>3. pc'[t] = x
  BY <1>1, <1>2, OneMoves DEF TablesShape
<1>4. at # "idle" => x.op = pc[t].op /\ x.d = pc[t].d
  BY DEF TablesShape, ThreadShape
<1> QED BY <1>1, <1>2, <1>3, <1>4, OneMoves DEF TablesShape

\* Enter puts one thread into a call.
LEMMA EnterIs ==
    ASSUME TablesShape, NEW t \in Threads, NEW at \in Labels, NEW op \in Ops,
           NEW d \in Sensors, NEW f \in Functions \cup {Idle.fn}, Enter(t, at, op, d, f)
    PROVE  /\ pc' \in [Threads -> ThreadShape]
           /\ pc'[t].at = at /\ pc'[t].op = op /\ pc'[t].d = d
           /\ \A u \in Threads \ {t} : pc'[u] = pc[u]
<1> DEFINE x == [at |-> at, op |-> op, d |-> d, fn |-> f]
<1>1. x \in ThreadShape
  BY DEF ThreadShape
<1>2. pc' = [pc EXCEPT ![t] = x]
  BY DEF Enter
<1> QED BY <1>1, <1>2, OneMoves DEF TablesShape

\* A key is not excused only when no other thread is at the places named.
LEMMA OverlapIs ==
    ASSUME NEW t \in Threads, NEW k, NEW places, excused' = Overlap(t, k, places)
    PROVE  /\ excused \subseteq excused'
           /\ k \notin excused' => \A u \in Threads \ {t} : Of(u, k) => pc[u].at \notin places
BY DEF Overlap, Of

-----------------------------------------------------------------------------
(* Steps                                                                   *)

\* A step of t at which no callback comes in and nothing is switched on or off.
Shrunk(T, U, k) ==
    /\ At(U, k) \subseteq At(T, k)
    /\ k \in DOMAIN U => k \in DOMAIN T /\ U[k] # {}

\* A step that only takes functions away keeps a key good.
LEMMA ShrinkKeeps ==
    ASSUME TablesShape, NEW k \in Keys, Good(k), NEW t \in Threads,
           lang' = lang, pc' \in [Threads -> ThreadShape],
           \A u \in Threads \ {t} : pc'[u] = pc[u],
           \A d \in Sensors : Key(d) = k =>
               /\ d \in subscribed' <=> d \in subscribed
               /\ d \in enabled' <=> d \in enabled
               /\ d \in stray' <=> d \in stray,
           subscribed' \subseteq Sensors, enabled' \subseteq Sensors,
           Shrunk(on, on', k), Shrunk(once, once', k), Shrunk(system, system', k),
           Of(t, k) => pc[t].at \notin {"activate", "record"},
           In(k, t, {"remove"}) => At(on, k)' = {} /\ At(system, k)' = {},
           Justified(k)', Of(t, k)' => Stage(t)'
    PROVE  Good(k)'
<1>1. k \in Sensors /\ Key(k) = k /\ \A d : Key(d)' = Key(d)
  BY KeysAre DEF Key
<1>2. Clean(k)'
  BY <1>1 DEF Good, Clean, Shrunk
<1>3. Reached(k)'
  <2>1. CASE \E u \in Threads : In(k, u, {"remove"})
    <3>1. PICK u \in Threads : In(k, u, {"remove"})
      BY <2>1
    <3>2. CASE u = t
      BY <3>1, <3>2 DEF Reached, At
    <3>3. CASE u # t
      BY <3>1, <3>3 DEF Reached, In
    <3> QED BY <3>2, <3>3
  <2>2. CASE \A x \in At(on, k) \cup At(system, k) : x.d \in subscribed \cap enabled
    <3>1. \A x \in At(on, k) \cup At(system, k) : x.d \in Sensors /\ Key(x.d) = k
      BY AtIs DEF TablesShape
    <3>2. /\ At(on, k)' \subseteq At(on, k) /\ At(system, k)' \subseteq At(system, k)
      BY DEF Shrunk, At
    <3> QED BY <2>2, <3>1, <3>2 DEF Reached
  <2> QED BY <2>1, <2>2 DEF Good, Reached
<1>4. ASSUME NEW places \in Comers, Coming(k, places)
      PROVE  Coming(k, places)'
  <2>1. PICK u \in Threads : In(k, u, places)
    BY <1>4 DEF Coming
  <2>2. u # t
    BY <1>1, <2>1 DEF In, Of, Comers
  <2> QED BY <2>1, <2>2 DEF Coming, In
<1>5. ASSUME NEW u \in Threads, Of(u, k)'
      PROVE  Stage(u)'
  <2>1. CASE u = t
    BY <1>5, <2>1
  <2>2. CASE u # t
    <3>1. pc'[u] = pc[u] /\ Stage(u) /\ Key(pc[u].d) = k /\ pc[u].d \in Sensors
      BY <1>1, <1>5, <2>2 DEF Of, Good, TablesShape, ThreadShape
    <3>2. k \notin DOMAIN on => k \notin DOMAIN on'
      BY DEF Shrunk
    <3>3. k \notin DOMAIN system => k \notin DOMAIN system'
      BY DEF Shrunk
    <3>4. /\ pc[u].d \in subscribed \cap enabled => pc[u].d \in subscribed' \cap enabled'
          /\ k \in enabled' => k \in enabled
          /\ k \in subscribed' \ stray' => k \in subscribed \ stray
      BY <1>1, <3>1
    <3>5. \A places \in Comers : Coming(k, places) => Coming(k, places)'
      BY <1>4
    <3> QED BY <1>1, <3>1, <3>2, <3>3, <3>4, <3>5 DEF Stage, Comers
  <2> QED BY <2>1, <2>2
<1> QED BY <1>2, <1>3, <1>5 DEF Good

\* A step of t that is not about k.
Same(T, U, k) == (k \in DOMAIN U <=> k \in DOMAIN T) /\ At(U, k) = At(T, k)

\* A table that stays the same at a key has lost nothing there.
LEMMA SameIsShrunk ==
    ASSUME NEW T, NEW U, NEW k, Same(T, U, k), k \in DOMAIN T => T[k] # {}
    PROVE  Shrunk(T, U, k)
BY DEF Shrunk, Same, At

\* A step that leaves the tables at a key keeps it good.
LEMMA OthersKeep ==
    ASSUME TablesShape, NEW k \in Keys, Good(k), NEW t \in Threads,
           lang' = lang, pc' \in [Threads -> ThreadShape],
           \A u \in Threads \ {t} : pc'[u] = pc[u],
           \A d \in Sensors : Key(d) = k =>
               /\ d \in subscribed' <=> d \in subscribed
               /\ d \in enabled' <=> d \in enabled
               /\ d \in stray' <=> d \in stray,
           subscribed' \subseteq Sensors, enabled' \subseteq Sensors,
           Same(on, on', k), Same(once, once', k), Same(system, system', k),
           Of(t, k) => pc[t].at \notin {"activate", "record"} \cup Removing,
           Of(t, k)' => Stage(t)'
    PROVE  Good(k)'
<1>1. k \in Sensors /\ Key(k) = k /\ Clean(k)
  BY KeysAre DEF Good
<1>2. Shrunk(on, on', k) /\ Shrunk(once, once', k) /\ Shrunk(system, system', k)
  BY <1>1, SameIsShrunk DEF Clean
<1>3. Of(t, k) => pc[t].at \notin {"activate", "record"}
  OBVIOUS
<1>4. ~In(k, t, {"activate", "record"}) /\ ~In(k, t, Removing) /\ ~In(k, t, {"remove"})
  BY <1>1 DEF In, Of, Removing
<1>5. Justified(k)'
  <2> SUFFICES ASSUME NEW places \in Comers, ForSomebody(k, places)
               PROVE  ForSomebody(k, places)'
    BY <1>1 DEF Good, Justified, Comers
  <2>1. CASE \E u \in Threads : In(k, u, places) \/ In(k, u, Removing)
    <3>1. PICK u \in Threads : In(k, u, places) \/ In(k, u, Removing)
      BY <2>1
    <3>2. u # t
      BY <1>4, <3>1 DEF In, Comers
    <3> QED BY <3>1, <3>2 DEF ForSomebody, Coming, In
  <2>2. CASE At(on, k) \cup At(once, k) \cup At(system, k) # {}
    BY <2>2 DEF ForSomebody, Same
  <2> QED BY <2>1, <2>2 DEF ForSomebody, Coming
<1> QED BY <1>1, <1>2, <1>3, <1>4, <1>5, ShrinkKeeps

\* A step of t that changes nothing but where t is.
LEMMA MoveKeeps ==
    ASSUME TablesShape, Agrees, NEW t \in Threads,
           UNCHANGED <<lang, agent, tables, excused>>, errors' \in {errors, errors + 1},
           pc' \in [Threads -> ThreadShape], \A u \in Threads \ {t} : pc'[u] = pc[u],
           pc[t].op # Plug => pc[t].at \notin {"activate", "record", "remove"},
           \A k \in Keys \ excused : In(k, t, Removing) =>
               In(k, t, Removing)' \/ At(on, k) \cup At(system, k) # {},
           \A k \in Keys \ excused : Of(t, k)' => Stage(t)'
    PROVE  TablesShape' /\ Agrees'
<1>1. /\ on' = on /\ once' = once /\ system' = system /\ lang' = lang /\ excused' = excused
      /\ subscribed' = subscribed /\ enabled' = enabled /\ stray' = stray
  BY DEF tables, agent
<1>2. Keys' = Keys /\ \A k : Key(k)' = Key(k)
  BY <1>1 DEF Keys, Key
<1>3. TablesShape'
  BY <1>1, <1>2 DEF TablesShape, IsTable
<1>4. ASSUME NEW k \in Keys \ excused PROVE Good(k)'
  <2>1. Good(k) /\ k \in Sensors
    BY KeysAre DEF Agrees
  <2>2. Shrunk(on, on', k) /\ Shrunk(once, once', k) /\ Shrunk(system, system', k)
    BY <1>1, <2>1 DEF Shrunk, Good, Clean
  <2>3. Justified(k)'
    <3> SUFFICES ASSUME NEW places \in Comers, ForSomebody(k, places)
                 PROVE  ForSomebody(k, places)'
      BY <1>1, <2>1 DEF Good, Justified, Comers
    <3>2. CASE At(on, k) \cup At(once, k) \cup At(system, k) # {}
      BY <1>1, <3>2 DEF ForSomebody, At
    <3>3. CASE Coming(k, places)
      BY <3>3 DEF ForSomebody, Coming, In, Comers
    <3>4. CASE Coming(k, Removing)
      <4>1. PICK u \in Threads : In(k, u, Removing)
        BY <3>4 DEF Coming
      <4>2. CASE u # t
        BY <4>1, <4>2 DEF ForSomebody, Coming, In
      <4>3. CASE u = t
        BY <1>1, <4>1, <4>3 DEF ForSomebody, Coming, At
      <4> QED BY <4>2, <4>3
    <3> QED BY <3>2, <3>3, <3>4 DEF ForSomebody
  <2>4. Of(t, k) => pc[t].at \notin {"activate", "record"}
    BY DEF Of
  <2>5. ~In(k, t, {"remove"})
    BY DEF In
  <2> QED
    BY <1>1, <1>3, <2>1, <2>2, <2>3, <2>4, <2>5, ShrinkKeeps DEF TablesShape
<1> QED BY <1>1, <1>2, <1>3, <1>4 DEF Agrees

\* A call begins.
LEMMA EnterKeeps ==
    ASSUME TablesShape, Agrees, NEW t \in Threads,
           UNCHANGED <<lang, agent, tables, excused>>, errors' \in {errors, errors + 1},
           NEW at \in Labels, NEW op \in Ops, NEW d \in Sensors,
           NEW f \in Functions \cup {Idle.fn}, Enter(t, at, op, d, f), pc[t].at = "idle",
           \/ op = Plug
           \/ at \in Emitting
           \/ at = "subscribe" /\ (lang = "cj" => op = "on")
           \/ at = "record" /\ op = "once" /\ lang # "cj"
           \/ at = "unsubscribe" /\ lang = "cj"
    PROVE  TablesShape' /\ Agrees'
<1>1. /\ pc' \in [Threads -> ThreadShape]
      /\ pc'[t].at = at /\ pc'[t].op = op /\ pc'[t].d = d
      /\ \A u \in Threads \ {t} : pc'[u] = pc[u]
  BY EnterIs
<1>2. lang' = lang
  OBVIOUS
<1>3. ASSUME NEW k \in Keys \ excused, Of(t, k)'
      PROVE  Stage(t)'
  BY <1>1, <1>2, <1>3, KeyIs DEF Stage, Of, Registering, Removing, Emitting, Key
<1>4. \A k \in Keys \ excused : ~In(k, t, Removing)
  BY DEF In, Removing
<1> QED BY <1>1, <1>3, <1>4, MoveKeeps

-----------------------------------------------------------------------------
(* JavaScript                                                              *)

\* The environments and the data thread are the threads.
LEMMA EnvIsThread == Envs \subseteq Threads /\ "data" \in Threads
BY DEF Threads

\* The options name a device, or leave it to be the local one.
LEMMA OptionsAre ==
    ASSUME NEW o \in Options
    PROVE  GetOptionalParameter(o) \in Sensors
BY DEF Options, GetOptionalParameter, Sensors

\* JS: a call that asks for a sensor begins.
LEMMA CallKeeps ==
    ASSUME TablesShape, Agrees, NEW e \in Envs, NEW f \in OfEnv(e),
           Once(e, f) \/ Subscribe(e, f) \/ \E o \in Options : On(e, f, o)
    PROVE  TablesShape' /\ Agrees'
<1>1. e \in Threads /\ f \in Functions
  BY EnvIsThread DEF OfEnv
<1>2. CASE Once(e, f)
  BY <1>1, <1>2, EnterKeeps DEF Once, Free, Labels, Ops, Sensors
<1>3. CASE Subscribe(e, f)
  BY <1>1, <1>3, EnterKeeps DEF Subscribe, Free, Labels, Ops, Sensors
<1>4. CASE \E o \in Options : On(e, f, o)
  BY <1>1, <1>4, EnterKeeps, OptionsAre DEF On, Free, Labels, Ops
<1> QED BY <1>2, <1>3, <1>4

\* JS: data comes for the functions.
LEMMA DataCallbackImplKeeps ==
    ASSUME TablesShape, Agrees, NEW d \in Sensors, DataCallbackImpl(d)
    PROVE  TablesShape' /\ Agrees'
<1> QED BY EnterKeeps, EnvIsThread, IdleIs DEF DataCallbackImpl, Emitting, Labels, Ops

\* Off is a step in which a table loses callbacks.
LEMMA TakeKeeps ==
    ASSUME TablesShape, Agrees, NEW t \in Threads,
           UNCHANGED <<lang, agent, excused, errors>>,
           pc' \in [Threads -> ThreadShape], \A u \in Threads \ {t} : pc'[u] = pc[u],
           IsTable(on'), IsTable(once'), IsTable(system'),
           lang = "cj" => system' = system,
           \A k \in Keys \ excused :
               Shrunk(on, on', k) /\ Shrunk(once, once', k) /\ Shrunk(system, system', k),
           pc[t].op # Plug => pc[t].at \notin {"activate", "record"} \cup Removing,
           \A k \in Keys \ excused :
               \/ At(on, k)' = At(on, k) /\ At(once, k)' = At(once, k)
                  /\ At(system, k)' = At(system, k)
               \/ At(on, k)' # {} \/ At(once, k)' # {} \/ At(system, k)' # {}
               \/ In(k, t, Removing)',
           \A k \in Keys \ excused : Of(t, k)' => Stage(t)'
    PROVE  TablesShape' /\ Agrees'
<1>1. /\ lang' = lang /\ excused' = excused
      /\ subscribed' = subscribed /\ enabled' = enabled /\ stray' = stray /\ errors' = errors
  BY DEF agent
<1>2. Keys' = Keys /\ \A k : Key(k)' = Key(k)
  BY <1>1 DEF Keys, Key
<1>3. TablesShape'
  BY <1>1, <1>2 DEF TablesShape, IsTable
<1>4. ASSUME NEW k \in Keys \ excused PROVE Good(k)'
  <2>1. Good(k) /\ k \in Sensors
    BY KeysAre DEF Agrees
  <2>2. Justified(k)'
    <3> SUFFICES ASSUME NEW places \in Comers, ForSomebody(k, places)
                 PROVE  ForSomebody(k, places)'
      BY <1>1, <2>1 DEF Good, Justified, Comers
    <3>2. CASE Coming(k, places) \/ Coming(k, Removing)
      BY <3>2 DEF ForSomebody, Coming, In, Comers
    <3>3. CASE At(on, k) \cup At(once, k) \cup At(system, k) # {}
      BY <3>3 DEF ForSomebody, Coming
    <3> QED BY <3>2, <3>3 DEF ForSomebody
  <2>3. Of(t, k) => pc[t].at \notin {"activate", "record"}
    BY DEF Of
  <2>4. ~In(k, t, {"remove"})
    BY DEF In, Removing
  <2> QED
    BY <1>1, <1>3, <2>1, <2>2, <2>3, <2>4, ShrinkKeeps DEF TablesShape
<1> QED BY <1>1, <1>2, <1>3, <1>4 DEF Agrees

\* JS: a thread looks whether functions of on are left.
LEMMA CheckSubscribeKeeps ==
    ASSUME TablesShape, Agrees, NEW t \in Threads, CheckSubscribe(t)
    PROVE  TablesShape' /\ Agrees'
<1> DEFINE d == pc[t].d
           at == IF d \in DOMAIN on THEN "idle"
                 ELSE IF pc[t].op = "once" THEN "checkSystem" ELSE "unsubscribe"
<1>1. /\ lang = "js" /\ lang' = lang /\ pc[t].at = "checkOn" /\ Goto(t, at) /\ at \in Labels
      /\ UNCHANGED <<lang, agent, tables, excused, errors>>
  BY DEF CheckSubscribe, Labels
<1> HIDE DEF at
<1>2. /\ pc' \in [Threads -> ThreadShape]
      /\ pc'[t].at = at /\ \A u \in Threads \ {t} : pc'[u] = pc[u]
      /\ at = "idle" => pc'[t] = Idle
      /\ at # "idle" => pc'[t].op = pc[t].op /\ pc'[t].d = pc[t].d
  BY <1>1, GotoIs
<1>3. d \in Sensors /\ Key(d) = d /\ \A x : Key(x)' = x
  BY <1>1 DEF TablesShape, ThreadShape, Key
<1>4. ASSUME NEW k \in Keys \ excused
      PROVE  In(k, t, Removing) => In(k, t, Removing)' \/ At(on, k) \cup At(system, k) # {}
  <2>1. CASE at = "idle"
    BY <1>4, <2>1 DEF at, In, Agrees, Good, Clean, At
  <2>2. CASE at # "idle"
    BY <1>2, <2>2 DEF at, In, Removing
  <2> QED BY <2>1, <2>2
<1>5. ASSUME NEW k \in Keys \ excused, Of(t, k)' PROVE Stage(t)'
  <2>1. CASE at = "idle"
    BY <1>1, <1>2, <2>1 DEF Stage, Removing, Registering
  <2>2. CASE at # "idle"
    <3>1. pc[t].op # Plug /\ d = k /\ Key(d) = k
      BY <1>2, <1>3, <1>5, <2>2 DEF Of
    <3>2. Stage(t)
      BY <1>5, <3>1 DEF Agrees, Good, Of
    <3>3. on' = on /\ system' = system
      BY <1>1 DEF tables
    <3> QED BY <1>1, <1>2, <1>3, <2>2, <3>1, <3>2, <3>3 DEF Stage, at, Removing, Registering
  <2> QED BY <2>1, <2>2
<1>6. \A k \in Keys \ excused : In(k, t, Removing) => In(k, t, Removing)' \/ At(on, k) \cup At(system, k) # {}
  BY <1>4
<1>7. \A k \in Keys \ excused : Of(t, k)' => Stage(t)'
  BY <1>5
<1> QED BY <1>1, <1>2, <1>6, <1>7, MoveKeeps

\* JS: a thread looks whether functions of the system interface are left.
LEMMA CheckSystemSubscribeKeeps ==
    ASSUME TablesShape, Agrees, NEW t \in Threads, CheckSystemSubscribe(t)
    PROVE  TablesShape' /\ Agrees'
<1> DEFINE d == pc[t].d
           at == IF d \in DOMAIN system THEN "idle" ELSE "unsubscribe"
<1>1. /\ lang = "js" /\ lang' = lang /\ pc[t].at = "checkSystem" /\ Goto(t, at) /\ at \in Labels
      /\ UNCHANGED <<lang, agent, tables, excused, errors>>
  BY DEF CheckSystemSubscribe, Labels
<1> HIDE DEF at
<1>2. /\ pc' \in [Threads -> ThreadShape]
      /\ pc'[t].at = at /\ \A u \in Threads \ {t} : pc'[u] = pc[u]
      /\ at = "idle" => pc'[t] = Idle
      /\ at # "idle" => pc'[t].op = pc[t].op /\ pc'[t].d = pc[t].d
  BY <1>1, GotoIs
<1>3. d \in Sensors /\ Key(d) = d /\ \A x : Key(x)' = x
  BY <1>1 DEF TablesShape, ThreadShape, Key
<1>4. ASSUME NEW k \in Keys \ excused
      PROVE  In(k, t, Removing) => In(k, t, Removing)' \/ At(on, k) \cup At(system, k) # {}
  <2>1. CASE at = "idle"
    BY <1>4, <2>1 DEF at, In, Agrees, Good, Clean, At
  <2>2. CASE at # "idle"
    BY <1>2, <2>2 DEF at, In, Removing
  <2> QED BY <2>1, <2>2
<1>5. ASSUME NEW k \in Keys \ excused, Of(t, k)' PROVE Stage(t)'
  <2>1. CASE at = "idle"
    BY <1>1, <1>2, <2>1 DEF Stage, Removing, Registering
  <2>2. CASE at # "idle"
    <3>1. pc[t].op # Plug /\ d = k /\ Key(d) = k
      BY <1>2, <1>3, <1>5, <2>2 DEF Of
    <3>2. Stage(t)
      BY <1>5, <3>1 DEF Agrees, Good, Of
    <3>3. on' = on /\ system' = system
      BY <1>1 DEF tables
    <3> QED BY <1>1, <1>2, <1>3, <2>2, <3>1, <3>2, <3>3 DEF Stage, at, Removing, Registering
  <2> QED BY <2>1, <2>2
<1>6. \A k \in Keys \ excused : In(k, t, Removing) => In(k, t, Removing)' \/ At(on, k) \cup At(system, k) # {}
  BY <1>4
<1>7. \A k \in Keys \ excused : Of(t, k)' => Stage(t)'
  BY <1>5
<1> QED BY <1>1, <1>2, <1>6, <1>7, MoveKeeps

\* The keys of ArkTS.
LEMMA EtsKeys ==
    ASSUME lang = "ets"
    PROVE  Keys = {Local} /\ \A d : Key(d) = Local
BY DEF Keys, Key, Sensors

\* ETS: a thread looks what is left, or the calls of the data return.
LEMMA EtsChecksKeep ==
    ASSUME TablesShape, Agrees, NEW t \in Threads,
           CheckSystem(t) \/ (t = "data" /\ (CheckType \/ CallbacksReturn))
    PROVE  TablesShape' /\ Agrees'
<1>1. PICK at \in Labels :
         /\ Goto(t, at) /\ lang = "ets" /\ lang' = lang
         /\ UNCHANGED <<lang, agent, tables, excused, errors>>
         /\ \/ pc[t].at = "inOn" /\ at = "emitOnce"
            \/ pc[t].at = "checkOn" /\ at = IF Local \in DOMAIN on THEN "idle" ELSE "checkSystem"
            \/ pc[t].at = "checkSystem"
               /\ at = IF Local \in DOMAIN system THEN "idle" ELSE "unsubscribe"
  BY DEF CheckSystem, CheckType, CallbacksReturn, Labels
<1>2. /\ pc' \in [Threads -> ThreadShape]
      /\ pc'[t].at = at /\ \A u \in Threads \ {t} : pc'[u] = pc[u]
      /\ at = "idle" => pc'[t] = Idle
      /\ at # "idle" => pc'[t].op = pc[t].op /\ pc'[t].d = pc[t].d
  BY <1>1, GotoIs
<1>3. /\ Keys = {Local} /\ \A d : Key(d) = Local /\ Key(d)' = Local
      /\ on' = on /\ system' = system
  BY <1>1, EtsKeys DEF Key, tables
<1>4. ASSUME NEW k \in Keys \ excused
      PROVE  In(k, t, Removing) => In(k, t, Removing)' \/ At(on, k) \cup At(system, k) # {}
  <2>1. k = Local /\ Clean(k)
    BY <1>3, <1>4 DEF Agrees, Good
  <2>2. Local \in DOMAIN on => At(on, Local) # {}
    BY <2>1 DEF Clean, At
  <2>3. Local \in DOMAIN system => At(system, Local) # {}
    BY <2>1 DEF Clean, At
  <2> QED BY <1>1, <1>2, <2>1, <2>2, <2>3 DEF In, Removing
<1>5. ASSUME NEW k \in Keys \ excused, Of(t, k)' PROVE Stage(t)'
  <2>1. CASE at = "idle"
    BY <1>1, <1>2, <2>1 DEF Stage, Removing, Registering
  <2>2. CASE at # "idle"
    <3>1. pc[t].op # Plug /\ Stage(t)
      BY <1>2, <1>3, <1>5, <2>2 DEF Of, Agrees, Good
    <3> QED BY <1>1, <1>2, <1>3, <2>2, <3>1 DEF Stage, Removing, Registering
  <2> QED BY <2>1, <2>2
<1>6. \A k \in Keys \ excused : In(k, t, Removing) => In(k, t, Removing)' \/ At(on, k) \cup At(system, k) # {}
  BY <1>4
<1>7. \A k \in Keys \ excused : Of(t, k)' => Stage(t)'
  BY <1>5
<1>8. pc[t].at \notin {"activate", "record", "remove"}
  BY <1>1
<1> QED BY <1>1, <1>2, <1>6, <1>7, <1>8, MoveKeeps

-----------------------------------------------------------------------------
(* Callbacks are taken away                                                *)

\* A table that loses the key, or keeps something under it.
LEMMA DropShrinks ==
    ASSUME NEW T, NEW k, NEW j, j \in DOMAIN T => T[j] # {}
    PROVE  Shrunk(T, Drop(T, k), j)
BY DEF Drop, Shrunk, At

\* To put some of the functions of a key has taken the others away.
LEMMA PutShrinks ==
    ASSUME NEW T, NEW k, NEW s, s \subseteq At(T, k), s # {}, NEW j,
           j \in DOMAIN T => T[j] # {}
    PROVE  Shrunk(T, Put(T, k, s), j)
BY DEF Put, Shrunk, At

\* A table that is as it was has lost nothing.
LEMMA StayShrinks ==
    ASSUME NEW T, NEW j, j \in DOMAIN T => T[j] # {}
    PROVE  Shrunk(T, T, j)
BY DEF Shrunk

\* JS: off takes the functions of its environment away.
LEMMA OffCallKeeps ==
    ASSUME TablesShape, Agrees, NEW e \in Envs, NEW o \in Options, OffCall(e, o)
    PROVE  TablesShape' /\ Agrees'
<1> DEFINE k == GetOptionalParameter(o)
<1>1. /\ lang = "js" /\ pc[e].at = "idle" /\ e \in Threads
      /\ UNCHANGED <<lang, agent, once, system, excused, errors>>
  BY EnvIsThread DEF OffCall, Free
<1>2. PICK left : left \subseteq At(on, k) /\ Off(e, k, left)
  BY DEF OffCall, RemoveAllCallback, RemoveCallback
<1>3. k \in Sensors /\ k \in Keys /\ \A x : Key(x) = x /\ Key(x)' = x
  BY <1>1, OptionsAre, KeyIs DEF Key
<1> HIDE DEF k
<1>4. IsTable(on) /\ IsTable(once') /\ IsTable(system')
  BY <1>1 DEF TablesShape
<1>5. \A x \in At(on, k) : x.d \in Sensors /\ Key(x.d) = k
  BY <1>4, AtIs
<1>6. ASSUME NEW j \in Keys \ excused
      PROVE  /\ j \in DOMAIN on => on[j] # {}
             /\ Shrunk(once, once', j) /\ Shrunk(system, system', j)
  <2>1. Clean(j)
    BY <1>6 DEF Agrees, Good
  <2> QED BY <1>1, <2>1, StayShrinks DEF Clean
<1>7. CASE left # {}
  <2>1. on' = Put(on, k, left) /\ pc' = pc
    BY <1>2, <1>7 DEF Off
  <2>2. IsTable(on')
    BY <1>2, <1>3, <1>4, <1>5, <2>1, PutIsTable
  <2>3. \A j \in Keys \ excused : Shrunk(on, on', j)
    BY <1>2, <1>6, <1>7, <2>1, PutShrinks
  <2>4. ASSUME NEW j \in Keys \ excused
        PROVE  At(on, j)' = At(on, j) \/ At(on, j)' # {}
    BY <1>7, <2>1, PutIs DEF At
  <2>5. \A j : At(once, j)' = At(once, j) /\ At(system, j)' = At(system, j)
    BY <1>1 DEF At
  <2>6. \A j \in Keys \ excused : Of(e, j)' => Stage(e)'
    BY <1>1, <2>1 DEF Stage, Removing, Registering
  <2>7. pc' \in [Threads -> ThreadShape]
    BY <2>1 DEF TablesShape
  <2>8. pc[e].at \notin {"activate", "record"} \cup Removing
    BY <1>1 DEF Removing
  <2>9. \A j \in Keys \ excused :
               \/ At(on, j)' = At(on, j) /\ At(once, j)' = At(once, j)
                  /\ At(system, j)' = At(system, j)
               \/ At(on, j)' # {} \/ At(once, j)' # {} \/ At(system, j)' # {}
               \/ In(j, e, Removing)'
    BY <2>4, <2>5
  <2>10. \A j \in Keys \ excused :
               Shrunk(on, on', j) /\ Shrunk(once, once', j) /\ Shrunk(system, system', j)
    BY <1>6, <2>3
  <2>11. \A u \in Threads \ {e} : pc'[u] = pc[u]
    BY <2>1
  <2> HIDE DEF k
  <2> QED BY <1>1, <1>4, <2>2, <2>10, <2>9, <2>6, <2>7, <2>8, <2>11, TakeKeeps
<1>8. CASE left = {}
  <2>1. on' = Drop(on, k) /\ Enter(e, "checkSystem", "off", k, Idle.fn)
    BY <1>2, <1>8 DEF Off
  <2>2. IsTable(on')
    BY <1>4, <2>1, DropIsTable
  <2>3. /\ pc' \in [Threads -> ThreadShape]
        /\ pc'[e].at = "checkSystem" /\ pc'[e].op = "off" /\ pc'[e].d = k
        /\ \A u \in Threads \ {e} : pc'[u] = pc[u]
    BY <1>1, <1>3, <2>1, EnterIs, IdleIs DEF Labels, Ops
  <2>4. \A j \in Keys \ excused : Shrunk(on, on', j)
    BY <1>6, <2>1, DropShrinks
  <2>5. ASSUME NEW j \in Keys \ excused
        PROVE  At(on, j)' = At(on, j) \/ In(j, e, Removing)'
    <3>1. CASE j = k
      BY <2>3, <3>1 DEF In, Removing, Plug
    <3>2. CASE j # k
      BY <2>1, <3>2, DropIs DEF At
    <3> QED BY <3>1, <3>2
  <2>6. \A j : At(once, j)' = At(once, j) /\ At(system, j)' = At(system, j)
    BY <1>1 DEF At
  <2>7. k \notin DOMAIN on'
    BY <2>1 DEF Drop
  <2>8. \A j \in Keys \ excused : Of(e, j)' => Stage(e)'
    BY <1>1, <1>3, <2>3, <2>7 DEF Stage, Removing, Registering
  <2>9. \A j \in Keys \ excused :
               \/ At(on, j)' = At(on, j) /\ At(once, j)' = At(once, j)
                  /\ At(system, j)' = At(system, j)
               \/ At(on, j)' # {} \/ At(once, j)' # {} \/ At(system, j)' # {}
               \/ In(j, e, Removing)'
    BY <2>5, <2>6
  <2>10. \A j \in Keys \ excused :
               Shrunk(on, on', j) /\ Shrunk(once, once', j) /\ Shrunk(system, system', j)
    BY <1>6, <2>4
  <2>11. pc[e].at \notin {"activate", "record"} \cup Removing
    BY <1>1 DEF Removing
  <2> QED BY <1>1, <1>4, <2>2, <2>3, <2>8, <2>9, <2>10, <2>11, TakeKeeps
<1> QED BY <1>7, <1>8

\* JS: the system interface takes the functions of an environment away.
LEMMA UnsubscribeKeeps ==
    ASSUME TablesShape, Agrees, NEW e \in Envs, Unsubscribe(e)
    PROVE  TablesShape' /\ Agrees'
<1>1. /\ lang = "js" /\ pc[e].at = "idle" /\ e \in Threads
      /\ UNCHANGED <<lang, agent, on, once, excused, errors>>
      /\ \/ UNCHANGED <<system, pc>>
         \/ system' = Drop(system, Local) /\ Enter(e, "checkOn", "off", Local, Idle.fn)
  BY EnvIsThread DEF Unsubscribe, Free
<1>2. CASE UNCHANGED <<system, pc>>
  <2>1. UNCHANGED <<lang, agent, tables, excused, errors>>
    BY <1>1, <1>2 DEF tables
  <2>2. \A k \in Keys \ excused : ~In(k, e, Removing) /\ (Of(e, k)' => Stage(e)')
    BY <1>1, <1>2 DEF In, Removing, Registering, Stage
  <2> QED BY <1>1, <1>2, <2>1, <2>2, MoveKeeps DEF TablesShape
<1>3. CASE system' = Drop(system, Local) /\ Enter(e, "checkOn", "off", Local, Idle.fn)
  <2>1. Local \in Sensors /\ \A x : Key(x) = x /\ Key(x)' = x
    BY <1>1 DEF Key, Sensors
  <2>2. /\ pc' \in [Threads -> ThreadShape]
        /\ pc'[e].at = "checkOn" /\ pc'[e].op = "off" /\ pc'[e].d = Local
        /\ \A u \in Threads \ {e} : pc'[u] = pc[u]
    BY <1>1, <1>3, <2>1, EnterIs, IdleIs DEF Labels, Ops
  <2>3. IsTable(on') /\ IsTable(once') /\ IsTable(system')
    BY <1>1, <1>3, DropIsTable DEF TablesShape
  <2>4. ASSUME NEW j \in Keys \ excused
        PROVE  Shrunk(on, on', j) /\ Shrunk(once, once', j) /\ Shrunk(system, system', j)
    <3>1. Clean(j)
      BY <2>4 DEF Agrees, Good
    <3> QED BY <1>1, <1>3, <3>1, StayShrinks, DropShrinks DEF Clean
  <2>5. ASSUME NEW j \in Keys \ excused
        PROVE  At(system, j)' = At(system, j) \/ In(j, e, Removing)'
    <3>1. CASE j = Local
      BY <2>2, <3>1 DEF In, Removing, Plug
    <3>2. CASE j # Local
      BY <1>3, <3>2, DropIs DEF At
    <3> QED BY <3>1, <3>2
  <2>6. \A j : At(once, j)' = At(once, j) /\ At(on, j)' = At(on, j)
    BY <1>1 DEF At
  <2>7. Local \notin DOMAIN system'
    BY <1>3 DEF Drop
  <2>8. \A j \in Keys \ excused : Of(e, j)' => Stage(e)'
    BY <1>1, <2>1, <2>2, <2>7 DEF Stage, Removing, Registering
  <2>9. \A j \in Keys \ excused :
               \/ At(on, j)' = At(on, j) /\ At(once, j)' = At(once, j)
                  /\ At(system, j)' = At(system, j)
               \/ At(on, j)' # {} \/ At(once, j)' # {} \/ At(system, j)' # {}
               \/ In(j, e, Removing)'
    BY <2>5, <2>6
  <2>10. pc[e].at \notin {"activate", "record"} \cup Removing
    BY <1>1 DEF Removing
  <2>11. \A j \in Keys \ excused :
               Shrunk(on, on', j) /\ Shrunk(once, once', j) /\ Shrunk(system, system', j)
    BY <2>4
  <2> QED BY <1>1, <2>2, <2>3, <2>11, <2>8, <2>9, <2>10, TakeKeeps
<1> QED BY <1>1, <1>2, <1>3


\* An event empties the once table of its sensor (JavaScript, ArkTS).
LEMMA EmitOnceKeeps ==
    ASSUME TablesShape, Agrees, Placed, EmitOnceCallback \/ EmitOnce
    PROVE  TablesShape' /\ Agrees'
<1> DEFINE t == "data"
           k == Key(pc[t].d)
           at == IF k \in DOMAIN once THEN "checkOn" ELSE "idle"
<1>1. /\ t \in Threads /\ pc[t].at = "emitOnce" /\ lang \in {"js", "ets"}
      /\ UNCHANGED <<lang, agent, on, system, excused, errors>>
      /\ once' = Drop(once, k) /\ Goto(t, at) /\ at \in Labels
  BY EnvIsThread DEF EmitOnceCallback, EmitOnce, Key, Labels
<1>2. \A x : Key(x)' = Key(x)
  BY <1>1 DEF Key
<1> HIDE DEF at
<1>3. /\ pc' \in [Threads -> ThreadShape]
      /\ pc'[t].at = at /\ \A u \in Threads \ {t} : pc'[u] = pc[u]
      /\ at = "idle" => pc'[t] = Idle
      /\ at # "idle" => pc'[t].op = pc[t].op /\ pc'[t].d = pc[t].d
  BY <1>1, GotoIs
<1>4. pc[t].d = k /\ pc[t].op = "once" /\ k \in Sensors
  BY <1>1 DEF Placed, Emitting, Key, TablesShape, ThreadShape
<1>5. IsTable(on') /\ IsTable(once') /\ IsTable(system')
  BY <1>1, DropIsTable DEF TablesShape
<1>6. ASSUME NEW j \in Keys \ excused
      PROVE  Shrunk(on, on', j) /\ Shrunk(once, once', j) /\ Shrunk(system, system', j)
  <2>1. Clean(j)
    BY <1>6 DEF Agrees, Good
  <2> QED BY <1>1, <2>1, StayShrinks, DropShrinks DEF Clean
<1>7. ASSUME NEW j \in Keys \ excused
      PROVE  At(once, j)' = At(once, j) \/ In(j, t, Removing)'
  <2>1. CASE j = k /\ k \in DOMAIN once
    <3>1. pc'[t].at = "checkOn" /\ pc'[t].op = "once" /\ pc'[t].d = j
      BY <1>3, <1>4, <2>1 DEF at
    <3> QED BY <3>1 DEF In, Removing, Plug
  <2>2. CASE j # k
    BY <1>1, <2>2, AfterDrop
  <2>3. CASE j = k /\ k \notin DOMAIN once
    <3>1. k \notin DOMAIN once'
      BY <1>1, AfterDrop
    <3> QED BY <2>3, <3>1 DEF At
  <2> QED BY <2>1, <2>2, <2>3
<1>8. \A j : At(on, j)' = At(on, j) /\ At(system, j)' = At(system, j)
  BY <1>1 DEF At
<1>9. \A j \in Keys \ excused : Of(t, j)' => Stage(t)'
  <2>1. CASE at = "idle"
    BY <1>1, <1>3, <2>1 DEF Stage, Removing, Registering
  <2>2. CASE at = "checkOn"
    BY <1>1, <1>2, <1>3, <1>4, <2>2 DEF Stage, Removing, Registering
  <2> QED BY <2>1, <2>2 DEF at
<1>10. \A j \in Keys \ excused :
           Shrunk(on, on', j) /\ Shrunk(once, once', j) /\ Shrunk(system, system', j)
  BY <1>6
<1>11. \A j \in Keys \ excused :
               \/ At(on, j)' = At(on, j) /\ At(once, j)' = At(once, j)
                  /\ At(system, j)' = At(system, j)
               \/ At(on, j)' # {} \/ At(once, j)' # {} \/ At(system, j)' # {}
               \/ In(j, t, Removing)'
  BY <1>7, <1>8
<1>12. pc[t].at \notin {"activate", "record"} \cup Removing
  BY <1>1 DEF Removing
<1> QED BY <1>1, <1>3, <1>5, <1>9, <1>10, <1>11, <1>12, TakeKeeps

\* off in ArkTS, whatever device the callbacks are for.
LEMMA OffCommonKeeps ==
    ASSUME TablesShape, Agrees, NEW e \in Envs, NEW gone, OffCommon(e, gone)
    PROVE  TablesShape' /\ Agrees'
<1> DEFINE left == {x \in At(on, Local) : x.fn \notin gone}
<1>1. /\ lang = "ets" /\ pc[e].at = "idle" /\ e \in Threads
      /\ UNCHANGED <<lang, agent, once, system, excused, errors>>
      /\ left \subseteq At(on, Local)
      /\ left # {} => on' = Put(on, Local, left) /\ pc' = pc
      /\ left = {} => on' = Drop(on, Local) /\ Enter(e, "checkSystem", "off", Local, Idle.fn)
  BY EnvIsThread DEF OffCommon
<1> HIDE DEF left
<1>2. /\ Keys = {Local} /\ Local \in Sensors /\ \A x : Key(x) = Local /\ Key(x)' = Local
  BY <1>1, EtsKeys DEF Key, Sensors
<1>3. IsTable(on) /\ IsTable(once') /\ IsTable(system')
  BY <1>1 DEF TablesShape
<1>4. \A x \in At(on, Local) : x.d \in Sensors /\ Key(x.d) = Local
  BY <1>3, AtIs
<1>5. ASSUME NEW j \in Keys \ excused
      PROVE  /\ j \in DOMAIN on => on[j] # {}
             /\ Shrunk(once, once', j) /\ Shrunk(system, system', j)
  <2>1. Clean(j)
    BY <1>5 DEF Agrees, Good
  <2> QED BY <1>1, <2>1, StayShrinks DEF Clean
<1>6. \A j : At(once, j)' = At(once, j) /\ At(system, j)' = At(system, j)
  BY <1>1 DEF At
<1>7. /\ pc' \in [Threads -> ThreadShape] /\ \A u \in Threads \ {e} : pc'[u] = pc[u]
      /\ left # {} => pc'[e] = pc[e]
      /\ left = {} => pc'[e].at = "checkSystem" /\ pc'[e].op = "off" /\ pc'[e].d = Local
  <2>1. CASE left # {}
    BY <1>1, <2>1 DEF TablesShape
  <2>2. CASE left = {}
    BY <1>1, <1>2, <2>2, EnterIs, IdleIs DEF Labels, Ops
  <2> QED BY <2>1, <2>2
<1>8. IsTable(on')
  BY <1>1, <1>2, <1>3, <1>4, PutIsTable, DropIsTable
<1>9. ASSUME NEW j \in Keys \ excused
      PROVE  /\ Shrunk(on, on', j)
             /\ At(on, j)' # {} \/ In(j, e, Removing)'
  <2>1. CASE left # {}
    BY <1>1, <1>2, <1>5, <1>9, <2>1, PutShrinks, AfterPut
  <2>2. CASE left = {}
    <3>1. Shrunk(on, on', j)
      BY <1>1, <1>5, <1>9, <2>2, DropShrinks
    <3> QED BY <1>2, <1>7, <1>9, <2>2, <3>1 DEF In, Removing, Plug
  <2> QED BY <2>1, <2>2
<1>10. \A j \in Keys \ excused : Of(e, j)' => Stage(e)'
  <2>1. CASE left # {}
    BY <1>1, <1>7, <2>1 DEF Stage, Removing, Registering
  <2>2. CASE left = {}
    <3>1. Local \notin DOMAIN on'
      BY <1>1, <2>2 DEF Drop
    <3> QED BY <1>1, <1>2, <1>7, <2>2, <3>1 DEF Stage, Removing, Registering
  <2> QED BY <2>1, <2>2
<1>11. \A j \in Keys \ excused :
           Shrunk(on, on', j) /\ Shrunk(once, once', j) /\ Shrunk(system, system', j)
  BY <1>5, <1>9
<1>12. \A j \in Keys \ excused :
               \/ At(on, j)' = At(on, j) /\ At(once, j)' = At(once, j)
                  /\ At(system, j)' = At(system, j)
               \/ At(on, j)' # {} \/ At(once, j)' # {} \/ At(system, j)' # {}
               \/ In(j, e, Removing)'
  BY <1>9
<1>13. pc[e].at \notin {"activate", "record"} \cup Removing
  BY <1>1 DEF Removing
<1> QED BY <1>1, <1>3, <1>7, <1>8, <1>10, <1>11, <1>12, <1>13, TakeKeeps

\* Cangjie takes the callback out after the sensor is switched off.
LEMMA DelCallbackKeeps ==
    ASSUME TablesShape, Agrees, Placed, NEW t \in Envs, DelCallback(t)
    PROVE  TablesShape' /\ Agrees'
<1>1. /\ lang = "cj" /\ pc[t].at = "remove" /\ t \in Threads
      /\ UNCHANGED <<lang, agent, once, system, excused, errors>>
      /\ lang' = lang /\ excused' = excused
      /\ subscribed' = subscribed /\ enabled' = enabled /\ stray' = stray
      /\ on' = Drop(on, pc[t].d) /\ Goto(t, "idle") /\ pc[t].op # Plug
  BY EnvIsThread DEF DelCallback, agent, Placed
<1>2. /\ pc' \in [Threads -> ThreadShape]
      /\ pc'[t] = Idle /\ \A u \in Threads \ {t} : pc'[u] = pc[u]
  BY <1>1, GotoIs DEF Labels
<1>3. Keys' = Keys /\ \A x : Key(x) = x /\ Key(x)' = x
  BY <1>1 DEF Keys, Key
<1>4. IsTable(on')
  BY <1>1, DropIsTable DEF TablesShape
<1>5. TablesShape'
  BY <1>1, <1>2, <1>3, <1>4 DEF TablesShape, IsTable
<1>6. ASSUME NEW k \in Keys \ excused PROVE Good(k)'
  <2>1. Good(k) /\ Clean(k) /\ k \in Sensors
    BY KeysAre DEF Agrees, Good
  <2>2. Shrunk(on, on', k) /\ Shrunk(once, once', k) /\ Shrunk(system, system', k)
    BY <1>1, <2>1, StayShrinks, DropShrinks DEF Clean
  <2>3. In(k, t, {"remove"}) => At(on, k)' = {} /\ At(system, k)' = {}
    <3>1. At(system, k)' = {}
      BY <1>1, <1>5 DEF TablesShape, At
    <3>2. pc[t].d = k => k \notin DOMAIN on'
      BY <1>1 DEF Drop
    <3> QED BY <3>1, <3>2 DEF In, At
  <2>4. ASSUME In(k, t, Removing)
        PROVE  /\ k \in enabled => Coming(k, {"record"})
               /\ k \in subscribed \ stray => Coming(k, {"activate", "record"})
    <3>1. Of(t, k) /\ Key(pc[t].d) = k
      BY <1>3, <2>4 DEF In, Of
    <3> QED BY <1>1, <2>1, <3>1 DEF Good, Stage
  <2>7. Justified(k)'
    <3> SUFFICES ASSUME NEW places \in Comers, ForSomebody(k, places),
                        In(k, t, Removing) => Coming(k, places)
                 PROVE  ForSomebody(k, places)'
      BY <1>1, <2>1, <2>4 DEF Good, Justified, Comers
    <3>1. CASE Coming(k, places)
      <4>1. PICK u \in Threads : In(k, u, places)
        BY <3>1 DEF Coming
      <4>2. u # t
        BY <1>1, <4>1 DEF In, Comers
      <4> QED BY <1>2, <4>1, <4>2 DEF ForSomebody, Coming, In
    <3>2. CASE \E u \in Threads \ {t} : In(k, u, Removing)
      BY <1>2, <3>2 DEF ForSomebody, Coming, In
    <3>3. CASE pc[t].d # k /\ At(on, k) \cup At(once, k) \cup At(system, k) # {}
      <4>1. At(on, k)' = At(on, k)
        BY <1>1, <3>3, AfterDrop
      <4> QED BY <1>1, <3>3, <4>1 DEF ForSomebody, At
    <3>4. pc[t].d = k => In(k, t, Removing)
      BY <1>1 DEF In, Removing
    <3> QED BY <3>1, <3>2, <3>3, <3>4 DEF ForSomebody, Coming
  <2>5. Of(t, k) => pc[t].at \notin {"activate", "record"}
    BY <1>1
  <2>6. Of(t, k)' => Stage(t)'
    BY <1>2, IdleIs DEF Stage, Removing, Registering
  <2> QED
    BY <1>1, <1>2, <1>5, <2>1, <2>2, <2>3, <2>7, <2>5, <2>6, ShrinkKeeps DEF TablesShape
<1> QED BY <1>1, <1>3, <1>5, <1>6 DEF Agrees

\* An environment is torn down (JavaScript).
LEMMA WithoutIsTable ==
    ASSUME NEW T, IsTable(T), NEW e
    PROVE  IsTable(Without(T, e))
BY DEF IsTable, Without

\* Without the functions of an environment, a key with others has some left.
LEMMA WithoutShrinks ==
    ASSUME NEW T, NEW e, NEW k, k \in DOMAIN T => T[k] # {},
           ~(At(T, k) # {} /\ \A x \in At(T, k) : EnvOf[x.fn] = e)
    PROVE  /\ Shrunk(T, Without(T, e), k)
           /\ At(T, k) # {} => At(Without(T, e), k) # {}
<1> DEFINE U == Without(T, e)
<1>1. /\ DOMAIN U = DOMAIN T
      /\ \A j \in DOMAIN T : U[j] = {x \in T[j] : EnvOf[x.fn] # e}
  BY DEF Without
<1> HIDE DEF U
<1> QED BY <1>1 DEF Shrunk, At, U

\* JS: an environment ends and its functions go.
LEMMA CleanUpKeeps ==
    ASSUME TablesShape, Agrees, NEW e \in Envs, CleanUp(e)
    PROVE  TablesShape' /\ Agrees'
<1>1. /\ lang = "js" /\ lang' = lang /\ pc[e].at = "idle" /\ e \in Threads
      /\ subscribed' = subscribed /\ enabled' = enabled /\ stray' = stray
      /\ errors' = errors /\ pc' = pc
      /\ on' = Without(on, e) /\ once' = Without(once, e) /\ system' = Without(system, e)
      /\ excused' = excused \cup {k \in Sensors : \E table \in {on, once, system} :
                                      At(table, k) # {} /\ \A x \in At(table, k) : EnvOf[x.fn] = e}
  BY EnvIsThread DEF CleanUp, Free, agent
<1>2. Keys' = Keys /\ \A x : Key(x)' = Key(x)
  BY <1>1 DEF Keys, Key
<1>3. IsTable(on') /\ IsTable(once') /\ IsTable(system')
  BY <1>1, WithoutIsTable DEF TablesShape
<1>4. TablesShape'
  BY <1>1, <1>2, <1>3 DEF TablesShape, IsTable
<1>5. ASSUME NEW k \in Keys \ excused' PROVE Good(k)'
  <2>1. k \in Sensors /\ k \in Keys /\ k \notin excused /\ Good(k) /\ Clean(k)
    BY <1>1, <1>5, KeysAre DEF Agrees, Good
  <2>2. ASSUME NEW table \in {on, once, system}
        PROVE  ~(At(table, k) # {} /\ \A x \in At(table, k) : EnvOf[x.fn] = e)
    BY <1>1, <1>5, <2>1
  <2>3. /\ Shrunk(on, on', k) /\ Shrunk(once, once', k) /\ Shrunk(system, system', k)
        /\ At(on, k) # {} => At(on', k) # {}
        /\ At(once, k) # {} => At(once', k) # {}
        /\ At(system, k) # {} => At(system', k) # {}
    BY <1>1, <2>1, <2>2, WithoutShrinks DEF Clean
  <2>4. Justified(k)'
    <3> SUFFICES ASSUME NEW places \in Comers, ForSomebody(k, places)
                 PROVE  ForSomebody(k, places)'
      BY <1>1, <2>1 DEF Good, Justified, Comers
    <3> QED BY <1>1, <2>3 DEF ForSomebody, Coming, In
  <2>5. /\ ~In(k, e, {"remove"}) /\ (Of(e, k)' => Stage(e)')
        /\ pc[e].at \notin {"activate", "record"}
    BY <1>1 DEF In, Stage, Removing, Registering
  <2> QED BY <1>1, <1>4, <2>1, <2>3, <2>4, <2>5, ShrinkKeeps DEF TablesShape
<1> QED BY <1>2, <1>4, <1>5 DEF Agrees

-----------------------------------------------------------------------------
(* Events find their callbacks                                             *)

\* To put what a key has changes nothing.
LEMMA PutBack ==
    ASSUME NEW T, NEW k, NEW j, j = k => k \in DOMAIN T
    PROVE  Same(T, Put(T, k, At(T, k)), j)
BY DEF Same, Put, At

\* The data thread goes to functions it saw before, and may make their key again.
LEMMA EmitKeeps ==
    ASSUME TablesShape, Agrees, Placed, EmitSubscribeCallback \/ EmitOnCallback
    PROVE  TablesShape' /\ Agrees'
<1> DEFINE t == "data"
<1>1. PICK k \in Keys, at \in {"emitOnce", "inOn"} :
        /\ t \in Threads /\ pc[t].at \in Emitting /\ lang' = lang /\ Goto(t, at)
        /\ subscribed' = subscribed /\ enabled' = enabled /\ stray' = stray /\ errors' = errors
        /\ once' = once
        /\ \/ on' = on /\ system' = Put(system, k, At(system, k)) /\ lang # "cj"
              /\ excused' = IF k \in DOMAIN system THEN excused ELSE excused \cup {k}
           \/ system' = system /\ on' = Put(on, k, At(on, k))
              /\ excused' = IF k \in DOMAIN on THEN excused ELSE excused \cup {k}
  <2>1. pc[t].d \in Sensors /\ t \in Threads
    BY EnvIsThread DEF TablesShape, ThreadShape
  <2>2. CASE EmitSubscribeCallback
    <3>1. pc[t].d \in Keys
      BY <2>1, <2>2, KeyIs DEF EmitSubscribeCallback
    <3> QED BY <2>1, <2>2, <3>1 DEF EmitSubscribeCallback, Emitting, agent
  <2>3. CASE EmitOnCallback
    <3>1. Local \in Keys
      BY <2>3, EtsKeys DEF EmitOnCallback
    <3> QED BY <2>1, <2>3, <3>1 DEF EmitOnCallback, Emitting, agent
  <2> QED BY <2>2, <2>3
<1>2. /\ pc' \in [Threads -> ThreadShape]
      /\ pc'[t].at = at /\ \A u \in Threads \ {t} : pc'[u] = pc[u]
  BY <1>1, GotoIs DEF Labels
<1>3. Keys' = Keys /\ \A x : Key(x)' = Key(x)
  BY <1>1 DEF Keys, Key
<1>4. IsTable(on') /\ IsTable(system') /\ IsTable(once')
  BY <1>1, AtIs, PutIsTable DEF TablesShape
<1>5. TablesShape'
  BY <1>1, <1>2, <1>3, <1>4 DEF TablesShape, IsTable
<1>6. ASSUME NEW j \in Keys \ excused' PROVE Good(j)'
  <2>1. Good(j) /\ j \notin excused
    BY <1>1, <1>6 DEF Agrees
  <2>2. Same(once, once', j)
    BY <1>1 DEF Same
  <2>3. Same(on, on', j)
    <3>1. CASE on' = on
      BY <3>1 DEF Same
    <3>2. CASE on' = Put(on, k, At(on, k)) /\ (j = k => k \in DOMAIN on)
      BY <3>2, PutBack
    <3> QED BY <1>1, <1>6, <3>1, <3>2
  <2>4. Same(system, system', j)
    <3>1. CASE system' = system
      BY <3>1 DEF Same
    <3>2. CASE system' = Put(system, k, At(system, k)) /\ (j = k => k \in DOMAIN system)
      BY <3>2, PutBack
    <3> QED BY <1>1, <1>6, <3>1, <3>2
  <2>5. /\ pc[t].at \notin {"activate", "record"} \cup Removing
        /\ Stage(t)'
    BY <1>1, <1>2 DEF Emitting, Removing, Registering, Stage
  <2> QED BY <1>1, <1>2, <1>5, <2>1, <2>2, <2>3, <2>4, <2>5, OthersKeep DEF TablesShape
<1> QED BY <1>3, <1>5, <1>6 DEF Agrees

-----------------------------------------------------------------------------
(* Status changes                                                          *)

\* JS: what is called for the plugs leaves the tables of the data.
LEMMA PlugCallsKeep ==
    ASSUME TablesShape, Agrees, NEW e \in Envs,
           \/ UpdatePlugCallbackInfos(e) \/ UnsubscribeSensorPlug(e) \/ OffPlugSensor(e)
           \/ \E f \in OfEnv(e) : OnPlugSensor(e, f)
    PROVE  TablesShape' /\ Agrees'
<1>1. e \in Threads
  BY EnvIsThread
<1>2. CASE UpdatePlugCallbackInfos(e) \/ UnsubscribeSensorPlug(e)
  <2>1. /\ lang' = lang /\ pc[e].op = Plug /\ Goto(e, "idle")
        /\ subscribed' = subscribed /\ enabled' = enabled /\ stray' = stray /\ errors' = errors
        /\ on' = on /\ once' = once /\ system' = system /\ excused \subseteq excused'
    BY <1>2 DEF UpdatePlugCallbackInfos, UnsubscribeSensorPlug, agent, tables
  <2>2. /\ pc' \in [Threads -> ThreadShape]
        /\ pc'[e] = Idle /\ \A u \in Threads \ {e} : pc'[u] = pc[u]
    BY <1>1, <2>1, GotoIs DEF Labels
  <2>3. Keys' = Keys /\ \A x : Key(x)' = Key(x)
    BY <2>1 DEF Keys, Key
  <2>4. TablesShape'
    BY <2>1, <2>2, <2>3 DEF TablesShape, IsTable
  <2>5. ASSUME NEW k \in Keys \ excused' PROVE Good(k)'
    <3>1. Good(k)
      BY <2>1, <2>5 DEF Agrees
    <3>2. Same(on, on', k) /\ Same(once, once', k) /\ Same(system, system', k)
      BY <2>1 DEF Same
    <3>3. ~Of(e, k) /\ Stage(e)'
      BY <2>1, <2>2, IdleIs DEF Of, Stage, Removing, Registering
    <3> QED BY <1>1, <2>1, <2>2, <2>4, <3>1, <3>2, <3>3, OthersKeep DEF TablesShape
  <2> QED BY <2>3, <2>4, <2>5 DEF Agrees
<1>3. CASE OffPlugSensor(e) \/ \E f \in OfEnv(e) : OnPlugSensor(e, f)
  <2>1. /\ UNCHANGED <<lang, agent, tables, excused>> /\ errors' \in {errors, errors + 1}
        /\ pc[e].at = "idle"
        /\ \/ pc' = pc
           \/ \E f \in Functions \cup {Idle.fn} :
                 Enter(e, "record", Plug, Local, f) \/ Enter(e, "unsubscribe", Plug, Local, f)
    BY <1>3 DEF OffPlugSensor, OnPlugSensor, OfEnv, Free, Error
  <2>2. CASE pc' = pc
    <3>1. \A k \in Keys \ excused : ~In(k, e, Removing) /\ (Of(e, k)' => Stage(e)')
      BY <2>1, <2>2 DEF In, Removing, Registering, Stage
    <3> QED BY <1>1, <2>1, <2>2, <3>1, MoveKeeps DEF TablesShape
  <2>3. CASE \E f \in Functions \cup {Idle.fn} :
                 Enter(e, "record", Plug, Local, f) \/ Enter(e, "unsubscribe", Plug, Local, f)
    BY <1>1, <2>1, <2>3, EnterKeeps DEF Labels, Ops, Sensors
  <2> QED BY <2>1, <2>2, <2>3
<1> QED BY <1>2, <1>3

\* What leaves the tables, the agent and the threads keeps them good.
LEMMA StatusCallsKeep ==
    ASSUME TablesShape, Agrees, UNCHANGED <<lang, agent, tables, pc, excused, errors>>
    PROVE  TablesShape' /\ Agrees'
<1>1. /\ lang' = lang /\ subscribed' = subscribed /\ enabled' = enabled /\ stray' = stray
      /\ pc' = pc
      /\ on' = on /\ once' = once /\ system' = system /\ excused' = excused /\ errors' = errors
  BY DEF agent, tables
<1>2. Keys' = Keys /\ \A x : Key(x)' = Key(x)
  BY <1>1 DEF Keys, Key
<1> QED BY <1>1, <1>2 DEF TablesShape, IsTable, Agrees, Good, Clean, Reached, Justified,
        ForSomebody, Coming, In, At, Stage, Of

-----------------------------------------------------------------------------
(* Subscribing                                                             *)

\* A thread subscribes the user of the agent, or fails to.
LEMMA SubscribeKeeps ==
    ASSUME TablesShape, Agrees, NEW t \in Threads, SubscribeSensor(t)
    PROVE  TablesShape' /\ Agrees'
<1> DEFINE d == pc[t].d
<1>1. /\ pc[t].at = "subscribe" /\ pc[t].op # Plug /\ lang' = lang
      /\ enabled' = enabled /\ stray' = stray /\ excused' = excused
      /\ on' = on /\ once' = once /\ system' = system
      /\ d \in Sensors /\ Key(d) \in Sensors
  BY KeyIs DEF SubscribeSensor, agent, tables, TablesShape, ThreadShape
<1>2. CASE subscribed' = subscribed /\ errors' = errors + 1 /\ Goto(t, "idle")
  <2>1. /\ pc' \in [Threads -> ThreadShape]
        /\ pc'[t] = Idle /\ \A u \in Threads \ {t} : pc'[u] = pc[u]
    BY <1>2, GotoIs DEF Labels
  <2>2. \A k \in Keys \ excused : ~In(k, t, Removing) /\ (Of(t, k)' => Stage(t)')
    BY <1>1, <2>1, IdleIs DEF In, Removing, Registering, Stage
  <2>3. pc[t].at \notin {"activate", "record", "remove"}
    BY <1>1
  <2> QED BY <1>1, <1>2, <2>1, <2>2, <2>3, MoveKeeps DEF agent, tables
<1>3. CASE subscribed' = subscribed \cup {d} /\ errors' = errors /\ Goto(t, "activate")
  <2>1. /\ pc' \in [Threads -> ThreadShape]
        /\ pc'[t].at = "activate" /\ pc'[t].op = pc[t].op /\ pc'[t].d = d
        /\ \A u \in Threads \ {t} : pc'[u] = pc[u]
    BY <1>3, GotoIs DEF Labels
  <2>2. Keys' = Keys /\ \A x : Key(x)' = Key(x)
    BY <1>1 DEF Keys, Key
  <2>3. TablesShape'
    BY <1>1, <1>3, <2>1, <2>2 DEF TablesShape, IsTable
  <2>4. ASSUME NEW k \in Keys \ excused PROVE Good(k)'
    <3>1. Good(k) /\ Clean(k) /\ k \in Sensors /\ Key(k) = k
      BY <2>4, KeysAre DEF Agrees, Good
    <3>2. Clean(k)' /\ Reached(k)'
      <4>1. Clean(k)'
        BY <1>1, <1>3, <2>2, <3>1 DEF Clean
      <4>2. CASE \E u \in Threads : In(k, u, {"remove"})
        BY <1>1, <2>1, <4>1, <4>2 DEF Reached, In
      <4>3. CASE \A x \in At(on, k) \cup At(system, k) : x.d \in subscribed \cap enabled
        BY <1>1, <1>3, <4>1, <4>3 DEF Reached, At
      <4> QED BY <3>1, <4>1, <4>2, <4>3 DEF Good, Reached
    <3>3. \A places \in Comers : Coming(k, places) => Coming(k, places)'
      BY <1>1, <2>1 DEF Coming, In, Comers
    <3>4. d = k => Coming(k, {"activate", "record"})'
      BY <1>1, <2>1 DEF Coming, In
    <3>5. Justified(k)'
      <4>1. ASSUME NEW places \in Comers, ForSomebody(k, places)
            PROVE  ForSomebody(k, places)'
        <5>1. Coming(k, Removing) => Coming(k, Removing)'
          BY <1>1, <2>1 DEF Coming, In, Removing
        <5> QED BY <1>1, <3>3, <4>1, <5>1 DEF ForSomebody, At
      <4>2. ForSomebody(k, {"record"}) => ForSomebody(k, {"record"})'
        BY <4>1 DEF Comers
      <4>3. k \in enabled' => k \in enabled
        BY <1>1
      <4>4. ForSomebody(k, {"activate", "record"}) => ForSomebody(k, {"activate", "record"})'
        BY <4>1 DEF Comers
      <4>5. d = k => ForSomebody(k, {"activate", "record"})'
        BY <3>4 DEF ForSomebody
      <4>6. d # k /\ k \in subscribed' \ stray' => k \in subscribed \ stray
        BY <1>1, <1>3
      <4> QED BY <3>1, <4>2, <4>3, <4>4, <4>5, <4>6 DEF Good, Justified
    <3>6. ASSUME NEW u \in Threads, Of(u, k)' PROVE Stage(u)'
      <4>1. Of(u, k) /\ Stage(u)
        BY <1>1, <2>1, <2>2, <3>1, <3>6 DEF Of, Good
      <4>2. Key(pc[u].d) = k /\ pc[u].d \in Sensors
        BY <4>1 DEF Of, TablesShape, ThreadShape
      <4>3. k \in subscribed' \ stray' => k \in subscribed \ stray \/ d = k
        BY <1>1, <1>3
      <4>4. CASE u = t
        BY <1>1, <2>1, <2>2, <4>1, <4>4 DEF Stage, Registering, Removing
      <4>5. CASE u # t
        BY <1>1, <1>3, <2>1, <2>2, <3>3, <3>4, <4>1, <4>2, <4>3, <4>5 DEF Stage, Comers
      <4> QED BY <4>4, <4>5
    <3> QED BY <3>2, <3>5, <3>6 DEF Good
  <2> QED BY <1>1, <2>2, <2>3, <2>4 DEF Agrees
<1> QED BY <1>2, <1>3 DEF SubscribeSensor, Error

\* A thread turns the sensor on, or fails to.
LEMMA ActivateKeeps ==
    ASSUME TablesShape, Agrees, Placed, NEW t \in Threads, ActivateSensor(t)
    PROVE  TablesShape' /\ Agrees'
<1> DEFINE d == pc[t].d
<1>1. /\ pc[t].at = "activate" /\ pc[t].op # Plug /\ lang' = lang
      /\ on' = on /\ once' = once /\ system' = system
      /\ d \in Sensors /\ Key(d) \in Sensors
  BY KeyIs DEF ActivateSensor, tables, TablesShape, ThreadShape, Placed
<1>2. Keys' = Keys /\ \A x : Key(x)' = Key(x)
  BY <1>1 DEF Keys, Key
<1>3. CASE /\ d \in subscribed /\ enabled' = enabled \cup {d} /\ Goto(t, "record")
           /\ UNCHANGED <<subscribed, stray, excused, errors>>
  <2>1. /\ pc' \in [Threads -> ThreadShape]
        /\ pc'[t].at = "record" /\ pc'[t].op = pc[t].op /\ pc'[t].d = d
        /\ \A u \in Threads \ {t} : pc'[u] = pc[u]
    BY <1>3, GotoIs DEF Labels
  <2>2. TablesShape'
    BY <1>1, <1>2, <1>3, <2>1 DEF TablesShape, IsTable
  <2>3. ASSUME NEW k \in Keys \ excused PROVE Good(k)'
    <3>1. Good(k) /\ Clean(k) /\ k \in Sensors /\ Key(k) = k
      BY <2>3, KeysAre DEF Agrees, Good
    <3>2. Clean(k)' /\ Reached(k)'
      <4>1. Clean(k)'
        BY <1>1, <1>2, <1>3, <3>1 DEF Clean
      <4>2. CASE \E u \in Threads : In(k, u, {"remove"})
        BY <1>1, <2>1, <4>1, <4>2 DEF Reached, In
      <4>3. CASE \A x \in At(on, k) \cup At(system, k) : x.d \in subscribed \cap enabled
        BY <1>1, <1>3, <4>1, <4>3 DEF Reached, At
      <4> QED BY <3>1, <4>1, <4>2, <4>3 DEF Good, Reached
    <3>3. \A places \in Comers : Coming(k, places) => Coming(k, places)'
      BY <1>1, <2>1 DEF Coming, In, Comers
    <3>4. \A places \in Comers : d = k => Coming(k, places)'
      BY <1>1, <2>1 DEF Coming, In, Comers
    <3>5. Justified(k)'
      <4>1. CASE d = k
        BY <3>4, <4>1 DEF Justified, ForSomebody, Comers
      <4>2. CASE d # k
        <5> SUFFICES ASSUME NEW places \in Comers, ForSomebody(k, places)
                     PROVE  ForSomebody(k, places)'
          BY <1>1, <1>3, <3>1, <4>2 DEF Good, Justified, Comers
        <5>1. Coming(k, Removing) => Coming(k, Removing)'
          BY <1>1, <2>1 DEF Coming, In, Removing
        <5> QED BY <1>1, <3>3, <5>1 DEF ForSomebody, At
      <4> QED BY <4>1, <4>2
    <3>6. ASSUME NEW u \in Threads, Of(u, k)' PROVE Stage(u)'
      <4>1. Of(u, k) /\ Stage(u)
        BY <1>1, <1>2, <2>1, <3>1, <3>6 DEF Of, Good
      <4>2. Key(pc[u].d) = k /\ pc[u].d \in Sensors
        BY <4>1 DEF Of, TablesShape, ThreadShape
      <4>3. CASE u = t
        BY <1>1, <1>2, <1>3, <2>1, <4>1, <4>3 DEF Stage, Registering, Removing
      <4>4. CASE u # t
        BY <1>1, <1>2, <1>3, <2>1, <3>3, <3>4, <4>1, <4>2, <4>4 DEF Stage, Comers
      <4> QED BY <4>3, <4>4
    <3> QED BY <3>2, <3>5, <3>6 DEF Good
  <2> QED BY <1>2, <1>3, <2>2, <2>3 DEF Agrees
<1>4. CASE /\ \/ d \notin subscribed /\ stray' = stray
              \/ d \in subscribed /\ stray' = stray \cup {d}
           /\ Goto(t, "idle") /\ errors' \in {errors, errors + 1}
           /\ UNCHANGED <<subscribed, enabled, excused>>
  <2>1. /\ pc' \in [Threads -> ThreadShape]
        /\ pc'[t] = Idle /\ \A u \in Threads \ {t} : pc'[u] = pc[u]
    BY <1>4, GotoIs DEF Labels
  <2>2. TablesShape'
    BY <1>1, <1>2, <1>4, <2>1 DEF TablesShape, IsTable
  <2>3. ASSUME NEW k \in Keys \ excused PROVE Good(k)'
    <3>1. Good(k) /\ Clean(k) /\ k \in Sensors /\ Key(k) = k
      BY <2>3, KeysAre DEF Agrees, Good
    <3>2. d = k => k \notin subscribed' \ stray'
      BY <1>4
    <3>3. Clean(k)'
      BY <1>1, <1>2, <1>4, <3>1 DEF Clean
    <3>4. Reached(k)'
      <4>1. CASE \E u \in Threads : In(k, u, {"remove"})
        BY <1>1, <2>1, <4>1 DEF Reached, In
      <4>2. CASE \A x \in At(on, k) \cup At(system, k) : x.d \in subscribed \cap enabled
        BY <1>1, <1>4, <4>2 DEF Reached, At
      <4> QED BY <3>1, <4>1, <4>2 DEF Good, Reached
    <3>5. /\ Coming(k, {"record"}) => Coming(k, {"record"})'
          /\ d # k /\ Coming(k, {"activate", "record"}) => Coming(k, {"activate", "record"})'
          /\ Coming(k, Removing) => Coming(k, Removing)'
          /\ d # k /\ k \in subscribed' \ stray' => k \in subscribed \ stray
      BY <1>1, <1>4, <2>1 DEF Coming, In, Removing
    <3>6. Justified(k)'
      <4>1. k \in enabled => ForSomebody(k, {"record"})'
        BY <1>1, <3>1, <3>5 DEF Good, Justified, ForSomebody, At
      <4>2. k \in subscribed' \ stray' => ForSomebody(k, {"activate", "record"})'
        BY <1>1, <3>1, <3>2, <3>5 DEF Good, Justified, ForSomebody, At
      <4> QED BY <1>4, <4>1, <4>2 DEF Justified
    <3>7. ASSUME NEW u \in Threads, Of(u, k)' PROVE Stage(u)'
      <4>1. CASE u = t
        BY <2>1, <4>1, IdleIs DEF Stage, Removing, Registering
      <4>2. CASE u # t
        <5>1. Of(u, k) /\ Stage(u)
          BY <1>1, <1>2, <2>1, <3>1, <3>7, <4>2 DEF Of, Good
        <5>2. Key(pc[u].d) = k /\ pc[u].d \in Sensors
          BY <5>1 DEF Of, TablesShape, ThreadShape
        <5> QED BY <1>1, <1>2, <1>4, <2>1, <3>2, <3>5, <4>2, <5>1, <5>2 DEF Stage
      <4> QED BY <4>1, <4>2
    <3> QED BY <3>3, <3>4, <3>6, <3>7 DEF Good
  <2> QED BY <1>2, <1>4, <2>2, <2>3 DEF Agrees
<1>5. CASE /\ subscribed' = subscribed \ {d} /\ enabled' \in {enabled, enabled \ {d}}
           /\ stray' = stray \ {d}
           /\ excused' = excused \cup {Key(d)} /\ errors' = errors + 1 /\ Goto(t, "idle")
  <2>1. /\ pc' \in [Threads -> ThreadShape]
        /\ pc'[t] = Idle /\ \A u \in Threads \ {t} : pc'[u] = pc[u]
    BY <1>5, GotoIs DEF Labels
  <2>2. TablesShape'
    BY <1>1, <1>2, <1>5, <2>1 DEF TablesShape, IsTable
  <2>3. ASSUME NEW k \in Keys \ excused' PROVE Good(k)'
    <3>1. Good(k) /\ k # Key(d)
      BY <1>5, <2>3 DEF Agrees
    <3>2. /\ Same(on, on', k) /\ Same(once, once', k) /\ Same(system, system', k)
          /\ ~Of(t, k) /\ Stage(t)'
      BY <1>1, <2>1, <3>1, IdleIs DEF Same, Of, Stage, Removing, Registering
    <3>3. \A x \in Sensors : Key(x) = k =>
             /\ x \in subscribed' <=> x \in subscribed
             /\ x \in enabled' <=> x \in enabled
             /\ x \in stray' <=> x \in stray
      BY <1>5, <3>1
    <3> QED BY <1>1, <2>1, <2>2, <3>1, <3>2, <3>3, OthersKeep DEF TablesShape
  <2> QED BY <1>2, <2>2, <2>3 DEF Agrees
<1> QED BY <1>3, <1>4, <1>5 DEF ActivateSensor, Error, agent

-----------------------------------------------------------------------------
(* Callbacks come in                                                       *)

\* A thread stores its function after its sensor was turned on: in any language.
LEMMA RecordKeeps ==
    ASSUME TablesShape, Agrees, NEW t \in Threads, NEW k \in Keys, k = Key(pc[t].d),
           pc[t].at = "record", pc[t].op # Plug, Goto(t, "idle"),
           UNCHANGED <<lang, agent, errors>>, excused' = Overlap(t, k, Removing),
           IsTable(on'), IsTable(once'), IsTable(system'), lang = "cj" => system' = system,
           \A j \in Keys : j # k =>
               Same(on, on', j) /\ Same(once, once', j) /\ Same(system, system', j),
           k \notin excused =>
               /\ k \in DOMAIN on' => on'[k] # {}
               /\ k \in DOMAIN once' => once'[k] # {}
               /\ k \in DOMAIN system' => system'[k] # {}
               /\ At(on', k) \cup At(once', k) \cup At(system', k) # {}
               /\ \A x \in At(on', k) \cup At(system', k) :
                     x \in At(on, k) \cup At(system, k) \/ x.d \in subscribed \cap enabled
    PROVE  TablesShape' /\ Agrees'
<1>1. /\ lang' = lang /\ errors' = errors
      /\ subscribed' = subscribed /\ enabled' = enabled /\ stray' = stray
  BY DEF agent
<1>2. Keys' = Keys /\ \A x : Key(x)' = Key(x)
  BY <1>1 DEF Keys, Key
<1>3. /\ pc' \in [Threads -> ThreadShape]
      /\ pc'[t] = Idle /\ \A u \in Threads \ {t} : pc'[u] = pc[u]
  BY GotoIs DEF Labels
<1>4. TablesShape'
  BY <1>1, <1>2, <1>3 DEF TablesShape, IsTable
<1>5. excused \subseteq excused'
  BY OverlapIs
<1>6. ASSUME k \notin excused' PROVE Good(k)'
  <2>1. k \notin excused /\ Good(k) /\ Clean(k) /\ k \in Sensors /\ Key(k) = k
    BY <1>5, <1>6, KeysAre DEF Agrees, Good
  <2>2. \A u \in Threads \ {t} : Of(u, k) => pc[u].at \notin Removing
    BY <1>6, OverlapIs
  <2>3. Clean(k)'
    BY <1>1, <1>2, <2>1 DEF Clean
  <2>4. ASSUME NEW u \in Threads, In(k, u, {"remove"}) PROVE FALSE
    <3>1. u # t /\ Of(u, k) /\ pc[u].at \in Removing
      BY <2>1, <2>4 DEF In, Of, Removing
    <3> QED BY <2>2, <3>1
  <2>5. Reached(k)'
    <3>1. \A x \in At(on, k) \cup At(system, k) : x.d \in subscribed \cap enabled
      BY <2>1, <2>4 DEF Good, Reached
    <3>2. \A x \in At(on', k) \cup At(system', k) : x.d \in subscribed \cap enabled
      BY <2>1, <3>1
    <3> QED BY <1>1, <3>2 DEF Reached
  <2>6. Justified(k)'
    BY <2>1 DEF Justified, ForSomebody
  <2>7. ASSUME NEW u \in Threads, Of(u, k)' PROVE Stage(u)'
    <3>1. CASE u = t
      BY <1>3, <3>1, IdleIs DEF Stage, Removing, Registering
    <3>2. CASE u # t
      <4>1. Of(u, k) /\ Stage(u) /\ pc[u].at \notin Removing
        BY <1>1, <1>2, <1>3, <2>1, <2>2, <2>7, <3>2 DEF Of, Good
      <4> QED BY <1>1, <1>2, <1>3, <3>2, <4>1 DEF Stage, Removing
    <3> QED BY <3>1, <3>2
  <2> QED BY <2>3, <2>5, <2>6, <2>7 DEF Good
<1>7. ASSUME NEW j \in Keys \ excused', j # k PROVE Good(j)'
  <2>1. Good(j)
    BY <1>5, <1>7 DEF Agrees
  <2>2. ~Of(t, j) /\ Stage(t)'
    BY <1>3, <1>7, IdleIs DEF Of, Stage, Removing, Registering
  <2> QED BY <1>1, <1>3, <1>4, <1>7, <2>1, <2>2, OthersKeep DEF TablesShape
<1> QED BY <1>2, <1>4, <1>6, <1>7 DEF Agrees

\* JS: the function is stored.
LEMMA JsRecordKeeps ==
    ASSUME TablesShape, Agrees, NEW e \in Envs, Record(e)
    PROVE  TablesShape' /\ Agrees'
<1> DEFINE k == pc[e].d
           entry == [fn |-> pc[e].fn, d |-> k]
<1>1. /\ lang = "js" /\ e \in Threads /\ pc[e].at = "record" /\ pc[e].op # Plug
      /\ Goto(e, "idle") /\ UNCHANGED <<lang, agent, errors>>
      /\ excused' = Overlap(e, k, Removing)
      /\ \/ pc[e].op = "on" /\ UpdateCallbackInfos(k, entry)
         \/ pc[e].op = "once" /\ UpdateOnceCallback(k, entry)
         \/ pc[e].op = "system" /\ SaveSubscribeCallback(k, entry)
  BY EnvIsThread DEF Record
<1>2. k \in Sensors /\ k \in Keys /\ Key(k) = k /\ entry.d = k
  BY <1>1, KeyIs DEF TablesShape, ThreadShape
<1> HIDE DEF k, entry
<1>3. \A T : IsTable(T) => \A x \in At(T, k) \cup {entry} : x.d \in Sensors /\ Key(x.d) = k
  BY <1>2, AtIs
<1>4. \A T : IsTable(T) => IsTable(Put(T, k, At(T, k) \cup {entry}))
  BY <1>2, <1>3, PutIsTable
<1>5. IsTable(on') /\ IsTable(once') /\ IsTable(system')
  BY <1>1, <1>4 DEF UpdateCallbackInfos, UpdateOnceCallback, SaveSubscribeCallback, TablesShape
<1>6. ASSUME NEW j \in Keys, j # k
      PROVE  Same(on, on', j) /\ Same(once, once', j) /\ Same(system, system', j)
  BY <1>1, <1>6, AfterPut DEF UpdateCallbackInfos, UpdateOnceCallback, SaveSubscribeCallback, Same
<1>7. ASSUME k \notin excused
      PROVE  /\ k \in DOMAIN on' => on'[k] # {}
             /\ k \in DOMAIN once' => once'[k] # {}
             /\ k \in DOMAIN system' => system'[k] # {}
             /\ At(on', k) \cup At(once', k) \cup At(system', k) # {}
             /\ \A x \in At(on', k) \cup At(system', k) :
                   x \in At(on, k) \cup At(system, k) \/ x.d \in subscribed \cap enabled
  <2>1. Clean(k) /\ Good(k)
    BY <1>2, <1>7 DEF Agrees, Good
  <2>2. Stage(e)
    <3>1. Of(e, k)
      BY <1>1, <1>2 DEF Of, k
    <3> QED BY <1>1, <2>1, <3>1 DEF Good
  <2>3. pc[e].op \in {"on", "system"} => entry.d \in subscribed \cap enabled
    BY <1>1, <1>2, <2>2 DEF Stage, k
  <2>4. CASE pc[e].op = "on" /\ UpdateCallbackInfos(k, entry)
    BY <2>1, <2>3, <2>4, AfterPut DEF UpdateCallbackInfos, Clean
  <2>5. CASE pc[e].op = "once" /\ UpdateOnceCallback(k, entry)
    BY <2>1, <2>5, AfterPut DEF UpdateOnceCallback, Clean
  <2>6. CASE pc[e].op = "system" /\ SaveSubscribeCallback(k, entry)
    BY <2>1, <2>3, <2>6, AfterPut DEF SaveSubscribeCallback, Clean
  <2> QED BY <1>1, <2>4, <2>5, <2>6
<1>8. k = Key(pc[e].d)
  BY <1>2 DEF k
<1> QED BY <1>1, <1>2, <1>5, <1>6, <1>7, <1>8, RecordKeeps

\* CJ: the function is stored.
LEMMA CjRecordKeeps ==
    ASSUME TablesShape, Agrees, Placed, NEW t \in Envs, AddCallback2Map(t)
    PROVE  TablesShape' /\ Agrees'
<1> DEFINE k == pc[t].d
           entry == [fn |-> pc[t].fn, d |-> k]
<1>1. /\ lang = "cj" /\ t \in Threads /\ pc[t].at = "record" /\ pc[t].op # Plug
      /\ Goto(t, "idle") /\ UNCHANGED <<lang, agent, once, system, errors>>
      /\ excused' = Overlap(t, k, Removing) /\ on' = Put(on, k, {entry})
  BY EnvIsThread DEF AddCallback2Map, Placed
<1>2. k \in Sensors /\ k \in Keys /\ Key(k) = k /\ entry.d = k
  BY <1>1, KeyIs DEF TablesShape, ThreadShape
<1> HIDE DEF k, entry
<1>3. IsTable(on') /\ IsTable(once') /\ IsTable(system')
  BY <1>1, <1>2, PutIsTable DEF TablesShape
<1>4. \A j \in Keys : j # k =>
          Same(on, on', j) /\ Same(once, once', j) /\ Same(system, system', j)
  BY <1>1, AfterPut DEF Same
<1>5. ASSUME k \notin excused
      PROVE  /\ k \in DOMAIN on' => on'[k] # {}
             /\ k \in DOMAIN once' => once'[k] # {}
             /\ k \in DOMAIN system' => system'[k] # {}
             /\ At(on', k) \cup At(once', k) \cup At(system', k) # {}
             /\ \A x \in At(on', k) \cup At(system', k) :
                   x \in At(on, k) \cup At(system, k) \/ x.d \in subscribed \cap enabled
  <2>1. Clean(k) /\ Good(k)
    BY <1>2, <1>5 DEF Agrees, Good
  <2>2. Stage(t)
    <3>1. Of(t, k)
      BY <1>1, <1>2 DEF Of, k
    <3> QED BY <1>1, <2>1, <3>1 DEF Good
  <2>3. entry.d \in subscribed \cap enabled
    BY <1>1, <1>2, <2>2 DEF Stage, Registering, k
  <2> QED BY <1>1, <2>1, <2>3, AfterPut DEF Clean
<1>6. k = Key(pc[t].d)
  BY <1>2 DEF k
<1> QED BY <1>1, <1>2, <1>3, <1>4, <1>5, <1>6, RecordKeeps

\* A function that the table of ArkTS has is not added again: then the table has it.
LEMMA AddedIs ==
    ASSUME TablesShape, NEW t \in Threads, lang = "ets", NEW T, IsTable(T)
    PROVE  /\ IsTable(Added(T, t)) /\ At(Added(T, t), Local) # {}
           /\ \A x \in At(Added(T, t), Local) : x \in At(T, Local) \/ x.d = pc[t].d
<1> DEFINE entry == [fn |-> pc[t].fn, d |-> pc[t].d]
<1>1. Keys = {Local} /\ Local \in Sensors /\ pc[t].d \in Sensors /\ \A d : Key(d) = Local
  BY EtsKeys DEF Sensors, TablesShape, ThreadShape
<1>2. CASE \E x \in At(T, Local) : x.fn = pc[t].fn
  BY <1>1, <1>2 DEF Added
<1>3. CASE Added(T, t) = Put(T, Local, At(T, Local) \cup {entry})
  <2>1. /\ \A x \in At(T, Local) \cup {entry} : x.d \in Sensors /\ Key(x.d) = Local
        /\ entry.d = pc[t].d
    BY <1>1, AtIs
  <2> HIDE DEF entry
  <2>2. IsTable(Added(T, t))
    BY <1>1, <1>3, <2>1, PutIsTable
  <2>3. At(Added(T, t), Local) = At(T, Local) \cup {entry}
    BY <1>3, AfterPut
  <2> QED BY <2>1, <2>2, <2>3
<1> QED BY <1>1, <1>2, <1>3 DEF Added

\* ETS: the function is stored.
LEMMA EtsRecordKeeps ==
    ASSUME TablesShape, Agrees, NEW e \in Envs,
           UpdateCallbackInfosEts(e) \/ UpdateOnceCallbackEts(e)
    PROVE  TablesShape' /\ Agrees'
<1>1. /\ lang = "ets" /\ e \in Threads /\ pc[e].at = "record" /\ pc[e].op \in {"on", "once"}
      /\ Goto(e, "idle") /\ UNCHANGED <<lang, agent, system, errors>>
      /\ excused' = Overlap(e, Key(pc[e].d), Removing)
      /\ \/ pc[e].op = "on" /\ on' = Added(on, e) /\ once' = once
         \/ pc[e].op = "once" /\ once' = Added(once, e) /\ on' = on
  BY EnvIsThread DEF UpdateCallbackInfosEts, UpdateOnceCallbackEts
<1>2. Keys = {Local} /\ Key(pc[e].d) = Local /\ pc[e].op # Plug
  BY <1>1, EtsKeys DEF Plug
<1>3. IsTable(on) /\ IsTable(once) /\ IsTable(system)
  BY DEF TablesShape
<1>4. IsTable(on') /\ IsTable(once') /\ IsTable(system')
  BY <1>1, <1>3, AddedIs
<1>5. ASSUME Local \notin excused
      PROVE  /\ Local \in DOMAIN on' => on'[Local] # {}
             /\ Local \in DOMAIN once' => once'[Local] # {}
             /\ Local \in DOMAIN system' => system'[Local] # {}
             /\ At(on', Local) \cup At(once', Local) \cup At(system', Local) # {}
             /\ \A x \in At(on', Local) \cup At(system', Local) :
                   x \in At(on, Local) \cup At(system, Local) \/ x.d \in subscribed \cap enabled
  <2>1. Clean(Local) /\ Good(Local)
    BY <1>2, <1>5 DEF Agrees, Good
  <2>2. Stage(e)
    <3>1. Of(e, Local)
      BY <1>1, <1>2 DEF Of
    <3> QED BY <1>1, <2>1, <3>1 DEF Good
  <2>3. pc[e].op = "on" => pc[e].d \in subscribed \cap enabled
    BY <1>1, <2>2 DEF Stage
  <2>4. CASE pc[e].op = "on" /\ on' = Added(on, e) /\ once' = once
    <3>1. /\ At(on', Local) # {}
          /\ \A x \in At(on', Local) : x \in At(on, Local) \/ x.d = pc[e].d
      BY <1>1, <1>3, <2>4, AddedIs
    <3>2. Local \in DOMAIN on' => on'[Local] # {}
      BY <3>1 DEF At
    <3> QED BY <1>1, <2>1, <2>3, <2>4, <3>1, <3>2 DEF Clean
  <2>5. CASE pc[e].op = "once" /\ once' = Added(once, e) /\ on' = on
    <3>1. At(once', Local) # {}
      BY <1>1, <1>3, <2>5, AddedIs
    <3>2. Local \in DOMAIN once' => once'[Local] # {}
      BY <3>1 DEF At
    <3> QED BY <1>1, <2>1, <2>5, <3>1, <3>2 DEF Clean
  <2> QED BY <1>1, <2>4, <2>5
<1> QED BY <1>1, <1>2, <1>4, <1>5, RecordKeeps

-----------------------------------------------------------------------------
(* Unsubscribing                                                           *)

\* A thread turns the sensor off and drops the user: in any language.
LEMMA DeactivateKeeps ==
    ASSUME TablesShape, Agrees, NEW t \in Threads, pc[t].at = "unsubscribe", pc[t].op # Plug,
           UNCHANGED <<lang, tables>>, Deactivated(t), NEW at \in {"idle", "remove"}, Goto(t, at),
           at = "remove" <=> lang = "cj" /\ pc[t].d \in subscribed /\ errors' = errors
    PROVE  TablesShape' /\ Agrees'
<1>0. PICK d \in Sensors, k \in Keys : d = pc[t].d /\ k = Key(d)
  BY KeyIs DEF TablesShape, ThreadShape
<1>1. /\ lang' = lang /\ on' = on /\ once' = once /\ system' = system
      /\ k \in Sensors /\ d = pc[t].d /\ k = Key(d) /\ errors \in Nat
  BY <1>0, KeyIs DEF tables, TablesShape
<1>2. Keys' = Keys /\ \A x : Key(x)' = Key(x)
  BY <1>1 DEF Keys, Key
<1>3. /\ pc' \in [Threads -> ThreadShape] /\ pc'[t].at = at
      /\ at = "idle" => pc'[t] = Idle
      /\ at = "remove" => pc'[t].op = pc[t].op /\ pc'[t].d = d
      /\ \A u \in Threads \ {t} : pc'[u] = pc[u]
  BY <1>1, GotoIs DEF Labels
<1>4. /\ subscribed' = subscribed \ {d} /\ stray' = stray \ {d} /\ enabled' \subseteq enabled
      /\ \A x \in enabled : x # d => x \in enabled'
      /\ excused \subseteq excused' /\ errors' \in {errors, errors + 1}
  BY <1>1, OverlapIs DEF Deactivated, Error
<1>5. TablesShape'
  BY <1>1, <1>2, <1>3, <1>4 DEF TablesShape, IsTable
<1>6. ASSUME k \notin excused' PROVE Good(k)'
  <2>1. /\ errors' = errors /\ k \notin excused
        /\ enabled' = IF d \in subscribed THEN enabled \ {d} ELSE enabled
        /\ d \in subscribed => excused' = Overlap(t, k, Registering)
    BY <1>1, <1>4, <1>6 DEF Deactivated
  <2>2. Good(k) /\ Clean(k) /\ Stage(t) /\ Of(t, k)
    BY <1>1, <2>1 DEF Agrees, Good, Of
  <2>3. d = k /\ Key(k) = k
    BY <1>1, <2>2, KeysAre DEF Stage, Removing
  <2>4. k \notin subscribed' \cup enabled'
    BY <1>4, <2>1, <2>2, <2>3 DEF Clean
  <2>5. Clean(k)'
    BY <1>1, <1>2, <1>4, <2>1, <2>2, <2>3 DEF Clean
  <2>6. Justified(k)'
    BY <2>4 DEF Justified
  <2>7. Reached(k)'
    <3>1. CASE lang # "cj"
      BY <1>1, <2>2, <3>1 DEF Stage, Reached, At
    <3>2. CASE lang = "cj" /\ d \in subscribed
      BY <1>1, <1>3, <2>1, <2>3, <3>2 DEF Reached, In
    <3>3. CASE lang = "cj" /\ d \notin subscribed
      <4>1. subscribed' = subscribed /\ enabled' = enabled
        BY <1>4, <2>1, <3>3
      <4>2. CASE \E u \in Threads : In(k, u, {"remove"})
        BY <1>3, <4>2 DEF Reached, In
      <4>3. CASE \A x \in At(on, k) \cup At(system, k) : x.d \in subscribed \cap enabled
        BY <1>1, <4>1, <4>3 DEF Reached, At
      <4> QED BY <2>2, <4>2, <4>3 DEF Good, Reached
    <3> QED BY <3>1, <3>2, <3>3
  <2>8. ASSUME NEW u \in Threads, Of(u, k)' PROVE Stage(u)'
    <3>1. CASE u = t
      BY <1>1, <1>2, <1>3, <2>3, <2>4, <2>8, <3>1, IdleIs DEF Stage, Removing, Registering
    <3>2. CASE u # t
      <4>1. Of(u, k) /\ Stage(u)
        BY <1>1, <1>2, <1>3, <2>2, <2>8, <3>2 DEF Of, Good
      <4>2. CASE d \in subscribed
        <5>1. pc[u].at \notin Registering
          BY <1>6, <2>1, <3>2, <4>1, <4>2, OverlapIs
        <5> QED BY <1>1, <1>2, <1>3, <2>4, <3>2, <4>1, <5>1 DEF Stage, Of, Registering
      <4>3. CASE d \notin subscribed
        <5>1. subscribed' = subscribed /\ enabled' = enabled
          BY <1>4, <2>1, <4>3
        <5> QED BY <1>1, <1>2, <1>3, <2>4, <3>2, <4>1, <5>1 DEF Stage, Of
      <4> QED BY <4>2, <4>3
    <3> QED BY <3>1, <3>2
  <2> QED BY <2>5, <2>6, <2>7, <2>8 DEF Good
<1>7. ASSUME NEW j \in Keys \ excused', j # k PROVE Good(j)'
  <2>1. Good(j)
    BY <1>4, <1>7 DEF Agrees
  <2>2. Same(on, on', j) /\ Same(once, once', j) /\ Same(system, system', j)
    BY <1>1 DEF Same
  <2>3. ~Of(t, j) /\ (pc'[t] = Idle \/ ~Of(t, j)')
    BY <1>1, <1>2, <1>3, <1>7 DEF Of, Key
  <2>4. ~Of(t, j) /\ (Of(t, j)' => Stage(t)')
    BY <2>3, IdleIs DEF Stage, Removing, Registering
  <2>5. \A x \in Sensors : Key(x) = j =>
           /\ x \in subscribed' <=> x \in subscribed
           /\ x \in enabled' <=> x \in enabled
           /\ x \in stray' <=> x \in stray
    BY <1>1, <1>4, <1>7
  <2> QED BY <1>1, <1>3, <1>4, <1>5, <1>7, <2>1, <2>2, <2>4, <2>5, OthersKeep DEF TablesShape
<1> QED BY <1>2, <1>5, <1>6, <1>7 DEF Agrees

\* Each language turns the sensor off that way.
LEMMA UnsubscribeSensorKeeps ==
    ASSUME TablesShape, Agrees, Placed, NEW t \in Threads,
           \/ UnsubscribeSensor(t) \/ UnsubscribeLocal(t)
           \/ t \in Envs /\ UnsubscribeSensorImpl(t)
    PROVE  TablesShape' /\ Agrees'
<1>1. /\ pc[t].at = "unsubscribe" /\ pc[t].op # Plug /\ UNCHANGED <<lang, tables>>
      /\ Deactivated(t)
  BY DEF UnsubscribeSensor, UnsubscribeLocal, UnsubscribeSensorImpl, Placed
<1>2. PICK at \in {"idle", "remove"} :
        /\ Goto(t, at)
        /\ at = "remove" <=> lang = "cj" /\ pc[t].d \in subscribed /\ errors' = errors
  BY DEF UnsubscribeSensor, UnsubscribeLocal, UnsubscribeSensorImpl
<1> QED BY <1>1, <1>2, DeactivateKeeps

-----------------------------------------------------------------------------
(* Every step keeps the tables right                                       *)

\* ETS: a call that asks for a sensor begins.
LEMMA EtsCallKeeps ==
    ASSUME TablesShape, Agrees, NEW e \in Envs, NEW f \in OfEnv(e),
           OnceCommon(e, f) \/ \E d \in Sensors : OnCommon(e, f, d)
    PROVE  TablesShape' /\ Agrees'
<1>1. e \in Threads /\ f \in Functions
  BY EnvIsThread DEF OfEnv
<1>2. CASE OnceCommon(e, f)
  BY <1>1, <1>2, EnterKeeps DEF OnceCommon, Labels, Ops, Sensors
<1>3. CASE \E d \in Sensors : OnCommon(e, f, d)
  BY <1>1, <1>3, EnterKeeps DEF OnCommon, Labels, Ops
<1> QED BY <1>2, <1>3

\* ETS: data of a type comes for the functions.
LEMMA DataOfTypeKeeps ==
    ASSUME TablesShape, Agrees, NEW d \in Sensors, DataOfType(d)
    PROVE  TablesShape' /\ Agrees'
BY EnterKeeps, EnvIsThread, IdleIs DEF DataOfType, Emitting, Labels, Ops, Sensors

\* CJ: a call that asks for a sensor, or for no more of it, begins.
LEMMA CjCallKeeps ==
    ASSUME TablesShape, Agrees, NEW t \in Envs, NEW d \in Sensors,
           OffSensorChange(t, d) \/ \E f \in OfEnv(t) : OnSensorChange(t, f, d)
    PROVE  TablesShape' /\ Agrees'
<1>1. t \in Threads
  BY EnvIsThread
<1>2. CASE OffSensorChange(t, d)
  BY <1>1, <1>2, EnterKeeps, IdleIs DEF OffSensorChange, Labels, Ops
<1>3. CASE \E f \in OfEnv(t) : OnSensorChange(t, f, d)
  BY <1>1, <1>3, EnterKeeps DEF OnSensorChange, OfEnv, Labels, Ops
<1> QED BY <1>2, <1>3

\* Every step of the JS binding keeps the tables.
LEMMA JsKeeps ==
    ASSUME TablesShape, Placed, Agrees, JsNext
    PROVE  TablesShape' /\ Agrees'
<1>1. CASE \E e \in Envs :
             \/ \E f \in OfEnv(e) : Once(e, f) \/ Subscribe(e, f) \/ \E o \in Options : On(e, f, o)
             \/ \E o \in Options : OffCall(e, o)
             \/ Unsubscribe(e) \/ Record(e) \/ CleanUp(e)
  BY <1>1, CallKeeps, OffCallKeeps, UnsubscribeKeeps, JsRecordKeeps, CleanUpKeeps
<1>2. CASE \E e \in Envs :
             \/ UpdatePlugCallbackInfos(e) \/ UnsubscribeSensorPlug(e) \/ OffPlugSensor(e)
             \/ \E f \in OfEnv(e) : OnPlugSensor(e, f)
  BY <1>2, PlugCallsKeep
<1>3. CASE AsyncWorkDone \/ \E e \in Envs : EmitAsyncWork(e)
  BY <1>3, StatusCallsKeep DEF AsyncWorkDone, EmitAsyncWork
<1>4. CASE \E t \in Threads : CheckSubscribe(t) \/ CheckSystemSubscribe(t) \/ UnsubscribeSensor(t)
  BY <1>4, CheckSubscribeKeeps, CheckSystemSubscribeKeeps, UnsubscribeSensorKeeps
<1>5. CASE EmitSubscribeCallback \/ EmitOnceCallback \/ \E d \in Sensors : DataCallbackImpl(d)
  BY <1>5, EmitKeeps, EmitOnceKeeps, DataCallbackImplKeeps
<1> QED BY <1>1, <1>2, <1>3, <1>4, <1>5 DEF JsNext, SystemInterface

\* Every step of the ETS binding keeps the tables.
LEMMA EtsKeeps ==
    ASSUME TablesShape, Placed, Agrees, EtsNext
    PROVE  TablesShape' /\ Agrees'
<1>1. CASE \E e \in Envs :
             \/ \E f \in OfEnv(e) : OnceCommon(e, f) \/ \E d \in Sensors : OnCommon(e, f, d)
             \/ \E gone \in {Functions} \cup {{f} : f \in OfEnv(e)} : OffCommon(e, gone)
             \/ UpdateCallbackInfosEts(e) \/ UpdateOnceCallbackEts(e)
  BY <1>1, EtsCallKeeps, OffCommonKeeps, EtsRecordKeeps
<1>2. CASE \E e \in Envs :
             \/ \E f \in OfEnv(e) : OnSensorStatusChange(e, f)
             \/ \E gone \in {Functions} \cup {{f} : f \in OfEnv(e)} : OffSensorStatusChange(e, gone)
  BY <1>2, StatusCallsKeep DEF OnSensorStatusChange, OffSensorStatusChange
<1>3. CASE CheckType \/ CallbacksReturn \/ \E t \in Threads : CheckSystem(t)
  BY <1>3, EtsChecksKeep, EnvIsThread
<1>4. CASE \E t \in Threads : UnsubscribeLocal(t)
  BY <1>4, UnsubscribeSensorKeeps
<1>5. CASE EmitOnCallback \/ EmitOnce \/ \E d \in Sensors : DataOfType(d)
  BY <1>5, EmitKeeps, EmitOnceKeeps, DataOfTypeKeeps
<1> QED BY <1>1, <1>2, <1>3, <1>4, <1>5 DEF EtsNext

\* Every step of the CJ binding keeps the tables.
LEMMA CjKeeps ==
    ASSUME TablesShape, Placed, Agrees, CjNext
    PROVE  TablesShape' /\ Agrees'
<1>1. PICK t \in Envs :
        \/ \E f \in OfEnv(t), d \in Sensors : OnSensorChange(t, f, d)
        \/ \E d \in Sensors : OffSensorChange(t, d)
        \/ AddCallback2Map(t) \/ UnsubscribeSensorImpl(t) \/ DelCallback(t)
  BY DEF CjNext
<1>2. t \in Threads
  BY EnvIsThread
<1> QED BY <1>1, <1>2, CjCallKeeps, CjRecordKeeps, UnsubscribeSensorKeeps, DelCallbackKeeps

-----------------------------------------------------------------------------
(* Places and status changes                                               *)

\* A step of one thread into a call of the data keeps every thread at its place.
LEMMA CallPlaced ==
    ASSUME Placed, Plugged, NEW t \in Threads,
           lang' = lang, plug' = plug, excused \subseteq excused',
           \A u \in Threads \ {t} : pc'[u] = pc[u],
           \/ pc'[t] = pc[t]
           \/ /\ pc'[t].op # Plug
              /\ pc'[t].at \in Emitting => pc'[t].op = "once" /\ (lang = "ets" => pc'[t].d = Local)
    PROVE  Placed' /\ Plugged'
<1>1. Placed'
  BY DEF Placed
<1>2. Plugged'
  <2> SUFFICES ASSUME lang = "js", Plug \notin excused' PROVE PlugAgrees'
    BY DEF Plugged
  <2>1. \A e \in Envs : pc'[e].op = Plug => pc'[e] = pc[e]
    BY EnvIsThread
  <2>2. Plug \notin excused
    OBVIOUS
  <2> QED BY <2>1, <2>2 DEF Plugged, PlugAgrees
<1> QED BY <1>1, <1>2

\* So does a step of a thread within its call.
LEMMA GotoPlaced ==
    ASSUME TablesShape, Placed, Plugged, NEW t \in Threads, NEW at \in Labels, Goto(t, at),
           lang' = lang, plug' = plug, excused \subseteq excused',
           pc[t].op # Plug, at \in Emitting => pc[t].at \in Emitting
    PROVE  Placed' /\ Plugged'
<1>1. /\ pc'[t].at = at /\ \A u \in Threads \ {t} : pc'[u] = pc[u]
      /\ at = "idle" => pc'[t] = Idle
      /\ at # "idle" => pc'[t].op = pc[t].op /\ pc'[t].d = pc[t].d
  BY GotoIs
<1>2. pc'[t].op # Plug
  BY <1>1, IdleIs DEF Plug
<1>3. pc'[t].at \in Emitting => pc'[t].op = "once" /\ (lang = "ets" => pc'[t].d = Local)
  BY <1>1 DEF Placed, Emitting
<1> QED BY <1>1, <1>2, <1>3, CallPlaced

\* So does a call that begins.
LEMMA EnterPlaced ==
    ASSUME TablesShape, Placed, Plugged, NEW t \in Threads, NEW at \in Labels, NEW op \in Ops,
           NEW d \in Sensors, NEW f \in Functions \cup {Idle.fn}, Enter(t, at, op, d, f),
           lang' = lang, plug' = plug, excused \subseteq excused',
           op # Plug, at \in Emitting => op = "once" /\ (lang = "ets" => d = Local)
    PROVE  Placed' /\ Plugged'
<1>1. /\ pc'[t].at = at /\ pc'[t].op = op /\ pc'[t].d = d
      /\ \A u \in Threads \ {t} : pc'[u] = pc[u]
  BY EnterIs
<1> QED BY <1>1, CallPlaced

\* So does what moves no thread.
LEMMA StillPlaced ==
    ASSUME Placed, Plugged, lang' = lang, pc' = pc, excused \subseteq excused',
           plug' = plug \/ lang # "js"
    PROVE  Placed' /\ Plugged'
<1>1. Placed'
  BY DEF Placed
<1> QED BY <1>1 DEF Plugged, PlugAgrees

\* JS: so does what is called for the plugs.
LEMMA PlugPlaced ==
    ASSUME TablesShape, Placed, Plugged, NEW e \in Envs,
           \/ UpdatePlugCallbackInfos(e) \/ UnsubscribeSensorPlug(e) \/ OffPlugSensor(e)
           \/ \E f \in OfEnv(e) : OnPlugSensor(e, f)
    PROVE  Placed' /\ Plugged'
<1>1. e \in Threads /\ Local \in Sensors
  BY EnvIsThread DEF Sensors
<1>2. CASE UpdatePlugCallbackInfos(e)
  <2>1. /\ lang' = lang /\ plug' = [plug EXCEPT !.cbs = @ \cup {pc[e].fn}]
        /\ pc[e].op = Plug /\ pc[e].at = "record" /\ Goto(e, "idle") /\ lang = "js"
        /\ excused' = IF \E u \in Envs \ {e} : pc[u].op = Plug /\ pc[u].at = "unsubscribe"
                      THEN excused \cup {Plug} ELSE excused
        /\ plug \in PlugShape /\ pc[e].fn \in Functions \cup {Idle.fn}
    BY <1>1, <1>2 DEF UpdatePlugCallbackInfos, Plugged, TablesShape, ThreadShape
  <2>2. pc'[e] = Idle /\ \A u \in Threads \ {e} : pc'[u] = pc[u]
    BY <1>1, <2>1, GotoIs DEF Labels
  <2>3. Placed'
    BY <2>1, <2>2, IdleIs DEF Placed, Emitting, Plug
  <2>4. plug' \in PlugShape /\ plug'.user = plug.user
    BY <2>1 DEF PlugShape
  <2>5. ASSUME Plug \notin excused' PROVE PlugAgrees'
    <3>1. plug'.user
      BY <2>1, <2>4, <2>5 DEF Plugged, PlugAgrees
    <3>2. ASSUME NEW u \in Envs, pc'[u].op = Plug PROVE pc'[u].at # "unsubscribe"
      <4>1. u # e /\ pc'[u] = pc[u]
        BY <2>2, <3>2, IdleIs, EnvIsThread DEF Plug
      <4> QED BY <2>1, <2>5, <3>2, <4>1
    <3> QED BY <3>1, <3>2 DEF PlugAgrees
  <2> QED BY <2>1, <2>3, <2>4, <2>5 DEF Plugged
<1>3. CASE UnsubscribeSensorPlug(e)
  <2>1. /\ lang' = lang /\ plug' = [plug EXCEPT !.user = FALSE]
        /\ pc[e].op = Plug /\ pc[e].at = "unsubscribe" /\ Goto(e, "idle") /\ lang = "js"
        /\ excused' = IF \E u \in Envs \ {e} : pc[u].op = Plug /\ pc[u].at = "record"
                      THEN excused \cup {Plug} ELSE excused
        /\ plug \in PlugShape
    BY <1>3 DEF UnsubscribeSensorPlug, Plugged
  <2>2. pc'[e] = Idle /\ \A u \in Threads \ {e} : pc'[u] = pc[u]
    BY <1>1, <2>1, GotoIs DEF Labels
  <2>3. Placed'
    BY <2>1, <2>2, IdleIs DEF Placed, Emitting, Plug
  <2>4. plug' \in PlugShape /\ plug'.cbs = plug.cbs
    BY <2>1 DEF PlugShape
  <2>5. ASSUME Plug \notin excused' PROVE PlugAgrees'
    <3>1. plug'.cbs = {}
      BY <2>1, <2>4, <2>5 DEF Plugged, PlugAgrees
    <3>2. ASSUME NEW u \in Envs, pc'[u].op = Plug PROVE pc'[u].at # "record"
      <4>1. u # e /\ pc'[u] = pc[u]
        BY <2>2, <3>2, IdleIs, EnvIsThread DEF Plug
      <4> QED BY <2>1, <2>5, <3>2, <4>1
    <3> QED BY <3>1, <3>2 DEF PlugAgrees
  <2> QED BY <2>1, <2>3, <2>4, <2>5 DEF Plugged
<1>4. CASE OffPlugSensor(e)
  <2>1. PICK gone :
          /\ lang = "js" /\ lang' = lang /\ excused' = excused
          /\ plug' = [plug EXCEPT !.cbs = @ \ gone] /\ plug \in PlugShape
          /\ IF plug.cbs \ gone # {} THEN UNCHANGED pc
             ELSE Enter(e, "unsubscribe", Plug, Local, Idle.fn)
    BY <1>4 DEF OffPlugSensor, Plugged
  <2>2. \/ pc' = pc
        \/ /\ pc'[e].at = "unsubscribe" /\ pc'[e].op = Plug /\ plug.cbs \ gone = {}
           /\ \A u \in Threads \ {e} : pc'[u] = pc[u]
    <3>1. CASE pc' = pc
      BY <3>1
    <3>2. CASE plug.cbs \ gone = {} /\ Enter(e, "unsubscribe", Plug, Local, Idle.fn)
      BY <1>1, <3>2, EnterIs, IdleIs DEF Labels, Ops
    <3> QED BY <2>1, <3>1, <3>2
  <2>3. Placed'
    BY <2>1, <2>2 DEF Placed, Emitting
  <2>4. plug' \in PlugShape /\ plug'.user = plug.user /\ plug'.cbs = plug.cbs \ gone
    BY <2>1 DEF PlugShape
  <2>5. ASSUME Plug \notin excused PROVE PlugAgrees'
    <3>1. PlugAgrees
      BY <2>1, <2>5 DEF Plugged
    <3> QED BY <2>2, <2>4, <3>1, EnvIsThread DEF PlugAgrees
  <2> QED BY <2>1, <2>3, <2>4, <2>5 DEF Plugged
<1>5. CASE \E f \in OfEnv(e) : OnPlugSensor(e, f)
  <2>1. CASE UNCHANGED <<plug, pc>>
    BY <1>5, <2>1, StillPlaced DEF OnPlugSensor
  <2>2. CASE \E f \in OfEnv(e) : Enter(e, "record", Plug, Local, f)
                                 /\ plug' = [plug EXCEPT !.user = TRUE]
    <3>1. PICK f \in Functions :
            /\ Enter(e, "record", Plug, Local, f) /\ plug' = [plug EXCEPT !.user = TRUE]
            /\ lang = "js" /\ lang' = lang /\ excused' = excused /\ plug \in PlugShape
      BY <1>5, <2>2 DEF OnPlugSensor, OfEnv, Plugged
    <3>2. /\ pc'[e].at = "record" /\ pc'[e].op = Plug
          /\ \A u \in Threads \ {e} : pc'[u] = pc[u]
      BY <1>1, <3>1, EnterIs DEF Labels, Ops
    <3>3. plug' \in PlugShape /\ plug'.user /\ plug'.cbs = plug.cbs
      BY <3>1 DEF PlugShape
    <3>4. Placed'
      BY <3>1, <3>2 DEF Placed, Emitting
    <3>5. Plug \notin excused => PlugAgrees'
      BY <3>1, <3>2, <3>3, EnvIsThread DEF Plugged, PlugAgrees
    <3> QED BY <3>1, <3>3, <3>4, <3>5 DEF Plugged
  <2> QED BY <1>5, <2>1, <2>2 DEF OnPlugSensor
<1> QED BY <1>2, <1>3, <1>4, <1>5

\* Every step of the JS binding keeps the threads at their places.
LEMMA JsPlaced ==
    ASSUME TablesShape, Placed, Plugged, JsNext
    PROVE  Placed' /\ Plugged'
<1>1. ASSUME NEW e \in Envs, NEW f \in OfEnv(e),
             Once(e, f) \/ Subscribe(e, f) \/ \E o \in Options : On(e, f, o)
      PROVE  Placed' /\ Plugged'
  <2>1. e \in Threads /\ f \in Functions
    BY EnvIsThread DEF OfEnv
  <2>2. PICK at \in Labels \ Emitting, op \in Ops \ {Plug}, d \in Sensors : Enter(e, at, op, d, f)
    BY <1>1, OptionsAre DEF Once, Subscribe, On, Labels, Emitting, Ops, Plug, Sensors
  <2>3. lang' = lang /\ plug' = plug /\ excused' = excused
    BY <1>1 DEF Once, Subscribe, On
  <2> QED BY <2>1, <2>2, <2>3, EnterPlaced
<1>2. ASSUME NEW e \in Envs, Unsubscribe(e) \/ \E o \in Options : OffCall(e, o)
      PROVE  Placed' /\ Plugged'
  <2>1. e \in Threads /\ lang' = lang /\ plug' = plug /\ excused' = excused
    BY <1>2, EnvIsThread DEF Unsubscribe, OffCall
  <2>2. \/ pc' = pc
        \/ \E d \in Sensors, at \in {"checkOn", "checkSystem"} : Enter(e, at, "off", d, Idle.fn)
    BY <1>2, OptionsAre DEF Unsubscribe, OffCall, Off, Sensors
  <2>3. CASE pc' = pc
    BY <2>1, <2>3, StillPlaced
  <2>4. CASE \E d \in Sensors, at \in {"checkOn", "checkSystem"} : Enter(e, at, "off", d, Idle.fn)
    BY <2>1, <2>4, EnterPlaced, IdleIs DEF Labels, Ops, Emitting, Plug
  <2> QED BY <2>2, <2>3, <2>4
<1>3. ASSUME NEW e \in Envs, Record(e)
      PROVE  Placed' /\ Plugged'
  BY <1>3, GotoPlaced, OverlapIs, EnvIsThread DEF Record, Labels, Emitting
<1>4. ASSUME NEW e \in Envs, CleanUp(e)
      PROVE  Placed' /\ Plugged'
  BY <1>4, StillPlaced DEF CleanUp
<1>5. ASSUME NEW e \in Envs,
             \/ UpdatePlugCallbackInfos(e) \/ UnsubscribeSensorPlug(e) \/ OffPlugSensor(e)
             \/ \E f \in OfEnv(e) : OnPlugSensor(e, f)
      PROVE  Placed' /\ Plugged'
  BY <1>5, PlugPlaced
<1>6. CASE AsyncWorkDone \/ \E e \in Envs : EmitAsyncWork(e)
  BY <1>6, StillPlaced DEF AsyncWorkDone, EmitAsyncWork
<1>7. ASSUME NEW t \in Threads, CheckSubscribe(t) \/ CheckSystemSubscribe(t) \/ UnsubscribeSensor(t)
      PROVE  Placed' /\ Plugged'
  <2>1. lang' = lang /\ plug' = plug /\ excused \subseteq excused' /\ pc[t].op # Plug
    BY <1>7, OverlapIs DEF CheckSubscribe, CheckSystemSubscribe, UnsubscribeSensor, Deactivated, Placed
  <2>2. PICK at \in Labels \ Emitting : Goto(t, at)
    BY <1>7 DEF CheckSubscribe, CheckSystemSubscribe, UnsubscribeSensor, Labels, Emitting
  <2> QED BY <2>1, <2>2, GotoPlaced
<1>8. ASSUME NEW d \in Sensors, DataCallbackImpl(d)
      PROVE  Placed' /\ Plugged'
  BY <1>8, EnterPlaced, EnvIsThread, IdleIs DEF DataCallbackImpl, Labels, Ops, Emitting, Plug
<1>9. CASE EmitSubscribeCallback \/ EmitOnceCallback
  <2>1. /\ lang' = lang /\ plug' = plug /\ excused \subseteq excused' /\ "data" \in Threads
        /\ pc["data"].at \in Emitting /\ pc["data"].op # Plug
    BY <1>9, EnvIsThread DEF EmitSubscribeCallback, EmitOnceCallback, Placed, Emitting, Plug
  <2>2. PICK at \in Labels : Goto("data", at)
    BY <1>9 DEF EmitSubscribeCallback, EmitOnceCallback, Labels
  <2> QED BY <2>1, <2>2, GotoPlaced
<1> QED BY <1>1, <1>2, <1>3, <1>4, <1>5, <1>6, <1>7, <1>8, <1>9 DEF JsNext, SystemInterface

\* Every step of the ETS binding keeps the threads at their places.
LEMMA EtsPlaced ==
    ASSUME TablesShape, Placed, Plugged, EtsNext
    PROVE  Placed' /\ Plugged'
<1>1. ASSUME NEW e \in Envs, NEW f \in OfEnv(e),
             OnceCommon(e, f) \/ \E d \in Sensors : OnCommon(e, f, d)
      PROVE  Placed' /\ Plugged'
  <2>1. e \in Threads /\ f \in Functions
    BY EnvIsThread DEF OfEnv
  <2>2. PICK at \in Labels \ Emitting, op \in Ops \ {Plug}, d \in Sensors : Enter(e, at, op, d, f)
    BY <1>1 DEF OnceCommon, OnCommon, Labels, Emitting, Ops, Plug, Sensors
  <2>3. lang' = lang /\ plug' = plug /\ excused' = excused
    BY <1>1 DEF OnceCommon, OnCommon
  <2> QED BY <2>1, <2>2, <2>3, EnterPlaced
<1>2. ASSUME NEW e \in Envs, NEW gone, OffCommon(e, gone)
      PROVE  Placed' /\ Plugged'
  <2>1. CASE pc' = pc
    BY <1>2, <2>1, StillPlaced DEF OffCommon
  <2>2. CASE Enter(e, "checkSystem", "off", Local, Idle.fn)
    BY <1>2, <2>2, EnterPlaced, EnvIsThread, IdleIs DEF OffCommon, Labels, Ops, Emitting, Plug, Sensors
  <2> QED BY <1>2, <2>1, <2>2 DEF OffCommon
<1>3. ASSUME NEW e \in Envs, UpdateCallbackInfosEts(e) \/ UpdateOnceCallbackEts(e)
      PROVE  Placed' /\ Plugged'
  <2>1. /\ lang' = lang /\ plug' = plug /\ excused \subseteq excused' /\ e \in Threads
        /\ pc[e].op # Plug /\ Goto(e, "idle")
    BY <1>3, OverlapIs, EnvIsThread DEF UpdateCallbackInfosEts, UpdateOnceCallbackEts, Plug
  <2> QED BY <2>1, GotoPlaced DEF Labels, Emitting
<1>4. ASSUME NEW e \in Envs,
             \/ \E f \in OfEnv(e) : OnSensorStatusChange(e, f)
             \/ \E gone \in {Functions} \cup {{f} : f \in OfEnv(e)} : OffSensorStatusChange(e, gone)
      PROVE  Placed' /\ Plugged'
  BY <1>4, StillPlaced DEF OnSensorStatusChange, OffSensorStatusChange
<1>5. ASSUME NEW t \in Threads, CheckSystem(t) \/ UnsubscribeLocal(t)
      PROVE  Placed' /\ Plugged'
  <2>1. lang' = lang /\ plug' = plug /\ excused \subseteq excused' /\ pc[t].op # Plug
    BY <1>5, OverlapIs DEF CheckSystem, UnsubscribeLocal, Deactivated, Placed
  <2>2. PICK at \in Labels \ Emitting : Goto(t, at)
    BY <1>5 DEF CheckSystem, UnsubscribeLocal, Labels, Emitting
  <2> QED BY <2>1, <2>2, GotoPlaced
<1>6. ASSUME NEW d \in Sensors, DataOfType(d)
      PROVE  Placed' /\ Plugged'
  BY <1>6, EnterPlaced, EnvIsThread, IdleIs DEF DataOfType, Labels, Ops, Emitting, Plug, Sensors
<1>7. CASE EmitOnCallback \/ CallbacksReturn \/ EmitOnce \/ CheckType
  <2>1. /\ lang' = lang /\ plug' = plug /\ excused \subseteq excused' /\ "data" \in Threads
        /\ pc["data"].op # Plug
    BY <1>7, EnvIsThread DEF EmitOnCallback, CallbacksReturn, EmitOnce, CheckType, Placed, Plug
  <2>2. PICK at \in Labels : Goto("data", at) /\ (at \in Emitting => pc["data"].at \in Emitting)
    BY <1>7 DEF EmitOnCallback, CallbacksReturn, EmitOnce, CheckType, Labels, Emitting
  <2> QED BY <2>1, <2>2, GotoPlaced
<1> QED BY <1>1, <1>2, <1>3, <1>4, <1>5, <1>6, <1>7 DEF EtsNext

\* Every step of the CJ binding keeps the threads at their places.
LEMMA CjPlaced ==
    ASSUME TablesShape, Placed, Plugged, CjNext
    PROVE  Placed' /\ Plugged'
<1>1. PICK t \in Envs :
        \/ \E f \in OfEnv(t), d \in Sensors : OnSensorChange(t, f, d)
        \/ \E d \in Sensors : OffSensorChange(t, d)
        \/ AddCallback2Map(t) \/ UnsubscribeSensorImpl(t) \/ DelCallback(t)
  BY DEF CjNext
<1>2. t \in Threads
  BY EnvIsThread
<1>3. CASE \E f \in OfEnv(t), d \in Sensors : OnSensorChange(t, f, d)
  BY <1>2, <1>3, EnterPlaced DEF OnSensorChange, OfEnv, Labels, Ops, Emitting, Plug
<1>4. CASE \E d \in Sensors : OffSensorChange(t, d)
  BY <1>2, <1>4, EnterPlaced, IdleIs DEF OffSensorChange, Labels, Ops, Emitting, Plug
<1>5. CASE AddCallback2Map(t) \/ UnsubscribeSensorImpl(t) \/ DelCallback(t)
  <2>1. lang' = lang /\ plug' = plug /\ excused \subseteq excused' /\ pc[t].op # Plug
    BY <1>2, <1>5, OverlapIs DEF AddCallback2Map, UnsubscribeSensorImpl, DelCallback, Deactivated, Placed
  <2>2. PICK at \in Labels \ Emitting : Goto(t, at)
    BY <1>5 DEF AddCallback2Map, UnsubscribeSensorImpl, DelCallback, Labels, Emitting
  <2> QED BY <1>2, <2>1, <2>2, GotoPlaced
<1> QED BY <1>1, <1>3, <1>4, <1>5

\* To subscribe and to turn on keep the threads at their places.
LEMMA SubscribePlaced ==
    ASSUME TablesShape, Placed, Plugged, NEW t \in Threads,
           SubscribeSensor(t) \/ ActivateSensor(t)
    PROVE  Placed' /\ Plugged'
<1>1. lang' = lang /\ plug' = plug /\ excused \subseteq excused' /\ pc[t].op # Plug
  BY DEF SubscribeSensor, ActivateSensor, Placed
<1>2. PICK at \in Labels \ Emitting : Goto(t, at)
  BY DEF SubscribeSensor, ActivateSensor, Labels, Emitting
<1> QED BY <1>1, <1>2, GotoPlaced

-----------------------------------------------------------------------------
(* Calls that answer later                                                 *)

\* Every answer there is can be converted. SUBSCRIBE_FAIL has no data.
LEMMA AnswersConvert ==
    ASSUME NEW a \in Answers
    PROVE  Convertible(a)
<1>1. CASE a \in Failure
  BY <1>1 DEF Failure, NormalizeErrCode, Convertible, ConvertToFailData, ERROR_MESSAGES
<1>2. CASE a \notin Failure
  <2>1. a.type \in Converted \cup {"SUBSCRIBE_FAIL"}
    BY <1>2 DEF Answers, Answer, GetGeomagneticField, TransformCoordinateSystem, GetAngleModify,
       GetDirection, CreateQuaternion, GetAltitude, GetGeomagneticDip, CreateRotationMatrix,
       CreateRotationAndInclination, GetSensorList, GetSingleSensor, GetBodyState,
       SubscribeFails, Converted
  <2> QED BY <2>1 DEF Convertible
<1> QED BY <1>1, <1>2

\* Every step keeps a call that is under way one with an answer.
LEMMA AnsweringKept ==
    ASSUME Answering, TablesStep
    PROVE  Answering'
<1>1. ASSUME NEW e \in Envs, EmitAsyncWork(e) PROVE Answering'
  <2>1. PICK a \in Answers, how \in {"callback", "promise"} :
          call' = [type |-> a.type, code |-> a.code, how |-> how]
    BY <1>1 DEF EmitAsyncWork
  <2>2. a = [type |-> a.type, code |-> a.code]
    BY DEF Answers, Answer, GetGeomagneticField, TransformCoordinateSystem, GetAngleModify,
       GetDirection, CreateQuaternion, GetAltitude, GetGeomagneticDip, CreateRotationMatrix,
       CreateRotationAndInclination, GetSensorList, GetSingleSensor, GetBodyState,
       SubscribeFails, Failure
  <2> QED BY <2>1, <2>2 DEF Answering
<1>2. ASSUME AsyncWorkDone PROVE Answering'
  <2>1. [type |-> call.type, code |-> call.code] \in Answers
    BY <1>2 DEF AsyncWorkDone, Answering, NoCall
  <2>2. Convertible(call)
    BY <2>1, AnswersConvert DEF Convertible, ConvertToFailData
  <2> QED BY <1>2, <2>2 DEF AsyncWorkDone, Answering
<1>3. CASE call' = call
  BY <1>3 DEF Answering, NoCall
<1>4. JsNext => call' = call \/ AsyncWorkDone \/ \E e \in Envs : EmitAsyncWork(e)
  BY DEF JsNext, SystemInterface, Once, OnPlugSensor, On, OffCall, Subscribe, Unsubscribe, Record,
     CleanUp, UpdatePlugCallbackInfos, OffPlugSensor, UnsubscribeSensorPlug, CheckSubscribe,
     CheckSystemSubscribe, UnsubscribeSensor, DataCallbackImpl, EmitSubscribeCallback,
     EmitOnceCallback
<1>5. EtsNext \/ CjNext => call' = call
  BY DEF EtsNext, OnceCommon, OnSensorStatusChange, OnCommon, OffCommon, OffSensorStatusChange,
     UpdateCallbackInfosEts, UpdateOnceCallbackEts, CheckSystem, UnsubscribeLocal, DataOfType,
     EmitOnCallback, CallbacksReturn, EmitOnce, CheckType,
     CjNext, OnSensorChange, OffSensorChange, AddCallback2Map, UnsubscribeSensorImpl, DelCallback
<1>6. (\E t \in Envs : SubscribeSensor(t) \/ ActivateSensor(t)) => call' = call
  BY DEF SubscribeSensor, ActivateSensor
<1> QED BY <1>1, <1>2, <1>3, <1>4, <1>5, <1>6 DEF TablesStep

-----------------------------------------------------------------------------
(* The tables are right                                                    *)

TablesInv == TablesShape /\ Placed /\ Agrees /\ Plugged /\ Answering

\* The invariant of the tables holds at the start.
LEMMA TablesStart ==
    ASSUME Init
    PROVE  TablesInv
<1>1. /\ lang \in {"js", "ets", "cj"} /\ subscribed = {} /\ enabled = {} /\ stray = {}
      /\ DOMAIN on = {} /\ DOMAIN once = {} /\ DOMAIN system = {}
      /\ \A t \in Threads : pc[t] = Idle
      /\ pc = [t \in Threads |-> Idle] /\ call = NoCall /\ errors = 0
      /\ plug = [cbs |-> {}, user |-> FALSE]
  BY TablesAssumption DEF Init, None
<1>2. TablesShape
  BY <1>1, IdleIs DEF TablesShape, IsTable
<1>3. Placed
  BY <1>1, IdleIs DEF Placed, Emitting, Plug
<1>4. ASSUME NEW k \in Keys PROVE Good(k)
  BY <1>1, IdleIs DEF Good, Clean, Reached, At, Justified, Stage, Registering, Removing
<1>5. Plugged
  <2>1. plug \in PlugShape /\ plug.cbs = {}
    BY <1>1 DEF PlugShape
  <2>2. \A e \in Envs : pc[e].op # Plug
    BY <1>1, IdleIs, EnvIsThread DEF Plug
  <2> QED BY <2>1, <2>2 DEF Plugged, PlugAgrees
<1> QED BY <1>1, <1>2, <1>3, <1>4, <1>5 DEF TablesInv, Agrees, Answering

\* Every step of the tables keeps their invariant.
LEMMA TablesKept ==
    ASSUME TablesInv, TablesStep
    PROVE  TablesInv'
<1>1. TablesShape' /\ Agrees'
  BY JsKeeps, EtsKeeps, CjKeeps, SubscribeKeeps, ActivateKeeps, EnvIsThread DEF TablesInv, TablesStep
<1>2. Placed' /\ Plugged'
  BY JsPlaced, EtsPlaced, CjPlaced, SubscribePlaced, EnvIsThread DEF TablesInv, TablesStep
<1>3. Answering'
  BY AnsweringKept DEF TablesInv
<1> QED BY <1>1, <1>2, <1>3 DEF TablesInv

\* What leaves the tables keeps their invariant.
LEMMA TablesUntouched ==
    ASSUME TablesInv, UNCHANGED vars
    PROVE  TablesInv'
<1>1. TablesShape' /\ Agrees'
  BY StatusCallsKeep DEF TablesInv, vars, agent, tables
<1>2. Placed' /\ Plugged'
  BY StillPlaced DEF TablesInv, vars
<1>3. Answering'
  BY DEF TablesInv, vars, Answering, NoCall
<1> QED BY <1>1, <1>2, <1>3 DEF TablesInv

\* The invariant implies that the sensors with functions are subscribed and on.
LEMMA TablesReach ==
    ASSUME TablesInv
    PROVE  /\ \A k \in Sensors : Judged(k) =>
                 \A x \in At(on, k) \cup At(system, k) : x.d \in subscribed \cap enabled
           /\ lang = "js" /\ Plug \notin excused => (plug.cbs # {} => plug.user)
<1>1. ASSUME NEW k \in Sensors, Judged(k)
      PROVE  \A x \in At(on, k) \cup At(system, k) : x.d \in subscribed \cap enabled
  <2>1. CASE k \notin Keys
    BY <2>1, AtIs DEF TablesInv, TablesShape
  <2>2. CASE k \in Keys
    <3>1. Reached(k) /\ Key(k) = k
      BY <1>1, <2>2, KeysAre DEF Judged, TablesInv, Agrees, Good
    <3>2. ~\E t \in Threads : In(k, t, {"remove"})
      BY <1>1, <3>1 DEF Judged, Quiet, In, Removing
    <3> QED BY <3>1, <3>2 DEF Reached
  <2> QED BY <2>1, <2>2
<1> QED BY <1>1 DEF TablesInv, Plugged, PlugAgrees

\* The invariant implies that sensors without functions are off.
LEMMA TablesLeave ==
    ASSUME TablesInv
    PROVE  NothingLeft
<1> SUFFICES ASSUME NEW k \in Sensors, Judged(k), lang = "ets" => k = Local,
                    \A table \in {on, once, system} : At(table, Key(k)) = {}
             PROVE  k \notin enabled \cup (subscribed \ stray)
  BY DEF NothingLeft
<1>1. Key(k) = k /\ k \in Keys
  BY KeyIs
<1>2. Justified(k)
  BY <1>1 DEF Judged, TablesInv, Agrees, Good
<1>3. ASSUME NEW places \in Comers PROVE ~ForSomebody(k, places)
  BY <1>1 DEF ForSomebody, Coming, In, Judged, Quiet, Registering, Removing, Comers
<1> QED BY <1>2, <1>3 DEF Justified, Comers

\* The invariant implies that every call is answered.
LEMMA TablesSettle ==
    ASSUME TablesInv
    PROVE  Settled
BY DEF TablesInv, Answering, Settled, NoCall

-----------------------------------------------------------------------------
(* What the functions hear                                                 *)

\* A task for a status change waits.
Waiting == \E i \in DOMAIN queue : queue[i] = 0

\* The picture of the function, or what it is about to be told, is right.
ToldOf(s) ==
    IF Waiting /\ status.sensor = s THEN status.isSensorOnline <=> s \in online
    ELSE s \in heard <=> s \in online

\* The last data event that waits is the last one sent.
InOrder ==
    /\ \A i \in DOMAIN queue :
          queue[i] # 0 /\ (\A j \in DOMAIN queue : j > i => queue[j] = 0) => queue[i] = data.sent
    /\ (\A i \in DOMAIN queue : queue[i] = 0) => data.last = data.sent

StatusShape ==
    /\ queue \in Seq(Nat) /\ data \in [sent : Nat, last : Nat]
    /\ status.isSensorOnline \in BOOLEAN
    /\ lang # "js" => queue = <<>>

StatusInv == StatusShape /\ InOrder /\ \A s \in Watched \ missed : ToldOf(s)

\* The invariant of the status events holds at the start.
LEMMA StatusStart ==
    ASSUME StatusInit
    PROVE  StatusInv
BY DEF StatusInit, StatusInv, StatusShape, InOrder, ToldOf, Waiting, NoStatus

\* The places of a queue with one more at its end.
LEMMA AppendIs ==
    ASSUME NEW q \in Seq(Nat), NEW n \in Nat
    PROVE  /\ Append(q, n) \in Seq(Nat) /\ Append(q, n) # <<>>
           /\ DOMAIN q = 1 .. Len(q) /\ DOMAIN Append(q, n) = 1 .. Len(q) + 1
           /\ Append(q, n)[Len(q) + 1] = n /\ Len(q) \in Nat
           /\ \A i \in 1 .. Len(q) : Append(q, n)[i] = q[i]
OBVIOUS

\* The places of a queue without its first.
LEMMA TailIs ==
    ASSUME NEW q \in Seq(Nat), q # <<>>
    PROVE  /\ Tail(q) \in Seq(Nat) /\ Head(q) = q[1] /\ Len(q) \in Nat \ {0}
           /\ DOMAIN q = 1 .. Len(q) /\ DOMAIN Tail(q) = 1 .. Len(q) - 1
           /\ \A i \in 1 .. Len(q) - 1 : Tail(q)[i] = q[i + 1]
OBVIOUS

\* JS: a status event is written down and a task for it is sent, or refused.
LEMMA EventKeeps ==
    ASSUME StatusInv, UNCHANGED lang, NEW s \in Watched, PlugDataCallbackImpl(s)
    PROVE  StatusInv'
<1>1. /\ lang = "js" /\ status' = [sensor |-> s, isSensorOnline |-> s \notin online]
      /\ heard' = heard /\ data' = data
      /\ online' = IF s \in online THEN online \ {s} ELSE online \cup {s}
      /\ \/ queue' = Append(queue, 0) /\ missed' = (missed \cup Overwritten(s)) \ {s}
         \/ queue' = queue /\ missed' = missed \cup Overwritten(s) \cup {s}
  BY DEF PlugDataCallbackImpl, UpdateSensorStatusEvent, EmitUvEventLoop
<1>2. queue \in Seq(Nat) /\ DOMAIN queue = 1 .. Len(queue) /\ Len(queue) \in Nat
  BY DEF StatusInv, StatusShape
<1>3. StatusShape'
  <2>1. status'.isSensorOnline = (s \notin online)
    BY <1>1
  <2>2. status'.isSensorOnline \in BOOLEAN
    BY <2>1, Zenon
  <2>3. queue' \in Seq(Nat)
    BY <1>1, <1>2, AppendIs
  <2> QED BY <1>1, <2>2, <2>3 DEF StatusInv, StatusShape
<1>4. InOrder'
  <2>1. CASE queue' = queue
    BY <1>1, <2>1 DEF StatusInv, InOrder
  <2>2. CASE queue' = Append(queue, 0)
    <3>1. /\ DOMAIN queue' = 1 .. Len(queue) + 1 /\ queue'[Len(queue) + 1] = 0
          /\ \A i \in DOMAIN queue : i \in DOMAIN queue' /\ queue'[i] = queue[i]
          /\ \A i \in DOMAIN queue' : i \in DOMAIN queue \/ i = Len(queue) + 1
      BY <1>2, <2>2, AppendIs
    <3> QED BY <1>1, <3>1 DEF StatusInv, InOrder
  <2> QED BY <1>1, <2>1, <2>2
<1>5. ASSUME NEW x \in Watched \ missed' PROVE ToldOf(x)'
  <2>1. CASE x = s
    <3>1. Waiting'
      BY <1>1, <1>2, <1>5, <2>1, AppendIs DEF Waiting
    <3> QED BY <1>1, <2>1, <3>1 DEF ToldOf
  <2>2. CASE x # s
    <3>1. x \notin missed /\ (Waiting => status.sensor # x)
      BY <1>1, <1>5, <2>2 DEF Overwritten, Waiting
    <3>2. x \in heard <=> x \in online
      BY <1>5, <3>1 DEF StatusInv, ToldOf
    <3> QED BY <1>1, <2>2, <3>2 DEF ToldOf
  <2> QED BY <2>1, <2>2
<1> QED BY <1>3, <1>4, <1>5 DEF StatusInv

\* ETS: the function is called with a status event.
LEMMA StatusChangeKeeps ==
    ASSUME StatusInv, UNCHANGED lang, NEW s \in Watched, CallBackSensorStatusChange(s)
    PROVE  StatusInv'
<1>1. /\ lang = "ets" /\ UNCHANGED <<status, queue, data, missed>> /\ queue = <<>>
      /\ heard' = IF s \notin online THEN heard \cup {s} ELSE heard \ {s}
      /\ online' = IF s \in online THEN online \ {s} ELSE online \cup {s}
  BY DEF CallBackSensorStatusChange, Told, UpdateSensorStatusEvent, StatusInv, StatusShape
<1> QED BY <1>1 DEF StatusInv, StatusShape, InOrder, ToldOf, Waiting

\* JS: a task for a data event is sent.
LEMMA DataKeeps ==
    ASSUME StatusInv, UNCHANGED lang, EmitDataCallback
    PROVE  StatusInv'
<1> DEFINE n == data.sent + 1
<1>1. /\ lang = "js" /\ data' = [data EXCEPT !.sent = n] /\ queue' = Append(queue, n)
      /\ UNCHANGED <<online, status, heard, missed>>
      /\ queue \in Seq(Nat) /\ n \in Nat \ {0} /\ data \in [sent : Nat, last : Nat]
  BY DEF EmitDataCallback, EmitUvEventLoop, StatusInv, StatusShape
<1>2. data' \in [sent : Nat, last : Nat] /\ data'.sent = n
  BY <1>1
<1> HIDE DEF n
<1>3. StatusShape'
  BY <1>1, <1>2, AppendIs DEF StatusInv, StatusShape
<1>4. InOrder'
  BY <1>1, <1>2, AppendIs DEF InOrder
<1>5. Waiting' <=> Waiting
  <2>1. /\ DOMAIN queue' = 1 .. Len(queue) + 1 /\ queue'[Len(queue) + 1] = n
        /\ \A i \in DOMAIN queue : i \in DOMAIN queue' /\ queue'[i] = queue[i]
        /\ \A i \in DOMAIN queue' : i \in DOMAIN queue \/ i = Len(queue) + 1
    BY <1>1, AppendIs
  <2> QED BY <1>1, <2>1 DEF Waiting
<1>6. \A s \in Watched \ missed' : ToldOf(s)'
  BY <1>1, <1>5 DEF StatusInv, ToldOf
<1> QED BY <1>3, <1>4, <1>6 DEF StatusInv

\* JS: the environment runs a task.
LEMMA TaskKeeps ==
    ASSUME StatusInv, UNCHANGED lang, RunTask
    PROVE  StatusInv'
<1>1. /\ lang = "js" /\ queue # <<>> /\ queue' = Tail(queue) /\ queue \in Seq(Nat)
      /\ UNCHANGED <<online, status, missed>> /\ data \in [sent : Nat, last : Nat]
      /\ IF queue[1] = 0 THEN heard' = Told(status) /\ data' = data
         ELSE data' = [data EXCEPT !.last = queue[1]] /\ heard' = heard
  BY TailIs DEF RunTask, StatusInv, StatusShape
<1>2. data' \in [sent : Nat, last : Nat] /\ data'.sent = data.sent
      /\ data'.last = IF queue[1] = 0 THEN data.last ELSE queue[1]
  BY <1>1, TailIs
<1>3. StatusShape'
  BY <1>1, <1>2, TailIs DEF StatusInv, StatusShape
<1>4. InOrder'
  <2>1. \A i \in DOMAIN queue' : i + 1 \in DOMAIN queue /\ queue'[i] = queue[i + 1]
    BY <1>1, TailIs
  <2>2. \A j \in DOMAIN queue : j = 1 \/ (j - 1 \in DOMAIN queue' /\ queue[j] = queue'[j - 1])
    BY <1>1, TailIs
  <2>3. DOMAIN queue \subseteq Nat /\ DOMAIN queue' \subseteq Nat /\ 1 \in DOMAIN queue
    BY <1>1, TailIs
  <2>4. ASSUME NEW i \in DOMAIN queue', queue'[i] # 0,
               \A j \in DOMAIN queue' : j > i => queue'[j] = 0
        PROVE  queue'[i] = data.sent
    <3>1. ASSUME NEW j \in DOMAIN queue, j > i + 1 PROVE queue[j] = 0
      BY <2>2, <2>3, <2>4, <3>1
    <3> QED BY <2>1, <2>3, <2>4, <3>1 DEF StatusInv, InOrder
  <2>5. ASSUME \A i \in DOMAIN queue' : queue'[i] = 0
        PROVE  data'.last = data.sent
    <3>1. \A j \in DOMAIN queue : j > 1 => queue[j] = 0
      BY <2>2, <2>3, <2>5
    <3>2. CASE queue[1] = 0
      <4>1. \A j \in DOMAIN queue : queue[j] = 0
        BY <2>2, <3>1, <3>2, <2>5
      <4> QED BY <1>2, <3>2, <4>1 DEF StatusInv, InOrder
    <3>3. CASE queue[1] # 0
      BY <1>2, <2>3, <3>1, <3>3 DEF StatusInv, InOrder
    <3> QED BY <3>2, <3>3
  <2> QED BY <1>2, <2>4, <2>5 DEF InOrder
<1>5. ASSUME NEW s \in Watched \ missed PROVE ToldOf(s)'
  <2>1. Waiting' => Waiting
    BY <1>1, TailIs DEF Waiting
  <2>2. ToldOf(s)
    BY <1>5 DEF StatusInv
  <2>3. CASE queue[1] = 0
    <3>1. Waiting
      BY <1>1, <2>3, TailIs DEF Waiting
    <3> QED BY <1>1, <2>2, <2>3, <3>1 DEF ToldOf, Told
  <2>4. CASE queue[1] # 0
    <3>1. Waiting => Waiting'
      <4> SUFFICES ASSUME NEW i \in DOMAIN queue, queue[i] = 0 PROVE Waiting'
        BY DEF Waiting
      <4>1. i - 1 \in DOMAIN queue' /\ queue'[i - 1] = 0
        BY <1>1, <2>4, TailIs
      <4> QED BY <4>1 DEF Waiting
    <3> QED BY <1>1, <2>1, <2>2, <2>4, <3>1 DEF ToldOf
  <2> QED BY <2>3, <2>4
<1> QED BY <1>1, <1>3, <1>4, <1>5 DEF StatusInv

\* What leaves the status events keeps their invariant.
LEMMA StatusUntouched ==
    ASSUME StatusInv, UNCHANGED statusVars, UNCHANGED lang
    PROVE  StatusInv'
BY DEF StatusInv, StatusShape, InOrder, ToldOf, Waiting, statusVars

\* Every step of the status events keeps their invariant.
LEMMA StatusKept ==
    ASSUME StatusInv, UNCHANGED lang, StatusNext
    PROVE  StatusInv'
BY EventKeeps, StatusChangeKeeps, DataKeeps, TaskKeeps DEF StatusNext

\* The invariant implies that the function knows which sensors are there.
LEMMA StatusHears ==
    ASSUME StatusInv
    PROVE  Heard
<1> SUFFICES ASSUME queue = <<>>
             PROVE  /\ \A s \in Watched \ missed : (s \in heard) = (s \in online)
                    /\ data.last = data.sent
  BY DEF Heard
<1>1. DOMAIN queue = {}
  OBVIOUS
<1>2. \A s \in Watched \ missed : s \in heard <=> s \in online
  BY <1>1 DEF StatusInv, ToldOf, Waiting
<1> QED BY <1>1, <1>2 DEF StatusInv, InOrder

-----------------------------------------------------------------------------
(* What is in a sequence                                                   *)

\* The members of a sequence are what is at its places.
LEMMA ToSetIs ==
    ASSUME NEW S, NEW q \in Seq(S)
    PROVE  /\ ToSet(q) \subseteq S /\ Len(q) \in Nat
           /\ \A y : y \in ToSet(q) <=> \E i \in 1 .. Len(q) : q[i] = y
           /\ q = <<>> <=> ToSet(q) = {}
<1>1. DOMAIN q = 1 .. Len(q) /\ Len(q) \in Nat /\ \A i \in 1 .. Len(q) : q[i] \in S
  OBVIOUS
<1>2. q = <<>> <=> Len(q) = 0
  OBVIOUS
<1>3. \A y : y \in ToSet(q) <=> \E i \in 1 .. Len(q) : q[i] = y
  BY <1>1 DEF ToSet
<1>4. Len(q) # 0 => q[1] \in ToSet(q)
  BY <1>1, <1>3
<1>5. Len(q) = 0 => ToSet(q) = {}
  BY <1>3
<1> QED BY <1>1, <1>2, <1>3, <1>4, <1>5

\* A sequence with one more has one more member.
LEMMA AppendToSet ==
    ASSUME NEW S, NEW q \in Seq(S), NEW x \in S
    PROVE  /\ Append(q, x) \in Seq(S) /\ Append(q, x) # <<>>
           /\ ToSet(Append(q, x)) = ToSet(q) \cup {x}
<1> DEFINE r == Append(q, x)
<1>1. /\ r \in Seq(S) /\ r # <<>> /\ Len(r) = Len(q) + 1 /\ Len(q) \in Nat
      /\ \A i \in 1 .. Len(q) : r[i] = q[i]
      /\ r[Len(q) + 1] = x
  OBVIOUS
<1> HIDE DEF r
<1>2. \A y : y \in ToSet(r) <=> \E i \in 1 .. Len(q) + 1 : r[i] = y
  BY <1>1, ToSetIs
<1>3. \A y : y \in ToSet(q) <=> \E i \in 1 .. Len(q) : q[i] = y
  BY ToSetIs
<1>4. ToSet(r) \subseteq ToSet(q) \cup {x}
  <2> SUFFICES ASSUME NEW i \in 1 .. Len(q) + 1 PROVE r[i] \in ToSet(q) \cup {x}
    BY <1>2
  <2>1. i \in 1 .. Len(q) \/ i = Len(q) + 1
    BY <1>1
  <2> QED BY <1>1, <1>3, <2>1
<1>5. ToSet(q) \subseteq ToSet(r)
  <2> SUFFICES ASSUME NEW i \in 1 .. Len(q) PROVE q[i] \in ToSet(r)
    BY <1>3
  <2>1. i \in 1 .. Len(q) + 1 /\ r[i] = q[i]
    BY <1>1
  <2> QED BY <1>2, <2>1
<1>6. x \in ToSet(r)
  BY <1>1, <1>2
<1> QED BY <1>1, <1>4, <1>5, <1>6 DEF r

\* What is taken out once may be there again; everything else stays.
LEMMA RemoveFirstIs ==
    ASSUME NEW S, NEW q \in Seq(S), NEW x \in ToSet(q)
    PROVE  /\ RemoveFirst(q, x) \in Seq(S)
           /\ ToSet(RemoveFirst(q, x)) \subseteq ToSet(q)
           /\ ToSet(q) \ {x} \subseteq ToSet(RemoveFirst(q, x))
<1> DEFINE I == {i \in 1 .. Len(q) : q[i] = x}
<1>1. Len(q) \in Nat /\ \A y : y \in ToSet(q) <=> \E i \in 1 .. Len(q) : q[i] = y
  BY ToSetIs
<1>2. I # {} /\ I \in SUBSET Nat
  BY <1>1
<1>3. RemoveFirst(q, x) = RemoveAt(q, Min(I))
  BY <1>2 DEF RemoveFirst, SelectInSeq
<1> HIDE DEF I
<1>4. PICK n \in I : n = Min(I)
  BY <1>2, MinOfNats
<1>5. n \in 1 .. Len(q) /\ q[n] = x
  BY <1>4 DEF I
<1> DEFINE front == SubSeq(q, 1, n - 1)
           back == SubSeq(q, n + 1, Len(q))
           r == front \o back
<1>6. RemoveFirst(q, x) = r
  BY <1>3, <1>4 DEF RemoveAt
<1>7. /\ front \in Seq(S) /\ Len(front) = n - 1
      /\ \A i \in 1 .. n - 1 : front[i] = q[i]
  BY <1>1, <1>5
<1>8. /\ back \in Seq(S) /\ Len(back) = Len(q) - n
      /\ \A i \in 1 .. Len(q) - n : back[i] = q[n + i]
  BY <1>1, <1>5
<1> HIDE DEF front, back
<1>9. /\ r \in Seq(S) /\ Len(r) = Len(q) - 1
      /\ \A i \in 1 .. n - 1 : r[i] = front[i]
      /\ \A i \in n .. Len(q) - 1 : r[i] = back[i - (n - 1)]
  <2>1. /\ r \in Seq(S) /\ Len(r) = Len(front) + Len(back)
        /\ \A i \in 1 .. Len(front) + Len(back) :
              r[i] = IF i <= Len(front) THEN front[i] ELSE back[i - Len(front)]
    BY <1>7, <1>8, ConcatProperties
  <2>2. /\ n \in Nat \ {0} /\ Len(front) + Len(back) = Len(q) - 1
        /\ Len(front) = n - 1
    BY <1>1, <1>5, <1>7, <1>8
  <2> HIDE DEF r
  <2>3. \A i \in 1 .. n - 1 : r[i] = front[i]
    <3> SUFFICES ASSUME NEW i \in 1 .. n - 1 PROVE r[i] = front[i]
      OBVIOUS
    <3>1. i \in 1 .. Len(q) - 1 /\ i <= n - 1
      BY <1>1, <1>5
    <3> QED BY <2>1, <2>2, <3>1
  <2>4. \A i \in n .. Len(q) - 1 : r[i] = back[i - (n - 1)]
    <3> SUFFICES ASSUME NEW i \in n .. Len(q) - 1 PROVE r[i] = back[i - (n - 1)]
      OBVIOUS
    <3>1. i \in 1 .. Len(q) - 1 /\ ~(i <= n - 1)
      BY <1>1, <2>2
    <3> QED BY <2>1, <2>2, <3>1
  <2> QED BY <2>1, <2>2, <2>3, <2>4
<1> HIDE DEF r
<1>10. \A y : y \in ToSet(r) <=> \E i \in 1 .. Len(q) - 1 : r[i] = y
  BY <1>9, ToSetIs
<1>11. /\ \A i \in 1 .. n - 1 : i \in 1 .. Len(q) - 1 /\ r[i] = q[i]
       /\ \A i \in n .. Len(q) - 1 : i \in 1 .. Len(q) - 1 /\ r[i] = q[i + 1]
  BY <1>1, <1>5, <1>7, <1>8, <1>9
<1>12. ToSet(r) \subseteq ToSet(q)
  <2> SUFFICES ASSUME NEW i \in 1 .. Len(q) - 1 PROVE r[i] \in ToSet(q)
    BY <1>10
  <2>1. i \in 1 .. n - 1 \/ i \in n .. Len(q) - 1
    BY <1>1, <1>5
  <2>2. i \in 1 .. Len(q) /\ i + 1 \in 1 .. Len(q)
    BY <1>1
  <2> QED BY <1>1, <1>11, <2>1, <2>2
<1>13. ToSet(q) \ {x} \subseteq ToSet(r)
  <2> SUFFICES ASSUME NEW i \in 1 .. Len(q), q[i] # x PROVE q[i] \in ToSet(r)
    BY <1>1
  <2>1. CASE i < n
    <3>1. i \in 1 .. n - 1
      BY <1>1, <1>5, <2>1
    <3> QED BY <1>10, <1>11, <3>1
  <2>2. CASE i > n
    <3>1. i - 1 \in n .. Len(q) - 1 /\ (i - 1) + 1 = i
      BY <1>1, <1>5, <2>2
    <3>2. i - 1 \in 1 .. Len(q) - 1 /\ r[i - 1] = q[i]
      BY <1>11, <3>1
    <3> QED BY <1>10, <3>2
  <2> QED BY <1>1, <1>5, <2>1, <2>2
<1> QED BY <1>6, <1>9, <1>12, <1>13

\* The list at the start is a list of sensors.
LEMMA StartIs == Start \in Seq(Described)
<1>1. IsFiniteSet(Fixed) /\ Fixed \subseteq Described
  BY ListsAssumption
<1> DEFINE n == Cardinality(Fixed)
<1>2. n \in Nat /\ ExistsBijection(1 .. n, Fixed)
  BY <1>1, FS_CardinalityType
<1> HIDE DEF n
<1>3. \E f \in [1 .. n -> Fixed] : IsInjective(f)
  BY <1>2 DEF ExistsBijection, Bijection, Injection
<1>4. Start \in [1 .. n -> Fixed]
  BY <1>3 DEF Start, SetToSeq, n
<1> QED BY <1>1, <1>2, <1>4

-----------------------------------------------------------------------------
(* Questions for sensors                                                   *)

AskShape ==
    [call : Calls \cup {"none"}, at : {"idle", "local", "array", "loop", "answered"},
     type : Types \cup {"none"}, device : Devices \cup {NoDevice}, named : Devices \cup {NoDevice}]
HeldShape == [array : Seq(Described), count : Nat, own : BOOLEAN, next : Nat \ {0}]

\* The call has the device that it is for, when it is for one.
AskRight ==
    /\ ask.call \in Calls
    /\ ask.type = "none" <=> ask.call \in {"list", "cjList", "listByDevice"}
    /\ ask.at = "local" => ask.named = NoDevice
    /\ \/ ask.call \in {"list", "cjList", "etsSingle"}
       \/ ask.named # NoDevice /\ ask.call # "single" /\ ask.device = ask.named
       \/ /\ ask.named = NoDevice
          /\ ask.at # "local" => \A s \in Described : s.local <=> s.device = ask.device

Before == always \subseteq ToSet(infos) /\ ToSet(infos) \subseteq ever /\ answer = <<>>

\* What the loop has passed is answered.
Passed ==
    IF Single
    THEN answer = <<>> =>
            \A i \in 1 .. held.count : i < held.next => ~Wanted(held.array[i])
    ELSE \A i \in 1 .. held.count :
            i < held.next /\ Wanted(held.array[i]) => held.array[i] \in ToSet(answer)
Going ==
    /\ held \in HeldShape /\ held.count = Len(held.array)
    /\ always \subseteq ToSet(held.array) /\ ToSet(held.array) \subseteq ever
    /\ answer \in Seq(Described) /\ \A s \in ToSet(answer) : s \in ever /\ Wanted(s)
    /\ Passed

Looking ==
    ask.at # "idle" /\ ~disturbed =>
        /\ AskRight /\ always \subseteq Described
        /\ ask.at \in {"local", "array"} => Before
        /\ ask.at = "loop" => Going
        /\ Found

ListsInv == infos \in Seq(Described) /\ ask \in AskShape /\ Looking

\* What the call filters for is what was asked for.
LEMMA WantedIsAsked ==
    ASSUME AskRight, ask.at # "local", NEW s \in Described
    PROVE  Wanted(s) <=> Asked(s)
<1>1. CASE ask.call \in {"list", "cjList"}
  <2>1. ask.type = "none"
    BY <1>1 DEF AskRight
  <2>2. Wanted(s) <=> ~s.hidden
    BY <1>1 DEF Wanted, Hidden
  <2>3. Asked(s) <=> ~s.hidden
    BY <1>1, <2>1 DEF Asked
  <2> QED BY <2>2, <2>3
<1>2. CASE ask.call = "single"
  <2>1. /\ ask.type # "none" /\ ask.named = NoDevice
        /\ s.local <=> s.device = ask.device
    BY <1>2 DEF AskRight
  <2>2. Wanted(s) <=> ~s.hidden /\ s.device = ask.device /\ s.type = ask.type
    BY <1>2 DEF Wanted, Hidden
  <2>3. Asked(s) <=> s.type = ask.type /\ ~s.hidden /\ s.local
    BY <1>2, <2>1 DEF Asked
  <2> QED BY <2>1, <2>2, <2>3
<1>3. CASE ask.call = "etsSingle"
  <2>1. ask.type # "none"
    BY <1>3 DEF AskRight
  <2>2. Wanted(s) <=> s.type = ask.type
    BY <1>3 DEF Wanted
  <2>3. Asked(s) <=> s.type = ask.type
    BY <1>3, <2>1 DEF Asked
  <2> QED BY <2>2, <2>3
<1>4. ASSUME ask.call \in {"listByDevice", "singleByDevice"}
      PROVE  OfDevice(s) <=> (IF ask.named = NoDevice THEN s.local ELSE s.device = ask.named)
  BY <1>4 DEF AskRight, OfDevice
<1>5. CASE ask.call = "listByDevice"
  <2>1. ask.type = "none"
    BY <1>5 DEF AskRight
  <2>2. Wanted(s) <=> ~s.hidden /\ OfDevice(s)
    BY <1>5 DEF Wanted, Hidden
  <2>3. Asked(s) <=> ~s.hidden /\ (IF ask.named = NoDevice THEN s.local ELSE s.device = ask.named)
    BY <1>5, <2>1 DEF Asked
  <2> QED BY <1>4, <1>5, <2>2, <2>3
<1>6. CASE ask.call = "singleByDevice"
  <2>1. ask.type # "none"
    BY <1>6 DEF AskRight
  <2>2. Wanted(s) <=> ~s.hidden /\ s.type = ask.type /\ OfDevice(s)
    BY <1>6 DEF Wanted, Hidden
  <2>3. Asked(s) <=> /\ ~s.hidden /\ s.type = ask.type
                     /\ IF ask.named = NoDevice THEN s.local ELSE s.device = ask.named
    BY <1>6, <2>1 DEF Asked
  <2> QED BY <1>4, <1>6, <2>2, <2>3
<1> QED BY <1>1, <1>2, <1>3, <1>5, <1>6 DEF AskRight, Calls

\* While the question stays, so does what it asks for.
LEMMA SameQuestion ==
    ASSUME ask'.call = ask.call, ask'.type = ask.type, ask'.device = ask.device,
           ask'.named = ask.named, NEW s
    PROVE  (Wanted(s)' <=> Wanted(s)) /\ (Asked(s)' <=> Asked(s)) /\ (Single' <=> Single)
BY DEF Wanted, Asked, Single, Hidden, OfDevice

\* The invariant of the lists holds at the start.
LEMMA ListsStart ==
    ASSUME ListsInit
    PROVE  ListsInv
BY StartIs DEF ListsInit, ListsInv, NoAsk, AskShape, Looking

\* The array of the agent changes, and not the one that the caller goes through.
LEMMA ArrayKeeps ==
    ASSUME ListsInv, ask' = ask, answer' = answer, infos' \in Seq(Described),
           ~disturbed' => ~disturbed /\ (held \in HeldShape => held' \in HeldShape
                            /\ held'.array = held.array /\ held'.count = held.count
                            /\ held'.next = held.next),
           always' \subseteq always,
           ask.at # "idle" => ever \subseteq ever'
               /\ (ToSet(infos) \subseteq ever => ToSet(infos') \subseteq ever'),
           always \subseteq ToSet(infos) => always' \subseteq ToSet(infos')
    PROVE  ListsInv'
<1>1. ask' \in AskShape /\ ask'.at = ask.at
  BY DEF ListsInv
<1>2. ASSUME ask.at # "idle", ~disturbed'
      PROVE  /\ AskRight' /\ always' \subseteq Described
             /\ ask.at \in {"local", "array"} => Before'
             /\ ask.at = "loop" => Going'
             /\ Found'
  <2>1. /\ ~disturbed /\ AskRight /\ always \subseteq Described /\ ever \subseteq ever' /\ Found
        /\ ask.at \in {"local", "array"} => Before
        /\ ask.at = "loop" => Going
    BY <1>2 DEF ListsInv, Looking
  <2>2. AskRight' /\ always' \subseteq Described
    BY <2>1 DEF AskRight
  <2>3. \A s : (Wanted(s)' <=> Wanted(s)) /\ (Asked(s)' <=> Asked(s)) /\ (Single' <=> Single)
    BY SameQuestion
  <2>4. ASSUME ask.at \in {"local", "array"} PROVE Before'
    BY <1>2, <2>1, <2>4 DEF Before
  <2>5. ASSUME ask.at = "loop" PROVE Going'
    <3>1. Going /\ held' \in HeldShape /\ held'.array = held.array
          /\ held'.count = held.count /\ held'.next = held.next
      BY <1>2, <2>1, <2>5 DEF Going
    <3>2. Passed'
      BY <2>3, <3>1 DEF Going, Passed
    <3> QED BY <2>1, <2>3, <3>1, <3>2 DEF Going
  <2>6. Found'
    BY <2>1, <2>3 DEF Found
  <2> QED BY <2>2, <2>4, <2>5, <2>6
<1> QED BY <1>1, <1>2 DEF ListsInv, Looking

\* A sensor is appended to the array.
LEMMA AppendedKeeps ==
    ASSUME ListsInv, NEW s \in Described, Appended(s)
    PROVE  ListsInv'
<1>1. /\ infos' = Append(infos, s) /\ held' = [held EXCEPT !.own = FALSE] /\ ask' = ask
      /\ answer' = answer /\ always' = always /\ disturbed' = disturbed
      /\ ask.at # "idle" => ever' = ever \cup {s}
      /\ infos \in Seq(Described)
  BY DEF Appended, Seen, ListsInv
<1>2. infos' \in Seq(Described) /\ ToSet(infos') = ToSet(infos) \cup {s}
  BY <1>1, AppendToSet
<1>3. held \in HeldShape => held' \in HeldShape /\ held'.array = held.array
                            /\ held'.count = held.count /\ held'.next = held.next
  BY <1>1 DEF HeldShape
<1> QED BY <1>1, <1>2, <1>3, ArrayKeeps

\* A sensor is taken out of the array.
LEMMA TakenOutKeeps ==
    ASSUME ListsInv, NEW s \in Described, TakenOut(s)
    PROVE  ListsInv'
<1>1. /\ infos' = RemoveFirst(infos, s) /\ s \in ToSet(infos) /\ ask' = ask
      /\ ~disturbed' => ~disturbed /\ held' = held
      /\ answer' = answer /\ always' = always \ {s} /\ ever' = ever /\ infos \in Seq(Described)
  BY DEF TakenOut, ListsInv
<1>2. /\ infos' \in Seq(Described) /\ ToSet(infos') \subseteq ToSet(infos)
      /\ ToSet(infos) \ {s} \subseteq ToSet(infos')
  BY <1>1, RemoveFirstIs
<1> QED BY <1>1, <1>2, ArrayKeeps

\* Another thread makes the array anew.
LEMMA RebuiltKeeps ==
    ASSUME ListsInv, Rebuilt
    PROVE  ListsInv'
<1>1. PICK array \in Lists :
        /\ infos' = array /\ always' = always \cap ToSet(array) /\ ever' = Seen(ToSet(array))
        /\ ~disturbed' => ~disturbed /\ held' = [held EXCEPT !.own = FALSE]
        /\ ask' = ask /\ answer' = answer
  BY DEF Rebuilt
<1>2. array \in Seq(Described)
  BY ListsAssumption
<1>3. ask.at # "idle" => ever' = ever \cup ToSet(array)
  BY <1>1 DEF Seen
<1>4. held \in HeldShape /\ ~disturbed' => held' \in HeldShape /\ held'.array = held.array
                            /\ held'.count = held.count /\ held'.next = held.next
  BY <1>1 DEF HeldShape
<1> QED BY <1>1, <1>2, <1>3, <1>4, ArrayKeeps

\* A call begins: nothing is picked, and the agent knows what it knows.
LEMMA BeginKeeps ==
    ASSUME ListsInv, NEW c \in Calls, NEW type \in Types \cup {"none"},
           NEW device \in Devices \cup {NoDevice}, Begin(c, type, device),
           type = "none" <=> c \in {"list", "cjList", "listByDevice"},
           c \in {"single", "etsSingle"} => device = NoDevice
    PROVE  ListsInv'
<1> DEFINE at == IF c = "single" \/ (c \in {"listByDevice", "singleByDevice"} /\ device = NoDevice)
                 THEN "local" ELSE "array"
<1>1. /\ ask' = [call |-> c, type |-> type, device |-> device, named |-> device, at |-> at]
      /\ answer' = <<>> /\ always' = ToSet(infos) /\ ever' = ToSet(infos) /\ infos' = infos
      /\ infos \in Seq(Described)
  BY DEF Begin, ListsInv
<1>2. /\ ask'.call = c /\ ask'.type = type /\ ask'.device = device /\ ask'.named = device
      /\ ask'.at = at /\ ask' \in AskShape /\ at \in {"local", "array"}
  BY <1>1 DEF AskShape
<1>3. AskRight'
  <2>1. at = "local" => device = NoDevice
    OBVIOUS
  <2>2. \/ c \in {"list", "cjList", "etsSingle"}
        \/ device # NoDevice /\ c # "single"
        \/ device = NoDevice /\ at = "local"
    BY DEF Calls
  <2> HIDE DEF at
  <2> QED BY <1>2, <2>1, <2>2 DEF AskRight
<1>4. Before' /\ always' \subseteq Described
  BY <1>1, ToSetIs DEF Before
<1> HIDE DEF at
<1>5. Found'
  BY <1>2 DEF Found
<1>6. Looking'
  BY <1>2, <1>3, <1>4, <1>5 DEF Looking
<1> QED BY <1>1, <1>2, <1>6 DEF ListsInv

\* A call asks for sensors.
LEMMA AskedKeeps ==
    ASSUME ListsInv,
           \/ AskList \/ GetAllSensorList
           \/ \E type \in Types :
                 \/ AskSingle(type) \/ AskSingleEts(type)
                 \/ \E device \in Devices \cup {NoDevice} : AskSingleByDevice(type, device)
           \/ \E device \in Devices \cup {NoDevice} : AskListByDevice(device)
    PROVE  ListsInv'
<1>1. \A type \in Types : type # "none"
  BY ListsAssumption DEF Types
<1>2. {"list", "cjList", "single", "etsSingle", "listByDevice", "singleByDevice"} = Calls
  BY DEF Calls
<1>3. CASE AskList
  BY <1>2, <1>3, BeginKeeps DEF AskList
<1>4. CASE GetAllSensorList
  BY <1>2, <1>4, BeginKeeps DEF GetAllSensorList
<1>5. ASSUME NEW type \in Types, AskSingle(type) PROVE ListsInv'
  BY <1>1, <1>2, <1>5, BeginKeeps DEF AskSingle
<1>6. ASSUME NEW type \in Types, AskSingleEts(type) PROVE ListsInv'
  BY <1>1, <1>2, <1>6, BeginKeeps DEF AskSingleEts
<1>7. ASSUME NEW type \in Types, NEW device \in Devices \cup {NoDevice}, AskSingleByDevice(type, device)
      PROVE  ListsInv'
  BY <1>1, <1>2, <1>7, BeginKeeps DEF AskSingleByDevice
<1>8. ASSUME NEW device \in Devices \cup {NoDevice}, AskListByDevice(device) PROVE ListsInv'
  BY <1>2, <1>8, BeginKeeps DEF AskListByDevice
<1> QED BY <1>3, <1>4, <1>5, <1>6, <1>7, <1>8

\* The device of the first sensor that is local is the local one.
LEMMA LocalKeeps ==
    ASSUME ListsInv, GetLocationDeviceId
    PROVE  ListsInv'
<1>1. /\ ask.at = "local" /\ ask \in AskShape /\ infos \in Seq(Described) /\ infos' = infos
      /\ UNCHANGED <<held, answer, always, ever>>
  BY DEF GetLocationDeviceId, ListsInv
<1>2. CASE disturbed'
  <2>1. ask' \in AskShape
    <3>1. LocalDevices \subseteq Devices
      BY <1>1, ToSetIs DEF LocalDevices, Devices
    <3> QED BY <1>1, <3>1 DEF GetLocationDeviceId, AskShape
  <2> QED BY <1>1, <1>2, <2>1 DEF ListsInv, Looking
<1>3. CASE ~disturbed'
  <2>1. PICK d \in LocalDevices : ask' = [ask EXCEPT !.at = "array", !.device = d] /\ ~disturbed
    <3>1. CASE ask' = [ask EXCEPT !.at = "array"] /\ disturbed' = TRUE
      BY <1>3, <3>1
    <3>2. CASE \E d \in LocalDevices :
                 ask' = [ask EXCEPT !.at = "array", !.device = d] /\ UNCHANGED disturbed
      <4>1. PICK d \in LocalDevices :
              ask' = [ask EXCEPT !.at = "array", !.device = d] /\ disturbed' = disturbed
        BY <3>2
      <4>2. ~disturbed
        BY <1>3, <4>1, Zenon
      <4> QED BY <4>1, <4>2
    <3>3. \/ ask' = [ask EXCEPT !.at = "array"] /\ disturbed' = TRUE
          \/ \E d \in LocalDevices :
                ask' = [ask EXCEPT !.at = "array", !.device = d] /\ UNCHANGED disturbed
      BY DEF GetLocationDeviceId
    <3> QED BY <3>1, <3>2, <3>3
  <2>2. PICK s0 \in Described : s0.local /\ d = s0.device
    BY <1>1, ToSetIs DEF LocalDevices
  <2>3. d \in Devices /\ \A s \in Described : s.local <=> s.device = d
    BY <2>2, ListsAssumption DEF Devices
  <2>4. /\ ask' \in AskShape /\ ask'.at = "array" /\ ask'.device = d
        /\ ask'.call = ask.call /\ ask'.type = ask.type /\ ask'.named = ask.named
    BY <1>1, <2>1, <2>3 DEF AskShape
  <2>5. AskRight /\ Before /\ always \subseteq Described
    BY <1>1, <2>1 DEF ListsInv, Looking
  <2>6. AskRight'
    BY <1>1, <2>3, <2>4, <2>5 DEF AskRight
  <2>7. Before' /\ Found'
    BY <1>1, <2>4, <2>5 DEF Before, Found
  <2> QED BY <1>1, <2>4, <2>5, <2>6, <2>7 DEF ListsInv, Looking
<1> QED BY <1>2, <1>3

\* A call gets the array, or fails to.
LEMMA SensorsKeep ==
    ASSUME ListsInv, GetSensors
    PROVE  ListsInv'
<1>1. /\ ask.at = "array" /\ ask \in AskShape /\ infos \in Seq(Described) /\ infos' = infos
      /\ UNCHANGED <<answer, always, ever>>
  BY DEF GetSensors, ListsInv
<1>2. CASE disturbed'
  <2>1. ask' \in AskShape
    BY <1>1 DEF GetSensors, AskShape
  <2> QED BY <1>1, <1>2, <2>1 DEF ListsInv, Looking
<1>3. CASE ~disturbed'
  <2>1. held' = OwnArray /\ ask' = [ask EXCEPT !.at = "loop"] /\ ~disturbed
    BY <1>3 DEF GetSensors
  <2>2. /\ ask' \in AskShape /\ ask'.at = "loop" /\ ask'.device = ask.device
        /\ ask'.call = ask.call /\ ask'.type = ask.type /\ ask'.named = ask.named
    BY <1>1, <2>1 DEF AskShape
  <2>3. AskRight /\ Before /\ always \subseteq Described
    BY <1>1, <2>1 DEF ListsInv, Looking
  <2>4. AskRight'
    BY <1>1, <2>2, <2>3 DEF AskRight
  <2>5. /\ held'.array = infos /\ held'.count = Len(infos) /\ held'.next = 1 /\ held' \in HeldShape
    <3>1. Len(infos) \in Nat
      BY <1>1
    <3>2. (ask.call \notin Copied) \in BOOLEAN
      BY Zenon
    <3> HIDE DEF Copied
    <3> QED BY <1>1, <2>1, <3>1, <3>2 DEF OwnArray, HeldShape
  <2>6. Going'
    <3>1. answer' = <<>> /\ answer' \in Seq(Described)
      BY <1>1, <2>3 DEF Before
    <3> HIDE <1>1
    <3>3. ToSet(answer') = {}
      BY <3>1, ToSetIs
    <3>2. Passed'
      <4>1. \A i \in 1 .. held'.count : ~(i < held'.next)
        BY <2>5
      <4> QED BY <4>1 DEF Passed
    <3> QED BY <1>1, <2>3, <2>5, <3>1, <3>2, <3>3 DEF Going, Before
  <2>7. Found'
    BY <2>2 DEF Found
  <2> QED BY <1>1, <2>2, <2>3, <2>4, <2>6, <2>7 DEF ListsInv, Looking
<1> QED BY <1>2, <1>3

\* A call looks at the next sensor of the array.
LEMMA FilteringKeeps ==
    ASSUME ListsInv, FilteringSensorList
    PROVE  ListsInv'
<1> DEFINE s == held.array[held.next]
<1>1. /\ ask.at = "loop" /\ infos \in Seq(Described) /\ ask \in AskShape
      /\ held.next <= held.count /\ UNCHANGED <<infos, ask, always, ever, disturbed>>
      /\ IF Wanted(s)
         THEN answer' = Append(answer, s)
              /\ held' = [held EXCEPT !.next = IF Single THEN held.count + 1 ELSE held.next + 1]
         ELSE held' = [held EXCEPT !.next = held.next + 1] /\ answer' = answer
  BY DEF FilteringSensorList, ListsInv
<1>2. CASE disturbed
  BY <1>1, <1>2 DEF ListsInv, Looking
<1>3. CASE ~disturbed
  <2>1. AskRight /\ always \subseteq Described /\ Going
    BY <1>1, <1>3 DEF ListsInv, Looking
  <2>2. AskRight' /\ Found'
    BY <1>1, <2>1 DEF AskRight, Found
  <2>3. /\ held \in HeldShape /\ held.count = Len(held.array) /\ held.array \in Seq(Described)
        /\ held.next \in 1 .. held.count /\ held.count \in Nat
    BY <1>1, <2>1 DEF Going, HeldShape
  <2>4. s \in Described /\ s \in ToSet(held.array) /\ s \in ever
    <3>1. s \in ToSet(held.array) /\ ToSet(held.array) \subseteq Described
      BY <2>3, ToSetIs
    <3> QED BY <2>1, <3>1 DEF Going
  <2>5. \A x : (Wanted(x)' <=> Wanted(x)) /\ (Single' <=> Single)
    BY <1>1, SameQuestion
  <2>6. /\ held' \in HeldShape /\ held'.array = held.array /\ held'.count = held.count
        /\ held'.next = IF Wanted(s) /\ Single THEN held.count + 1 ELSE held.next + 1
    <3> DEFINE n == IF Wanted(s) /\ Single THEN held.count + 1 ELSE held.next + 1
    <3>1. n \in Nat \ {0}
      BY <2>3
    <3>2. held' = [held EXCEPT !.next = n]
      BY <1>1
    <3> HIDE DEF n
    <3>3. held' \in HeldShape /\ held'.array = held.array /\ held'.count = held.count /\ held'.next = n
      BY <2>3, <3>1, <3>2 DEF HeldShape
    <3> QED BY <3>3 DEF n
  <2>7. /\ answer \in Seq(Described) /\ answer' \in Seq(Described)
        /\ Wanted(s) => answer' # <<>> /\ ToSet(answer') = ToSet(answer) \cup {s}
        /\ ~Wanted(s) => answer' = answer
    <3>1. answer \in Seq(Described)
      BY <2>1 DEF Going
    <3>2. /\ Append(answer, s) \in Seq(Described) /\ Append(answer, s) # <<>>
          /\ ToSet(Append(answer, s)) = ToSet(answer) \cup {s}
      BY <2>4, <3>1, AppendToSet
    <3> HIDE DEF s
    <3> QED BY <1>1, <3>1, <3>2
  <2>8. \A x \in ToSet(answer') : x \in ever /\ Wanted(x)
    BY <2>1, <2>4, <2>7 DEF Going
  <2> HIDE DEF s
  <2>9. Passed'
    <3>1. CASE Single
      <4> SUFFICES ASSUME answer' = <<>>, NEW i \in 1 .. held.count, i < held'.next
                   PROVE  ~Wanted(held.array[i])
        BY <2>5, <2>6, <3>1 DEF Passed
      <4>1. ~Wanted(s) /\ answer = <<>> /\ held'.next = held.next + 1
        BY <2>6, <2>7
      <4>2. i < held.next \/ i = held.next
        BY <2>3, <4>1
      <4> QED BY <2>1, <3>1, <4>1, <4>2 DEF Going, Passed, s
    <3>2. CASE ~Single
      <4> SUFFICES ASSUME NEW i \in 1 .. held.count, i < held'.next, Wanted(held.array[i])
                   PROVE  held.array[i] \in ToSet(answer')
        BY <2>5, <2>6, <3>2 DEF Passed
      <4>1. i < held.next \/ i = held.next
        BY <2>3, <2>6, <3>2
      <4>2. ToSet(answer) \subseteq ToSet(answer')
        BY <2>7
      <4>3. CASE i < held.next
        BY <2>1, <3>2, <4>2, <4>3 DEF Going, Passed
      <4>4. CASE i = held.next
        BY <2>7, <4>4 DEF s
      <4> QED BY <4>1, <4>3, <4>4
    <3> QED BY <3>1, <3>2
  <2>10. Going'
    BY <1>1, <2>1, <2>5, <2>6, <2>7, <2>8, <2>9 DEF Going
  <2> QED BY <1>1, <2>1, <2>2, <2>10 DEF ListsInv, Looking
<1> QED BY <1>2, <1>3

\* Every sensor of the array has been passed.
LEMMA AnsweredKeeps ==
    ASSUME ListsInv, Answered
    PROVE  ListsInv'
<1>1. /\ ask.at = "loop" /\ ask \in AskShape /\ infos \in Seq(Described) /\ infos' = infos
      /\ held.next > held.count /\ ask' = [ask EXCEPT !.at = "answered"]
      /\ UNCHANGED <<answer, always, ever, disturbed>>
  BY DEF Answered, ListsInv
<1>2. /\ ask' \in AskShape /\ ask'.at = "answered" /\ ask'.device = ask.device
      /\ ask'.call = ask.call /\ ask'.type = ask.type /\ ask'.named = ask.named
  BY <1>1 DEF AskShape
<1>3. ASSUME ~disturbed PROVE Looking'
  <2>1. AskRight /\ always \subseteq Described /\ Going
    BY <1>1, <1>3 DEF ListsInv, Looking
  <2>2. AskRight'
    BY <1>1, <1>2, <2>1 DEF AskRight
  <2>3. \A x : (Asked(x)' <=> Asked(x)) /\ (Single' <=> Single)
    BY <1>2, SameQuestion
  <2>4. \A x \in Described : Wanted(x) <=> Asked(x)
    BY <1>1, <2>1, WantedIsAsked
  <2>5. /\ held.array \in Seq(Described) /\ held.count = Len(held.array) /\ held.count \in Nat
        /\ held.next \in Nat /\ answer \in Seq(Described)
    BY <2>1 DEF Going, HeldShape
  <2>6. \A x \in ToSet(answer) : x \in ever /\ Asked(x)
    BY <2>1, <2>4, <2>5, ToSetIs DEF Going
  <2>7. ASSUME NEW x \in always, Asked(x)
        PROVE  IF Single THEN answer # <<>> ELSE x \in ToSet(answer)
    <3>1. PICK i \in 1 .. held.count : held.array[i] = x
      BY <2>1, <2>5, ToSetIs DEF Going
    <3>2. Wanted(x) /\ i < held.next
      BY <1>1, <2>1, <2>4, <2>5, <2>7
    <3> QED BY <2>1, <3>1, <3>2 DEF Going, Passed
  <2>8. Found'
    BY <1>1, <1>2, <2>3, <2>6, <2>7 DEF Found
  <2> QED BY <1>1, <1>2, <2>1, <2>2, <2>8 DEF Looking
<1>4. ASSUME disturbed PROVE Looking'
  BY <1>1, <1>4 DEF Looking
<1> QED BY <1>1, <1>2, <1>3, <1>4 DEF ListsInv

\* A call returns.
LEMMA DoneKeeps ==
    ASSUME ListsInv, Done
    PROVE  ListsInv'
<1>1. ask' = NoAsk /\ infos' = infos /\ infos \in Seq(Described)
  BY DEF Done, ListsInv
<1>2. ask' \in AskShape /\ ask'.at = "idle"
  BY <1>1 DEF NoAsk, AskShape
<1> QED BY <1>1, <1>2 DEF ListsInv, Looking

\* Every step of the lists keeps their invariant.
LEMMA ListsKept ==
    ASSUME ListsInv, ListsNext
    PROVE  ListsInv'
BY AppendedKeeps, TakenOutKeeps, RebuiltKeeps, AskedKeeps, LocalKeeps, SensorsKeep,
   FilteringKeeps, AnsweredKeeps, DoneKeeps DEF ListsNext

\* What leaves the lists keeps their invariant.
LEMMA ListsUntouched ==
    ASSUME ListsInv, UNCHANGED listVars
    PROVE  ListsInv'
<1>1. /\ UNCHANGED <<infos, ask, held, answer, always, ever, disturbed>>
  BY DEF listVars
<1>2. AskRight' <=> AskRight
  BY <1>1 DEF AskRight
<1>3. Before' <=> Before
  BY <1>1 DEF Before
<1>4. /\ Single' <=> Single
      /\ \A s : Wanted(s)' <=> Wanted(s)
  BY <1>1 DEF Single, Wanted, Hidden, OfDevice
<1>5. Passed' <=> Passed
  BY <1>1, <1>4 DEF Passed
<1>6. Going' <=> Going
  BY <1>1, <1>4, <1>5 DEF Going
<1>7. Found' <=> Found
  BY <1>1, <1>4 DEF Found, Wanted, Asked, Single, Hidden, OfDevice
<1>8. Looking' <=> Looking
  BY <1>1, <1>2, <1>3, <1>6, <1>7 DEF Looking
<1> QED BY <1>1, <1>8 DEF ListsInv

\* The invariant implies that a call finds what it asked for, undisturbed.
LEMMA ListsFind ==
    ASSUME ListsInv
    PROVE  Found
BY DEF ListsInv, Looking, Found

-----------------------------------------------------------------------------
(* What ArkTS makes of an event                                            *)

\* A sequence has a length and these entries.
Holds(q, names) == Len(q) \in Nat /\ ToSet(q) = names

\* Two sequences one after the other hold the members of both.
LEMMA JoinedIs ==
    ASSUME NEW S, NEW p \in Seq(S), NEW q \in Seq(S)
    PROVE  Holds(p \o q, ToSet(p) \cup ToSet(q))
<1> DEFINE r == p \o q
<1>1. /\ Len(r) \in Nat /\ DOMAIN r = 1 .. Len(p) + Len(q)
      /\ \A i \in 1 .. Len(p) + Len(q) : r[i] = IF i <= Len(p) THEN p[i] ELSE q[i - Len(p)]
  BY ConcatProperties
<1>2. DOMAIN p = 1 .. Len(p) /\ DOMAIN q = 1 .. Len(q) /\ Len(p) \in Nat /\ Len(q) \in Nat
  OBVIOUS
<1> HIDE DEF r
<1>3. \A i \in DOMAIN p : i \in DOMAIN r /\ r[i] = p[i]
  BY <1>1, <1>2
<1>4. \A i \in DOMAIN q : i + Len(p) \in DOMAIN r /\ r[i + Len(p)] = q[i]
  BY <1>1, <1>2
<1>5. \A i \in DOMAIN r :
        \/ i \in DOMAIN p /\ r[i] = p[i]
        \/ i - Len(p) \in DOMAIN q /\ r[i] = q[i - Len(p)]
  BY <1>1, <1>2
<1>6. ToSet(r) = ToSet(p) \cup ToSet(q)
  BY <1>3, <1>4, <1>5 DEF ToSet
<1> QED BY <1>1, <1>6 DEF r, Holds

\* A sequence of one holds it.
LEMMA OneHolds ==
    ASSUME NEW a
    PROVE  Holds(<<a>>, {a})
BY DEF Holds, ToSet

\* A sequence of two holds them.
LEMMA TwoHold ==
    ASSUME NEW a, NEW b
    PROVE  Holds(<<a, b>>, {a, b})
BY DEF Holds, ToSet

\* A sequence of three holds them.
LEMMA ThreeHold ==
    ASSUME NEW a, NEW b, NEW c
    PROVE  Holds(<<a, b, c>>, {a, b, c})
<1> DEFINE t == <<a, b, c>>
<1>1. t[1] = a /\ t[2] = b /\ t[3] = c /\ DOMAIN t = 1 .. 3 /\ Len(t) = 3
  OBVIOUS
<1> HIDE DEF t
<1>2. ToSet(t) = {t[i] : i \in 1 .. 3}
  BY <1>1 DEF ToSet
<1>3. \A i \in 1 .. 3 : i = 1 \/ i = 2 \/ i = 3
  OBVIOUS
<1>4. \A y : y \in ToSet(t) <=> y = a \/ y = b \/ y = c
  BY <1>1, <1>2, <1>3
<1>5. ToSet(t) = {a, b, c}
  BY <1>4
<1> QED BY <1>1, <1>5 DEF t, Holds

\* The values of the three axes, with their bias and with a fourth.
LEMMA AxesHold ==
    /\ Holds(Ets!XYZ, {"x", "y", "z"})
    /\ Holds(Ets!Biased, {"x", "y", "z", "biasX", "biasY", "biasZ"})
    /\ Holds(Ets!XYZ \o <<"w">>, {"x", "y", "z", "w"})
<1> DEFINE Names == {"x", "y", "z", "biasX", "biasY", "biasZ", "w"}
           axes == <<"x", "y", "z">>
           bias == <<"biasX", "biasY", "biasZ">>
           w == <<"w">>
<1>1. axes \in Seq(Names) /\ bias \in Seq(Names) /\ w \in Seq(Names)
  OBVIOUS
<1>2. /\ Holds(axes, {"x", "y", "z"}) /\ Holds(bias, {"biasX", "biasY", "biasZ"})
      /\ Holds(w, {"w"})
  BY OneHolds, ThreeHold
<1>3. Ets!XYZ = axes /\ Ets!Biased = axes \o bias
  BY DEF Ets!XYZ, Ets!Biased
<1> HIDE DEF axes, bias, w, Names
<1>4. Holds(axes \o bias, ToSet(axes) \cup ToSet(bias)) /\ Holds(axes \o w, ToSet(axes) \cup ToSet(w))
  BY <1>1, JoinedIs
<1>5. /\ ToSet(axes) \cup ToSet(bias) = {"x", "y", "z", "biasX", "biasY", "biasZ"}
      /\ ToSet(axes) \cup ToSet(w) = {"x", "y", "z", "w"}
  BY <1>2 DEF Holds
<1> QED BY <1>2, <1>3, <1>4, <1>5 DEF w

\* The names of an event's values, type by type.
NamesAre(type, names) == Holds(Ets!g_sensorAttributeList[type], names)

\* The values that the events of each type have.
LEMMA AttributesAre ==
    /\ NamesAre("ACCELEROMETER", {"x", "y", "z"}) /\ NamesAre("GYROSCOPE", {"x", "y", "z"})
    /\ NamesAre("MAGNETIC_FIELD", {"x", "y", "z"}) /\ NamesAre("GRAVITY", {"x", "y", "z"})
    /\ NamesAre("LINEAR_ACCELERATION", {"x", "y", "z"})
    /\ NamesAre("ROTATION_VECTOR", {"x", "y", "z", "w"})
    /\ NamesAre("AMBIENT_LIGHT", {"intensity", "colorTemperature", "infraredLuminance"})
    /\ NamesAre("BAROMETER", {"pressure"}) /\ NamesAre("HALL", {"status"})
    /\ NamesAre("PROXIMITY", {"distance"}) /\ NamesAre("HUMIDITY", {"humidity"})
    /\ NamesAre("ORIENTATION", {"alpha", "beta", "gamma"})
    /\ NamesAre("AMBIENT_TEMPERATURE", {"temperature"})
    /\ NamesAre("MAGNETIC_FIELD_UNCALIBRATED", {"x", "y", "z", "biasX", "biasY", "biasZ"})
    /\ NamesAre("GYROSCOPE_UNCALIBRATED", {"x", "y", "z", "biasX", "biasY", "biasZ"})
    /\ NamesAre("ACCELEROMETER_UNCALIBRATED", {"x", "y", "z", "biasX", "biasY", "biasZ"})
    /\ NamesAre("SIGNIFICANT_MOTION", {"scalar"}) /\ NamesAre("PEDOMETER_DETECTION", {"scalar"})
    /\ NamesAre("PEDOMETER", {"steps"}) /\ NamesAre("HEART_RATE", {"heartRate"})
    /\ NamesAre("WEAR_DETECTION", {"value"})
    /\ NamesAre("COLOR", {"lightIntensity", "colorTemperature"})
    /\ NamesAre("SAR", {"absorptionRatio"}) /\ NamesAre("FUSION_PRESSURE", {"fusionPressure"})
BY AxesHold, OneHolds, TwoHold, ThreeHold DEF NamesAre, Ets!g_sensorAttributeList

\* The conversion that each type is given.
LEMMA FunctionsAre ==
    LET map == Ets!g_functionBySensorTypeIdMap IN
    /\ DOMAIN map =
         {"ACCELEROMETER", "GYROSCOPE", "AMBIENT_LIGHT", "MAGNETIC_FIELD", "BAROMETER", "HALL",
          "PROXIMITY", "HUMIDITY", "ORIENTATION", "GRAVITY", "LINEAR_ACCELERATION",
          "ROTATION_VECTOR", "AMBIENT_TEMPERATURE", "MAGNETIC_FIELD_UNCALIBRATED",
          "GYROSCOPE_UNCALIBRATED", "SIGNIFICANT_MOTION", "PEDOMETER_DETECTION", "PEDOMETER",
          "HEART_RATE", "WEAR_DETECTION", "ACCELEROMETER_UNCALIBRATED", "COLOR", "SAR",
          "FUSION_PRESSURE"}
    /\ map["ACCELEROMETER"] = "Accelermeter" /\ map["GYROSCOPE"] = "Gyroscope"
    /\ map["AMBIENT_LIGHT"] = "AmbientLight" /\ map["MAGNETIC_FIELD"] = "MagneticField"
    /\ map["BAROMETER"] = "Barometer" /\ map["HALL"] = "Hall" /\ map["PROXIMITY"] = "Proximity"
    /\ map["HUMIDITY"] = "Humidity" /\ map["ORIENTATION"] = "Orientation"
    /\ map["GRAVITY"] = "Gravity" /\ map["LINEAR_ACCELERATION"] = "LinearAcceleration"
    /\ map["ROTATION_VECTOR"] = "RotationVector"
    /\ map["AMBIENT_TEMPERATURE"] = "AmbientTemperature"
    /\ map["MAGNETIC_FIELD_UNCALIBRATED"] = "MagneticFieldUncalibrated"
    /\ map["GYROSCOPE_UNCALIBRATED"] = "GyroscopeUncalibrated"
    /\ map["SIGNIFICANT_MOTION"] = "SignificantMotion"
    /\ map["PEDOMETER_DETECTION"] = "PedometerDetection" /\ map["PEDOMETER"] = "Pedometer"
    /\ map["HEART_RATE"] = "HeartRate" /\ map["WEAR_DETECTION"] = "WearDetection"
    /\ map["ACCELEROMETER_UNCALIBRATED"] = "AccelerometerUncalibrated" /\ map["COLOR"] = "Color"
    /\ map["SAR"] = "Sar" /\ map["FUSION_PRESSURE"] = "FusionPressure"
BY DEF Ets!g_functionBySensorTypeIdMap

\* What the functions of each type take.
LEMMA OnIs ==
    /\ DOMAIN Ets!On =
         {"SIGNIFICANT_MOTION", "ROTATION_VECTOR", "PROXIMITY", "PEDOMETER_DETECTION",
          "PEDOMETER", "ORIENTATION", "MAGNETIC_FIELD_UNCALIBRATED", "MAGNETIC_FIELD",
          "LINEAR_ACCELERATION", "HUMIDITY", "HEART_RATE", "HALL", "GYROSCOPE_UNCALIBRATED",
          "GYROSCOPE", "GRAVITY", "BAROMETER", "AMBIENT_TEMPERATURE", "AMBIENT_LIGHT",
          "ACCELEROMETER_UNCALIBRATED", "ACCELEROMETER", "SAR", "COLOR", "FUSION_PRESSURE",
          "WEAR_DETECTION"}
    /\ Ets!On["SIGNIFICANT_MOTION"] = "SignificantMotion"
    /\ Ets!On["ROTATION_VECTOR"] = "RotationVector" /\ Ets!On["PROXIMITY"] = "Proximity"
    /\ Ets!On["PEDOMETER_DETECTION"] = "PedometerDetection" /\ Ets!On["PEDOMETER"] = "Pedometer"
    /\ Ets!On["ORIENTATION"] = "Orientation"
    /\ Ets!On["MAGNETIC_FIELD_UNCALIBRATED"] = "MagneticFieldUncalibrated"
    /\ Ets!On["MAGNETIC_FIELD"] = "MagneticField"
    /\ Ets!On["LINEAR_ACCELERATION"] = "LinearAccelerometer" /\ Ets!On["HUMIDITY"] = "Humidity"
    /\ Ets!On["HEART_RATE"] = "HeartRate" /\ Ets!On["HALL"] = "Hall"
    /\ Ets!On["GYROSCOPE_UNCALIBRATED"] = "GyroscopeUncalibrated"
    /\ Ets!On["GYROSCOPE"] = "Gyroscope" /\ Ets!On["GRAVITY"] = "Gravity"
    /\ Ets!On["BAROMETER"] = "Barometer" /\ Ets!On["AMBIENT_TEMPERATURE"] = "AmbientTemperature"
    /\ Ets!On["AMBIENT_LIGHT"] = "Light"
    /\ Ets!On["ACCELEROMETER_UNCALIBRATED"] = "AccelerometerUncalibrated"
    /\ Ets!On["ACCELEROMETER"] = "Accelerometer" /\ Ets!On["SAR"] = "Sar"
    /\ Ets!On["COLOR"] = "Color" /\ Ets!On["FUSION_PRESSURE"] = "FusionPressure"
    /\ Ets!On["WEAR_DETECTION"] = "WearDetection"
<1> DEFINE first == Ets!OnFirst
           second == Ets!OnSecond
           third == Ets!OnThird
           last == [WEAR_DETECTION |-> "WearDetection"]
           left == Ets!Both(first, second)
           right == Ets!Both(third, last)
<1>1. /\ DOMAIN first =
           {"SIGNIFICANT_MOTION", "ROTATION_VECTOR", "PROXIMITY", "PEDOMETER_DETECTION",
            "PEDOMETER", "ORIENTATION", "MAGNETIC_FIELD_UNCALIBRATED", "MAGNETIC_FIELD"}
      /\ first["SIGNIFICANT_MOTION"] = "SignificantMotion"
      /\ first["ROTATION_VECTOR"] = "RotationVector" /\ first["PROXIMITY"] = "Proximity"
      /\ first["PEDOMETER_DETECTION"] = "PedometerDetection" /\ first["PEDOMETER"] = "Pedometer"
      /\ first["ORIENTATION"] = "Orientation"
      /\ first["MAGNETIC_FIELD_UNCALIBRATED"] = "MagneticFieldUncalibrated"
      /\ first["MAGNETIC_FIELD"] = "MagneticField"
  BY DEF Ets!OnFirst
<1>2. /\ DOMAIN second =
           {"LINEAR_ACCELERATION", "HUMIDITY", "HEART_RATE", "HALL", "GYROSCOPE_UNCALIBRATED",
            "GYROSCOPE", "GRAVITY", "BAROMETER", "AMBIENT_TEMPERATURE"}
      /\ second["LINEAR_ACCELERATION"] = "LinearAccelerometer" /\ second["HUMIDITY"] = "Humidity"
      /\ second["HEART_RATE"] = "HeartRate" /\ second["HALL"] = "Hall"
      /\ second["GYROSCOPE_UNCALIBRATED"] = "GyroscopeUncalibrated"
      /\ second["GYROSCOPE"] = "Gyroscope" /\ second["GRAVITY"] = "Gravity"
      /\ second["BAROMETER"] = "Barometer"
      /\ second["AMBIENT_TEMPERATURE"] = "AmbientTemperature"
  BY DEF Ets!OnSecond
<1>3. /\ DOMAIN third =
           {"AMBIENT_LIGHT", "ACCELEROMETER_UNCALIBRATED", "ACCELEROMETER", "SAR", "COLOR",
            "FUSION_PRESSURE"}
      /\ third["AMBIENT_LIGHT"] = "Light"
      /\ third["ACCELEROMETER_UNCALIBRATED"] = "AccelerometerUncalibrated"
      /\ third["ACCELEROMETER"] = "Accelerometer" /\ third["SAR"] = "Sar"
      /\ third["COLOR"] = "Color" /\ third["FUSION_PRESSURE"] = "FusionPressure"
  BY DEF Ets!OnThird
<1>4. DOMAIN last = {"WEAR_DETECTION"} /\ last["WEAR_DETECTION"] = "WearDetection"
  OBVIOUS
<1>5. /\ DOMAIN left = DOMAIN first \cup DOMAIN second
      /\ \A x \in DOMAIN left : left[x] = IF x \in DOMAIN first THEN first[x] ELSE second[x]
  BY DEF Ets!Both
<1>6. /\ DOMAIN right = DOMAIN third \cup DOMAIN last
      /\ \A x \in DOMAIN right : right[x] = IF x \in DOMAIN third THEN third[x] ELSE last[x]
  BY DEF Ets!Both
<1>7. /\ DOMAIN Ets!On = DOMAIN left \cup DOMAIN right
      /\ \A x \in DOMAIN Ets!On : Ets!On[x] = IF x \in DOMAIN left THEN left[x] ELSE right[x]
  <2> HIDE DEF left, right
  <2>1. Ets!On = Ets!Both(left, right)
    BY DEF Ets!On, left, right
  <2> QED BY <2>1 DEF Ets!Both
<1> HIDE DEF first, second, third, last, left, right
<1>8. /\ DOMAIN Ets!On = DOMAIN first \cup DOMAIN second \cup DOMAIN third \cup DOMAIN last
      /\ \A x \in DOMAIN first : Ets!On[x] = first[x]
      /\ \A x \in DOMAIN second : x \notin DOMAIN first => Ets!On[x] = second[x]
      /\ \A x \in DOMAIN third \cup DOMAIN last :
           x \notin DOMAIN first \cup DOMAIN second =>
             Ets!On[x] = IF x \in DOMAIN third THEN third[x] ELSE last[x]
  BY <1>5, <1>6, <1>7
<1>9. DOMAIN Ets!On =
         {"SIGNIFICANT_MOTION", "ROTATION_VECTOR", "PROXIMITY", "PEDOMETER_DETECTION",
          "PEDOMETER", "ORIENTATION", "MAGNETIC_FIELD_UNCALIBRATED", "MAGNETIC_FIELD",
          "LINEAR_ACCELERATION", "HUMIDITY", "HEART_RATE", "HALL", "GYROSCOPE_UNCALIBRATED",
          "GYROSCOPE", "GRAVITY", "BAROMETER", "AMBIENT_TEMPERATURE", "AMBIENT_LIGHT",
          "ACCELEROMETER_UNCALIBRATED", "ACCELEROMETER", "SAR", "COLOR", "FUSION_PRESSURE",
          "WEAR_DETECTION"}
  BY <1>1, <1>2, <1>3, <1>4, <1>8
<1>10. \A x \in DOMAIN first : Ets!On[x] = first[x]
  BY <1>8
<1>11. \A x \in DOMAIN second : Ets!On[x] = second[x]
  BY <1>1, <1>2, <1>8
<1>12. \A x \in DOMAIN third : Ets!On[x] = third[x]
  BY <1>1, <1>2, <1>3, <1>8
<1>13. Ets!On["WEAR_DETECTION"] = "WearDetection"
  BY <1>1, <1>2, <1>3, <1>4, <1>8
<1>14. /\ Ets!On["SIGNIFICANT_MOTION"] = "SignificantMotion"
       /\ Ets!On["ROTATION_VECTOR"] = "RotationVector" /\ Ets!On["PROXIMITY"] = "Proximity"
       /\ Ets!On["PEDOMETER_DETECTION"] = "PedometerDetection"
       /\ Ets!On["PEDOMETER"] = "Pedometer" /\ Ets!On["ORIENTATION"] = "Orientation"
       /\ Ets!On["MAGNETIC_FIELD_UNCALIBRATED"] = "MagneticFieldUncalibrated"
       /\ Ets!On["MAGNETIC_FIELD"] = "MagneticField"
  BY <1>1, <1>10
<1>15. /\ Ets!On["LINEAR_ACCELERATION"] = "LinearAccelerometer"
       /\ Ets!On["HUMIDITY"] = "Humidity"
       /\ Ets!On["HEART_RATE"] = "HeartRate" /\ Ets!On["HALL"] = "Hall"
       /\ Ets!On["GYROSCOPE_UNCALIBRATED"] = "GyroscopeUncalibrated"
       /\ Ets!On["GYROSCOPE"] = "Gyroscope" /\ Ets!On["GRAVITY"] = "Gravity"
       /\ Ets!On["BAROMETER"] = "Barometer"
       /\ Ets!On["AMBIENT_TEMPERATURE"] = "AmbientTemperature"
  BY <1>2, <1>11
<1>16. /\ Ets!On["AMBIENT_LIGHT"] = "Light"
       /\ Ets!On["ACCELEROMETER_UNCALIBRATED"] = "AccelerometerUncalibrated"
       /\ Ets!On["ACCELEROMETER"] = "Accelerometer" /\ Ets!On["SAR"] = "Sar"
       /\ Ets!On["COLOR"] = "Color" /\ Ets!On["FUSION_PRESSURE"] = "FusionPressure"
  BY <1>3, <1>12
<1> QED BY <1>9, <1>13, <1>14, <1>15, <1>16, Zenon

\* What each conversion makes, and from which values.
LEMMA ConversionsAre ==
    /\ Ets!CallBack["Accelermeter"] = Ets!Makes("Accelerometer", {"x", "y", "z"})
    /\ Ets!CallBack["Gyroscope"] = Ets!Makes("Gyroscope", {"x", "y", "z"})
    /\ Ets!CallBack["AmbientLight"] = Ets!Makes("Light", {"intensity", "colorTemperature", "infraredLuminance"})
    /\ Ets!CallBack["MagneticField"] = Ets!Makes("MagneticField", {"x", "y", "z"})
    /\ Ets!CallBack["Barometer"] = Ets!Makes("Barometer", {"pressure"})
    /\ Ets!CallBack["Hall"] = Ets!Makes("Hall", {"status"})
    /\ Ets!CallBack["Proximity"] = Ets!Makes("Proximity", {"distance"})
    /\ Ets!CallBack["Humidity"] = Ets!Makes("Humidity", {"humidity"})
    /\ Ets!CallBack["Orientation"] = Ets!Makes("Orientation", {"alpha", "beta", "gamma"})
    /\ Ets!CallBack["Gravity"] = Ets!Makes("Gravity", {"x", "y", "z"})
    /\ Ets!CallBack["LinearAcceleration"] = Ets!Makes("LinearAccelerometer", {"x", "y", "z"})
    /\ Ets!CallBack["RotationVector"] = Ets!Makes("RotationVector", {"x", "y", "z", "w"})
    /\ Ets!CallBack["AmbientTemperature"] = Ets!Makes("AmbientTemperature", {"temperature"})
    /\ Ets!CallBack["MagneticFieldUncalibrated"] = Ets!Makes("MagneticFieldUncalibrated", {"x", "y", "z", "biasX", "biasY", "biasZ"})
    /\ Ets!CallBack["GyroscopeUncalibrated"] = Ets!Makes("GyroscopeUncalibrated", {"x", "y", "z", "biasX", "biasY", "biasZ"})
    /\ Ets!CallBack["SignificantMotion"] = Ets!Makes("SignificantMotion", {"scalar"})
    /\ Ets!CallBack["PedometerDetection"] = Ets!Makes("PedometerDetection", {"scalar"})
    /\ Ets!CallBack["Pedometer"] = Ets!Makes("Pedometer", {"steps"})
    /\ Ets!CallBack["HeartRate"] = Ets!Makes("HeartRate", {"heartRate"})
    /\ Ets!CallBack["WearDetection"] = Ets!Makes("WearDetection", {"value"})
    /\ Ets!CallBack["AccelerometerUncalibrated"] = Ets!Makes("AccelerometerUncalibrated", {"x", "y", "z", "biasX", "biasY", "biasZ"})
    /\ Ets!CallBack["Color"] = Ets!Makes("Color", {"lightIntensity", "colorTemperature"})
    /\ Ets!CallBack["FusionPressure"] = Ets!Makes("FusionPressure", {"fusionPressure"})
    /\ Ets!CallBack["Sar"] = Ets!Makes("Sar", {"absorptionRatio"})
BY Zenon DEF Ets!CallBack, Ets!MotionConversions, Ets!DirectionConversions, Ets!UncalibratedConversions,
       Ets!BodyConversions, Ets!Both, Ets!Makes, Ets!Axes, Ets!BiasedAxes

\* The conversion of a type makes what its functions take, of what its events have.
Conversion(type) == Ets!CallBack[Ets!g_functionBySensorTypeIdMap[type]]
Fits(type) ==
    /\ type \in DOMAIN Ets!g_functionBySensorTypeIdMap
    /\ Conversion(type).response = Ets!On[type]
Complete(type) ==
    /\ Len(Ets!g_sensorAttributeList[type]) \in Nat
    /\ Conversion(type).reads = ToSet(Ets!g_sensorAttributeList[type])

\* The conversion of every type makes what its functions take.
LEMMA EveryFits == \A type \in DOMAIN Ets!On : Fits(type)
BY FunctionsAre, OnIs, ConversionsAre DEF Fits, Conversion, Ets!Makes

\* The conversion of every type reads the values that its events have.
LEMMA EveryComplete == \A type \in DOMAIN Ets!On : Complete(type)
<1>1. /\ Complete("ACCELEROMETER") /\ Complete("GYROSCOPE") /\ Complete("AMBIENT_LIGHT")
      /\ Complete("MAGNETIC_FIELD") /\ Complete("BAROMETER") /\ Complete("HALL")
      /\ Complete("PROXIMITY") /\ Complete("HUMIDITY") /\ Complete("ORIENTATION")
      /\ Complete("GRAVITY") /\ Complete("LINEAR_ACCELERATION") /\ Complete("ROTATION_VECTOR")
      /\ Complete("AMBIENT_TEMPERATURE") /\ Complete("MAGNETIC_FIELD_UNCALIBRATED")
      /\ Complete("GYROSCOPE_UNCALIBRATED") /\ Complete("SIGNIFICANT_MOTION")
      /\ Complete("PEDOMETER_DETECTION") /\ Complete("PEDOMETER") /\ Complete("HEART_RATE")
      /\ Complete("WEAR_DETECTION") /\ Complete("ACCELEROMETER_UNCALIBRATED")
      /\ Complete("COLOR") /\ Complete("SAR") /\ Complete("FUSION_PRESSURE")
  BY AttributesAre, FunctionsAre, ConversionsAre DEF NamesAre, Holds, Complete, Conversion, Ets!Makes
<1> QED BY OnIs, <1>1

\* So every event becomes a response that its functions take.
LEMMA EtsResponds == Ets!EveryResponseMade
<1>1. ASSUME NEW type \in DOMAIN Ets!On
      PROVE  Ets!Called(type, Len(Ets!g_sensorAttributeList[type]), Ets!On[type])
  <2> DEFINE q == Ets!g_sensorAttributeList[type]
  <2>1. Complete(type) /\ Fits(type)
    BY EveryComplete, EveryFits
  <2>2. ~(Len(q) > Len(q))
    BY <2>1 DEF Complete
  <2> HIDE DEF q
  <2>3. Ets!CallbackSensorData(type, Len(q)) = ToSet(q) \cup {"timestamp", "accuracy"}
    BY <2>2 DEF Ets!CallbackSensorData, Ets!ToSet, ToSet, q
  <2> QED BY <2>1, <2>3 DEF Ets!Called, Fits, Complete, Conversion, q
<1>2. DOMAIN Ets!Once \subseteq DOMAIN Ets!On /\ \A type \in DOMAIN Ets!Once : Ets!Once[type] = Ets!On[type]
  BY DEF Ets!Once
<1> QED BY <1>1, <1>2 DEF Ets!EveryResponseMade

-----------------------------------------------------------------------------
(* All parts together                                                      *)

IInv == TablesInv /\ ListsInv /\ StatusInv

\* The binding of a process stays what it is.
LEMMA LangStays ==
    ASSUME TablesStep
    PROVE  lang' = lang
<1>1. JsNext => lang' = lang
  BY DEF JsNext, SystemInterface, Once, OnPlugSensor, On, OffCall, Subscribe, Unsubscribe, Record,
     CleanUp, UpdatePlugCallbackInfos, OffPlugSensor, UnsubscribeSensorPlug, CheckSubscribe,
     CheckSystemSubscribe, UnsubscribeSensor, DataCallbackImpl, EmitSubscribeCallback,
     EmitOnceCallback, EmitAsyncWork, AsyncWorkDone
<1>2. EtsNext \/ CjNext => lang' = lang
  BY DEF EtsNext, OnceCommon, OnSensorStatusChange, OnCommon, OffCommon, OffSensorStatusChange,
     UpdateCallbackInfosEts, UpdateOnceCallbackEts, CheckSystem, UnsubscribeLocal, DataOfType,
     EmitOnCallback, CallbacksReturn, EmitOnce, CheckType,
     CjNext, OnSensorChange, OffSensorChange, AddCallback2Map, UnsubscribeSensorImpl, DelCallback
<1>3. (\E t \in Envs : SubscribeSensor(t) \/ ActivateSensor(t)) => lang' = lang
  BY DEF SubscribeSensor, ActivateSensor
<1> QED BY <1>1, <1>2, <1>3 DEF TablesStep

\* Every step of the bindings keeps their invariant.
LEMMA IInvKept ==
    ASSUME IInv, [FreeNext]_allVars
    PROVE  IInv'
<1>1. CASE TablesStep /\ UNCHANGED <<listVars, statusVars>>
  BY <1>1, TablesKept, ListsUntouched, StatusUntouched, LangStays DEF IInv
<1>2. CASE ListsNext /\ UNCHANGED <<vars, statusVars>>
  BY <1>2, TablesUntouched, ListsKept, StatusUntouched DEF IInv, vars
<1>3. CASE StatusNext /\ UNCHANGED <<vars, listVars>>
  BY <1>3, TablesUntouched, ListsUntouched, StatusKept DEF IInv, vars
<1>4. CASE UNCHANGED allVars
  BY <1>4, TablesUntouched, ListsUntouched, StatusUntouched DEF IInv, allVars, vars
<1> QED BY <1>1, <1>2, <1>3, <1>4 DEF FreeNext

(* What the model of the bindings promises follows from the invariant, in every    *)
(* state: whoever is in the on or the system table is reached, nothing goes on for *)
(* nobody, calls are answered, applications find what is there and functions hear  *)
(* the last event.                                                                 *)
LEMMA IInvPromises ==
    ASSUME IInv
    PROVE  Reaches /\ NothingLeft /\ Settled /\ Found /\ Heard
<1>1. Reaches
  BY TablesReach DEF IInv, Reaches
<1> QED BY <1>1, TablesLeave, TablesSettle, ListsFind, StatusHears DEF IInv

(* The tables, the lists and the queue of events are right in every state, with    *)
(* the steps of all parts in any order and without the bounds of Bindings.         *)
THEOREM BindingsRight == FreeSpec => []IInv
<1>1. AllInit => IInv
  BY TablesStart, ListsStart, StatusStart DEF AllInit, IInv
<1>2. IInv /\ [FreeNext]_allVars => IInv'
  BY IInvKept
<1> QED BY <1>1, <1>2, PTL DEF FreeSpec

(* What Bindings does within its bounds is among what the bindings do.             *)
THEOREM BoundedIsFree == Spec => FreeSpec
<1>1. [Next]_allVars => [FreeNext]_allVars
  BY DEF Next, FreeNext, TablesNext, TablesStep
<1> QED BY <1>1, PTL DEF Spec, FreeSpec

(* Whoever is in the on or the system table of a binding is subscribed at the      *)
(* agent and reported by the service, and a status function in JavaScript has its  *)
(* user, unless calls for the key overlapped or failed. sensor_js.cpp:853 and 162, *)
(* ohos.sensor.impl.cpp:1442, cj_sensor_impl.cpp:208.                              *)
THEOREM AlwaysReaches == Spec => []Reaches
<1>1. IInv => Reaches
  BY IInvPromises
<1> QED BY <1>1, BindingsRight, BoundedIsFree, PTL

(* A sensor for which no table has a callback is not reported when no call for it  *)
(* is under way, and not subscribed unless a subscription stopped halfway.         *)
(* sensor_js.cpp:176-188 and 249-253.                                              *)
THEOREM AlwaysNothingLeft == Spec => []NothingLeft
<1>1. IInv => NothingLeft
  BY IInvPromises
<1> QED BY <1>1, BindingsRight, BoundedIsFree, PTL

(* A call that answers later is answered, whatever the agent returned: everything  *)
(* it can return is converted. sensor_napi_utils.cpp:510 and 641.                  *)
THEOREM AlwaysSettled == Spec => []Settled
<1>1. IInv => Settled
  BY IInvPromises
<1> QED BY <1>1, BindingsRight, BoundedIsFree, PTL

(* Of the sensors that the agent knew all through a call, everything the call is   *)
(* for is in its answer, and nothing is that the agent never knew meanwhile.       *)
(* sensor_js.cpp:1381-1705, ohos.sensor.impl.cpp:259-342 and 1961-2110.            *)
THEOREM AlwaysFound == Spec => []Found
<1>1. IInv => Found
  BY IInvPromises
<1> QED BY <1>1, BindingsRight, BoundedIsFree, PTL

(* With nothing queued, a status function takes those sensors to be there that     *)
(* are, but for the ones whose event was overwritten or not sent; and a data       *)
(* function has heard the last event. sensor_js.cpp:199-219,                       *)
(* sensor_napi_utils.cpp:571-639.                                                  *)
THEOREM AlwaysHeard == Spec => []Heard
<1>1. IInv => Heard
  BY IInvPromises
<1> QED BY <1>1, BindingsRight, BoundedIsFree, PTL
=============================================================================
