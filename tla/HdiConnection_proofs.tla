------------------------- MODULE HdiConnection_proofs -------------------------
(***************************************************************************)
(* The safety of the reconnection, for any sensors, rates, binder threads, *)
(* retries, crashes and errors: what the service believes is on is driven  *)
(* once the reconnections are over, and nothing else ever is.  And that of *)
(* the buffer which the callback that is registered again writes to, for   *)
(* every capacity and every set of events: its positions are consistent,   *)
(* the data thread never sleeps on an event, and it implements EventQueue. *)
(***************************************************************************)
EXTENDS HdiConnection, EventRing, SequenceTheorems, TLAPS

-----------------------------------------------------------------------------
(* The inductive invariant                                                 *)

\* The proxy, the death that is on its way, and the callback go together; a
\* process that is down drives nothing.
Link ==
    /\ iface = "live" => watched
    /\ iface = "stale" => deaths = 1 \/ (unnoticed /\ deaths = 0)
    /\ iface # "stale" => deaths = 0
    /\ iface = "null" => ~dataCb
    /\ iface = "live" /\ dataCb => hdi.listening
    /\ ~hdi.up => hdi.drives = [s \in Sensors |-> Off]

\* The map says what the service believes, but for a Disable that timed out.
Noted(s) ==
    /\ want[s].rate # None => info[s].rate = want[s].rate
    /\ want[s].on => want[s].rate # None /\ info[s].state
    /\ info[s].state => want[s].on \/ s \in excused
    /\ call.op = "Enable" /\ call.sensor = s => want[s].rate # None

\* The driver drives nothing else, and knows the rate of what only it would lose.
Driver(s) ==
    /\ hdi.drives[s].on => want[s].on \/ s \in excused
    /\ ~info[s].state /\ want[s].rate # None /\ s \notin unset =>
          hdi.drives[s].rate = want[s].rate

\* What the loop still has to do stays enabled, and only the driver can do anything
\* while there is something left.
Loop ==
    /\ \A s \in Sensors : s \in left \/ s = batched => info[s].state
    /\ left # {} \/ batched # None =>
          \E o \in Observers : At(o, "reenable")

\* What the loop is done with is as the service believes.
Driven(s) ==
    /\ s \notin left /\ s # batched /\ want[s].on => s \in excused \/ hdi.drives[s].on
    /\ s \notin left /\ want[s].rate # None =>
          s \in unset \/ hdi.drives[s].rate = want[s].rate

Underway ==
    \E o \in Observers :
        observer[o].stage \in {"connect", "register", "list", "fetch", "lock"}

\* Without a proxy someone is connecting; with one, someone will run the loop, or
\* it is running or has run.
Recovery ==
    ~gaveUp =>
        /\ iface = "null" => \E o \in Observers : At(o, "connect")
        /\ iface = "live" => Underway \/ \A s \in Sensors : Driven(s)

IInv ==
    /\ TypeOK
    /\ Link
    /\ \A s \in Sensors : Noted(s) /\ Driver(s)
    /\ Loop
    /\ Recovery

-----------------------------------------------------------------------------
(* What the actions have in common                                         *)

\* Going on to another stage is going there, and nobody else.
LEMMA Going ==
    ASSUME TypeOK, NEW o \in Observers, NEW st \in Stages, Go(o, st)
    PROVE  /\ observer' \in [Observers -> [stage : Stages, retry : 0 .. MaxRetry]]
           /\ \A q \in Observers : observer'[q].stage = IF q = o THEN st ELSE observer[q].stage
BY HdiAssumption DEF TypeOK, Go

\* A driver that fails stays within the bound.
LEMMA ErrorBound == TypeOK /\ Error => errors' \in 0 .. MaxErrors
BY HdiAssumption DEF TypeOK, Error

\* While the process lives GetHdiInterface replaces no proxy, and leaves a good one or
\* says so.
LEMMA GetHdiKeeps ==
    ASSUME IInv, NEW result \in BOOLEAN, GetHdiInterface(result), ~DiesMeanwhile
    PROVE  /\ hdi' \in [up : BOOLEAN, listening : BOOLEAN,
                        drives : [Sensors -> [on : BOOLEAN, rate : Rates \cup {None}]]]
           /\ hdi'.up = hdi.up /\ hdi'.drives = hdi.drives
           /\ iface' \in {"null", "live", "stale"}
           /\ iface # "null" => iface' = iface
           /\ iface' = "stale" => iface = "stale"
           /\ result => iface' # "null"
           /\ watched' \in BOOLEAN /\ dataCb' \in BOOLEAN
           /\ iface' = "live" => hdi'.up /\ watched'
           /\ watched' => iface' = "live"
           /\ iface' = "null" => ~dataCb'
           /\ iface' = "live" /\ dataCb' => hdi'.listening
           /\ errors' \in 0 .. MaxErrors
           /\ UNCHANGED <<deaths, unset, unnoticed, crashes>>
<1> USE DEF IInv, TypeOK, Link
<1>1. CASE UNCHANGED <<hdi, iface, watched, dataCb, errors>> /\ (result => iface # "null")
  BY <1>1 DEF GetHdiInterface
<1>2. CASE NewProxy
  <2>1. iface = "null" /\ hdi.up /\ iface' = "live" /\ watched' = TRUE /\ ~dataCb
    BY <1>2 DEF NewProxy
  <2>2. \/ hdi' = [hdi EXCEPT !.listening = TRUE] /\ dataCb' = TRUE
        \/ hdi' = hdi /\ dataCb' = dataCb
    BY <2>1 DEF GetHdiInterface, Connected, HalfConnected, RegisterAsync
  <2>3. errors' \in 0 .. MaxErrors /\ UNCHANGED <<deaths, unset, unnoticed, crashes>>
    BY <2>1, ErrorBound DEF GetHdiInterface
  <2>4. dataCb' => hdi'.listening
    BY <2>1, <2>2
  <2>5. /\ hdi' \in [up : BOOLEAN, listening : BOOLEAN,
                     drives : [Sensors -> [on : BOOLEAN, rate : Rates \cup {None}]]]
        /\ hdi'.up = hdi.up /\ hdi'.drives = hdi.drives
        /\ dataCb' \in BOOLEAN
    BY <2>2
  <2> QED BY <2>1, <2>3, <2>4, <2>5
<1> QED BY <1>1, <1>2 DEF GetHdiInterface, Connected, HalfConnected

\* Turning one sensor of the driver on or off, or setting its rate, leaves a driver.
LEMMA DriveTyped ==
    ASSUME TypeOK, NEW s \in Sensors,
           \/ hdi' = hdi
           \/ hdi' = [hdi EXCEPT !.drives[s] = Off]
           \/ hdi' = [hdi EXCEPT !.drives[s].on = TRUE]
           \/ \E rate \in Rates \cup {None} : hdi' = [hdi EXCEPT !.drives[s].rate = rate]
    PROVE  /\ hdi' \in [up : BOOLEAN, listening : BOOLEAN,
                        drives : [Sensors -> [on : BOOLEAN, rate : Rates \cup {None}]]]
           /\ hdi'.up = hdi.up /\ hdi'.listening = hdi.listening
<1>1. PICK d \in [Sensors -> [on : BOOLEAN, rate : Rates \cup {None}]] :
        hdi' = [hdi EXCEPT !.drives = d]
  <2> DEFINE D == hdi.drives
  <2>1. /\ D \in [Sensors -> [on : BOOLEAN, rate : Rates \cup {None}]]
        /\ [hdi EXCEPT !.drives = D] = hdi
    BY DEF TypeOK
  <2>2. /\ [D EXCEPT ![s] = Off] \in [Sensors -> [on : BOOLEAN, rate : Rates \cup {None}]]
        /\ [D EXCEPT ![s].on = TRUE] \in [Sensors -> [on : BOOLEAN, rate : Rates \cup {None}]]
        /\ \A rate \in Rates \cup {None} :
              [D EXCEPT ![s].rate = rate] \in [Sensors -> [on : BOOLEAN, rate : Rates \cup {None}]]
    BY <2>1 DEF Off
  <2>3. CASE hdi' = hdi
    BY <2>1, <2>3
  <2>4. CASE hdi' = [hdi EXCEPT !.drives[s] = Off]
    BY <2>2, <2>4
  <2>5. CASE hdi' = [hdi EXCEPT !.drives[s].on = TRUE]
    BY <2>2, <2>5
  <2>6. CASE \E rate \in Rates \cup {None} : hdi' = [hdi EXCEPT !.drives[s].rate = rate]
    BY <2>2, <2>6
  <2> QED BY <2>3, <2>4, <2>5, <2>6
<1> QED BY <1>1 DEF TypeOK

\* Whoever changes no belief, no entry and no drive keeps what is noted.
LEMMA Unheard ==
    ASSUME IInv, hdi'.drives = hdi.drives, UNCHANGED <<info, call, want, excused, unset>>
    PROVE  \A s \in Sensors : Noted(s)' /\ Driver(s)'
BY DEF IInv, Noted, Driver

\* Whoever leaves the loop alone keeps what is said of it.
LEMMA LoopAlone ==
    ASSUME IInv, UNCHANGED <<info, loopVars>>,
           \A o \in Observers : At(o, "reenable") => observer'[o].stage = observer[o].stage
    PROVE  Loop'
BY DEF IInv, Loop, loopVars, At

\* Whoever changes no belief and no drive keeps what is driven.
LEMMA DrivenAlone ==
    ASSUME hdi'.drives = hdi.drives, UNCHANGED <<loopVars, want, excused, unset>>
    PROVE  \A s \in Sensors : Driven(s) => Driven(s)'
BY DEF Driven, loopVars

-----------------------------------------------------------------------------
(* The driver process                                                      *)

\* The invariant holds at the start.
LEMMA InitIInv == Init => IInv
<1> SUFFICES ASSUME Init PROVE IInv
  OBVIOUS
<1> USE DEF Init, Off
<1>1. /\ hdi.up /\ hdi.listening /\ hdi.drives = [s \in Sensors |-> Off]
      /\ hdi \in [up : BOOLEAN, listening : BOOLEAN,
                 drives : [Sensors -> [on : BOOLEAN, rate : Rates \cup {None}]]]
  BY DEF FreshHdi
<1>2. observer \in [Observers -> [stage : Stages, retry : 0 .. MaxRetry]]
  BY HdiAssumption DEF Idle, Stages
<1>3. /\ info \in [Sensors -> [state : BOOLEAN, rate : Rates \cup {None}]]
      /\ want \in [Sensors -> [on : BOOLEAN, rate : Rates \cup {None}]]
  OBVIOUS
<1>4. TypeOK
  <2>1. deaths \in 0 .. MaxCrashes /\ crashes \in 0 .. MaxCrashes /\ errors \in 0 .. MaxErrors
    BY HdiAssumption
  <2>2. \A s \in Sensors : ~info[s].state
    OBVIOUS
  <2>3. /\ iface = "live" /\ watched = TRUE /\ dataCb = TRUE /\ gaveUp = FALSE /\ call = NoCall
        /\ left = {} /\ batched = None /\ excused = {} /\ unset = {} /\ unnoticed = FALSE
    OBVIOUS
  <2> HIDE DEF Init
  <2> QED BY <1>1, <1>2, <1>3, <2>1, <2>2, <2>3 DEF TypeOK
<1>5. Link
  BY <1>1 DEF Link
<1>6. \A s \in Sensors : Noted(s) /\ Driver(s)
  BY <1>1 DEF Noted, Driver, NoCall
<1>7. Loop
  BY HdiAssumption DEF Loop
<1>8. Recovery
  BY <1>1 DEF Recovery, Driven
<1> QED BY <1>4, <1>5, <1>6, <1>7, <1>8 DEF IInv

\* The driver process dies, whatever of it the service hears: it drives nothing any
\* more, and whoever it leaves with no proxy is connecting.
LEMMA DiesKeeps ==
    ASSUME IInv, Dies, iface' \in {"null", "stale"},
           iface' = "stale" => deaths' = 1 \/ (unnoticed' /\ deaths' = 0),
           iface' = "null" => deaths' = 0 /\ ~dataCb',
           iface' = "null" /\ ~gaveUp => \E o \in Observers : At(o, "connect")',
           dataCb' \in BOOLEAN, unnoticed' \in BOOLEAN,
           observer' \in [Observers -> [stage : Stages, retry : 0 .. MaxRetry]],
           \A o \in Observers : At(o, "reenable") => observer'[o].stage = observer[o].stage,
           UNCHANGED <<info, call, left, batched, want, excused, gaveUp, errors>>
    PROVE  IInv'
<1>1. /\ hdi.up /\ crashes < MaxCrashes /\ crashes' = crashes + 1
      /\ hdi' = [FreshHdi EXCEPT !.up = FALSE] /\ watched' = FALSE
      /\ unset' = unset \cup {s \in Sensors : want[s].rate # None /\ ~info[s].state}
  BY DEF Dies
<1>2. /\ hdi' \in [up : BOOLEAN, listening : BOOLEAN,
                   drives : [Sensors -> [on : BOOLEAN, rate : Rates \cup {None}]]]
      /\ hdi'.drives = [s \in Sensors |-> Off]
  BY <1>1 DEF FreshHdi, Off
<1>3. TypeOK'
  <2>1. crashes' \in 0 .. MaxCrashes /\ deaths' \in 0 .. MaxCrashes
    BY <1>1, HdiAssumption DEF IInv, TypeOK
  <2>2. unset' \subseteq Sensors
    BY <1>1 DEF IInv, TypeOK
  <2> QED BY <1>1, <1>2, <2>1, <2>2 DEF IInv, TypeOK
<1>4. Link'
  BY <1>1, <1>2 DEF Link
<1>5. ASSUME NEW s \in Sensors PROVE Noted(s)' /\ Driver(s)'
  BY <1>1, <1>2 DEF IInv, Noted, Driver, Off
<1>6. Loop'
  BY LoopAlone DEF loopVars
<1>7. Recovery'
  BY DEF Recovery
<1> QED BY <1>3, <1>4, <1>5, <1>6, <1>7 DEF IInv

\* The host process dies.
LEMMA CrashKeeps == IInv /\ Crash => IInv'
<1> SUFFICES ASSUME IInv, Crash PROVE IInv'
  OBVIOUS
<1>1. /\ Dies
      /\ iface' = IF iface = "live" THEN "stale" ELSE iface
      /\ deaths' = IF watched THEN deaths + 1 ELSE deaths
      /\ UNCHANGED <<dataCb, info, call, observer, left, batched, want, excused, gaveUp,
                     unnoticed, errors>>
  BY DEF Crash, loopVars
<1>2. /\ iface' \in {"null", "stale"}
      /\ iface' = "stale" => deaths' = 1 \/ (unnoticed' /\ deaths' = 0)
      /\ iface' = "null" => iface = "null" /\ deaths' = 0 /\ ~dataCb'
  <2>1. CASE iface = "live"
    <3>1. iface' = "stale" /\ deaths' = deaths + 1 /\ deaths = 0
      BY <1>1, <2>1 DEF IInv, Link
    <3> QED BY <3>1
  <2>2. CASE iface = "stale"
    <3>1. ~watched /\ iface' = "stale" /\ deaths' = deaths /\ unnoticed' = unnoticed
      BY <1>1, <2>2 DEF IInv, TypeOK
    <3> QED BY <2>2, <3>1, Zenon DEF IInv, Link
  <2>3. CASE iface = "null"
    <3>1. ~watched /\ iface' = "null" /\ deaths' = deaths /\ dataCb' = dataCb
      BY <1>1, <2>3 DEF IInv, TypeOK
    <3>2. deaths = 0 /\ ~dataCb
      BY <2>3 DEF IInv, Link
    <3> QED BY <2>3, <3>1, <3>2, Zenon
  <2> QED BY <2>1, <2>2, <2>3 DEF IInv, TypeOK
<1>3. /\ iface' = "null" /\ ~gaveUp => \E o \in Observers : At(o, "connect")'
      /\ dataCb' \in BOOLEAN /\ unnoticed' \in BOOLEAN
      /\ observer' \in [Observers -> [stage : Stages, retry : 0 .. MaxRetry]]
  BY <1>1, <1>2 DEF IInv, TypeOK, Recovery, At
<1> QED BY <1>1, <1>2, <1>3, DiesKeeps

\* The host process dies while someone connects to it: it was there to connect to.
LEMMA MeanwhileKeeps ==
    ASSUME IInv, DiesMeanwhile,
           observer' \in [Observers -> [stage : Stages, retry : 0 .. MaxRetry]],
           \A o \in Observers : At(o, "reenable") => observer'[o].stage = observer[o].stage,
           UNCHANGED <<info, call, left, batched, want, excused, gaveUp, errors>>
    PROVE  IInv'
<1>1. /\ Dies /\ iface' = "stale" /\ deaths = 0
      /\ \/ deaths' = deaths /\ unnoticed' = TRUE /\ dataCb' = dataCb
         \/ deaths' = deaths + 1 /\ dataCb' \in {dataCb, TRUE} /\ unnoticed' = unnoticed
  BY DEF DiesMeanwhile, IInv, Link
<1>2. /\ deaths' = 1 \/ (unnoticed' /\ deaths' = 0)
      /\ dataCb' \in BOOLEAN /\ unnoticed' \in BOOLEAN
  <2>1. deaths + 1 = 1 /\ dataCb \in BOOLEAN /\ unnoticed \in BOOLEAN
    BY <1>1 DEF IInv, TypeOK
  <2>2. CASE deaths' = deaths /\ unnoticed' = TRUE /\ dataCb' = dataCb
    BY <1>1, <2>1, <2>2, Zenon
  <2>3. CASE deaths' = deaths + 1 /\ dataCb' \in {dataCb, TRUE} /\ unnoticed' = unnoticed
    <3>1. dataCb' \in BOOLEAN
      BY <2>1, <2>3
    <3>2. unnoticed' \in BOOLEAN
      BY <2>1, <2>3, Zenon
    <3> QED BY <2>1, <2>3, <3>1, <3>2
  <2> QED BY <1>1, <2>2, <2>3
<1> QED BY <1>1, <1>2, DiesKeeps

\* The host process is started again.
LEMMA RestartKeeps == IInv /\ Restart => IInv'
<1> SUFFICES ASSUME IInv, Restart PROVE IInv'
  OBVIOUS
<1> USE DEF IInv, TypeOK
<1>1. /\ ~hdi.up /\ hdi' = FreshHdi
      /\ UNCHANGED <<iface, watched, dataCb, info, call, deaths, observer, left, batched, want,
                     excused, unset, gaveUp, unnoticed, crashes, errors>>
  BY DEF Restart, loopVars
<1>2. /\ hdi' \in [up : BOOLEAN, listening : BOOLEAN,
                   drives : [Sensors -> [on : BOOLEAN, rate : Rates \cup {None}]]]
      /\ hdi'.up /\ hdi'.drives = [s \in Sensors |-> Off] /\ hdi.drives = hdi'.drives
      /\ iface # "live"
  BY <1>1 DEF FreshHdi, Off, Link
<1>3. TypeOK'
  BY <1>1, <1>2
<1>4. Link'
  BY <1>1, <1>2 DEF Link
<1>5. \A s \in Sensors : Noted(s)' /\ Driver(s)'
  BY <1>1, <1>2, Unheard
<1>6. Loop'
  BY <1>1, LoopAlone DEF loopVars
<1>7. Recovery'
  BY <1>1, <1>2 DEF Recovery, At
<1> QED BY <1>3, <1>4, <1>5, <1>6, <1>7

-----------------------------------------------------------------------------
(* The service's calls                                                     *)

\* A call finds an interface to the host, or ends without one.
LEMMA InitCallKeeps ==
    ASSUME IInv, NEW s \in Sensors, NEW op, NEW rate, InitHdiInterface(op, s, rate),
           \/ op = "SetBatch" /\ rate \in Rates
           \/ op \in {"Enable", "Disable"} /\ rate = None
    PROVE  IInv'
<1>1. PICK result \in BOOLEAN :
        /\ GetHdiInterface(result)
        /\ call' = IF result
                   THEN [op |-> op, sensor |-> s, rate |-> rate] ELSE call
  BY DEF InitHdiInterface
<1>2. /\ call = NoCall /\ Ordered(op, s)
      /\ UNCHANGED <<info, observer, left, batched, want, excused, gaveUp>>
  BY DEF InitHdiInterface, loopVars
<1>d. CASE DiesMeanwhile
  <2>1. ~result /\ errors' = errors
    BY <1>1, <1>d DEF GetHdiInterface, Connected, HalfConnected, NewProxy, DiesMeanwhile
  <2>2. observer' \in [Observers -> [stage : Stages, retry : 0 .. MaxRetry]]
    BY <1>2 DEF IInv, TypeOK
  <2> QED BY <1>1, <1>2, <1>d, <2>1, <2>2, MeanwhileKeeps
<1> SUFFICES ASSUME ~DiesMeanwhile PROVE IInv'
  BY <1>d
<1>3. TypeOK'
  BY <1>1, <1>2, GetHdiKeeps DEF IInv, TypeOK
<1>4. Link'
  BY <1>1, <1>2, GetHdiKeeps DEF IInv, Link, TypeOK
<1>5. ASSUME NEW t \in Sensors PROVE Noted(t)' /\ Driver(t)'
  <2>1. hdi'.drives = hdi.drives
    BY <1>1, GetHdiKeeps
  <2>2. call'.op = "Enable" /\ call'.sensor = t => want[t].rate # None
    BY <1>1, <1>2 DEF Ordered, NoCall
  <2> QED BY <1>1, <1>2, <2>1, <2>2, GetHdiKeeps DEF IInv, Noted, Driver
<1>6. Loop'
  BY <1>2, LoopAlone DEF loopVars
<1>7. Recovery'
  <2>1. hdi'.drives = hdi.drives /\ (iface # "null" => iface' = iface)
    BY <1>1, GetHdiKeeps
  <2>2. \A t \in Sensors : Driven(t) => Driven(t)'
    BY <1>1, <1>2, <2>1, GetHdiKeeps, DrivenAlone DEF loopVars
  <2> QED BY <1>2, <2>1, <2>2 DEF IInv, Recovery, Underway, At
<1> QED BY <1>3, <1>4, <1>5, <1>6, <1>7 DEF IInv

\* A call of the driver.  What it may change is one sensor's, outside of the loop.
LEMMA CallKeeps == IInv /\ Call => IInv'
<1> SUFFICES ASSUME IInv, Call PROVE IInv'
  OBVIOUS
<1> DEFINE s == call.sensor
           HdiType == [up : BOOLEAN, listening : BOOLEAN,
                       drives : [Sensors -> [on : BOOLEAN, rate : Rates \cup {None}]]]
           InfoType == {f \in [Sensors -> [state : BOOLEAN, rate : Rates \cup {None}]] :
                          \A t \in Sensors : f[t].state => f[t].rate # None}
<1>1. /\ call # NoCall /\ InterfaceFree /\ call' = NoCall
      /\ UNCHANGED <<iface, watched, dataCb, deaths, observer, left, batched, gaveUp, unnoticed,
                     crashes>>
  BY DEF Call, loopVars
<1>2. /\ s \in Sensors /\ None \notin Rates
      /\ call.op = "SetBatch" => call.rate \in Rates
      /\ NoCall.op = "none" /\ info \in InfoType
  BY <1>1, HdiAssumption DEF IInv, TypeOK, NoCall
<1>3. left = {} /\ batched = None
  BY <1>1 DEF IInv, Loop, InterfaceFree
<1>4. Loop'
  BY <1>1, <1>3, HdiAssumption DEF Loop
<1>5. ASSUME hdi' \in HdiType, hdi'.up = hdi.up, hdi'.listening = hdi.listening,
             info' \in InfoType, errors' \in 0 .. MaxErrors,
             want' \in [Sensors -> [on : BOOLEAN, rate : Rates \cup {None}]],
             excused' \subseteq Sensors, unset' \subseteq Sensors,
             iface = "live" \/ hdi' = hdi
      PROVE  TypeOK' /\ Link'
  BY <1>1, <1>5 DEF IInv, TypeOK, Link
<1>6. ASSUME iface = "live" => \A t \in Sensors : Driven(t) => Driven(t)'
      PROVE  Recovery'
  BY <1>1, <1>6 DEF IInv, Recovery, Underway, At
<1>7. /\ hdi \in HdiType /\ errors \in 0 .. MaxErrors
      /\ want \in [Sensors -> [on : BOOLEAN, rate : Rates \cup {None}]]
      /\ excused \subseteq Sensors /\ unset \subseteq Sensors
  BY DEF IInv, TypeOK
<1>8. CASE iface = "live" /\ call.op = "SetBatch" /\ SetBatch(s, call.rate)
  <2>1. /\ hdi' = [hdi EXCEPT !.drives[s].rate = call.rate]
        /\ info' = [info EXCEPT ![s].rate = call.rate]
        /\ want' = [want EXCEPT ![s].rate = call.rate]
        /\ unset' = unset \ {s} /\ excused' = excused /\ errors' = errors
    BY <1>8 DEF SetBatch, UpdateSensorBasicInfo
  <2>2. hdi' \in HdiType /\ hdi'.up = hdi.up /\ hdi'.listening = hdi.listening
    BY <1>2, <1>8, <2>1, DriveTyped DEF IInv
  <2>3. /\ info' \in InfoType
        /\ want' \in [Sensors -> [on : BOOLEAN, rate : Rates \cup {None}]]
    BY <1>2, <1>7, <1>8, <2>1
  <2>4. TypeOK' /\ Link'
    BY <1>5, <1>7, <1>8, <2>1, <2>2, <2>3
  <2>5. ASSUME NEW t \in Sensors
        PROVE  Noted(t)' /\ Driver(t)' /\ (Driven(t) => Driven(t)')
    BY <1>1, <1>2, <1>3, <1>7, <1>8, <2>1 DEF IInv, Noted, Driver, Driven
  <2> QED BY <1>4, <1>6, <2>4, <2>5 DEF IInv
<1>9. CASE iface = "live" /\ call.op = "Enable" /\ EnableSensor(s)
  <2>1. /\ hdi' = [hdi EXCEPT !.drives[s].on = TRUE]
        /\ info' = [info EXCEPT ![s].state = info[s].rate # None]
        /\ want' = [want EXCEPT ![s].on = TRUE]
        /\ unset' = unset /\ excused' = excused \ {s} /\ errors' = errors
    BY <1>9 DEF EnableSensor, SetSensorBasicInfoState
  <2>2. hdi' \in HdiType /\ hdi'.up = hdi.up /\ hdi'.listening = hdi.listening
    BY <1>2, <2>1, DriveTyped DEF IInv
  <2>3. want[s].rate # None /\ info[s].rate = want[s].rate
    BY <1>2, <1>9 DEF IInv, Noted
  <2>4. info' = [info EXCEPT ![s].state = TRUE]
    <3>1. (info[s].rate # None) = TRUE
      BY <2>3
    <3> QED BY <2>1, <3>1
  <2>5. /\ info' \in InfoType
        /\ want' \in [Sensors -> [on : BOOLEAN, rate : Rates \cup {None}]]
    <3>1. PICK e \in [state : BOOLEAN, rate : Rates \cup {None}] :
            info' = [info EXCEPT ![s] = e] /\ e.rate # None
      <4>1. [info[s] EXCEPT !.state = TRUE] \in [state : BOOLEAN, rate : Rates \cup {None}]
        BY <1>2
      <4> QED BY <1>2, <2>3, <2>4, <4>1
    <3>2. info' \in InfoType
      BY <1>2, <3>1
    <3>3. want' \in [Sensors -> [on : BOOLEAN, rate : Rates \cup {None}]]
      BY <1>7, <2>1
    <3> QED BY <3>2, <3>3
  <2>6. TypeOK' /\ Link'
    BY <1>5, <1>7, <1>9, <2>1, <2>2, <2>5
  <2>7. ASSUME NEW t \in Sensors
        PROVE  Noted(t)' /\ Driver(t)' /\ (Driven(t) => Driven(t)')
    BY <1>1, <1>2, <1>3, <1>7, <2>1, <2>3, <2>4 DEF IInv, Noted, Driver, Driven
  <2> QED BY <1>4, <1>6, <2>6, <2>7 DEF IInv
<1>10. CASE iface = "live" /\ call.op = "Disable" /\ DisableSensor(s)
  <2>1. /\ hdi' = [hdi EXCEPT !.drives[s] = Off]
        /\ info' = [info EXCEPT ![s] = [state |-> FALSE, rate |-> None]]
        /\ want' = [want EXCEPT ![s] = Off]
        /\ unset' = unset /\ excused' = excused \ {s} /\ errors' = errors
    BY <1>10 DEF DisableSensor, DeleteSensorBasicInfoState
  <2>2. hdi' \in HdiType /\ hdi'.up = hdi.up /\ hdi'.listening = hdi.listening
    BY <1>2, <2>1, DriveTyped DEF IInv
  <2>3. /\ info' \in InfoType
        /\ want' \in [Sensors -> [on : BOOLEAN, rate : Rates \cup {None}]]
    BY <1>2, <1>7, <2>1 DEF Off
  <2>4. TypeOK' /\ Link'
    BY <1>5, <1>7, <1>10, <2>1, <2>2, <2>3
  <2>5. ASSUME NEW t \in Sensors
        PROVE  Noted(t)' /\ Driver(t)' /\ (Driven(t) => Driven(t)')
    BY <1>1, <1>2, <1>3, <1>7, <2>1 DEF IInv, Noted, Driver, Driven, Off
  <2> QED BY <1>4, <1>6, <2>4, <2>5 DEF IInv
<1>11. CASE iface = "live" /\ call.op = "Disable" /\ DisableTimeout(s)
  <2>1. /\ hdi' \in {hdi, [hdi EXCEPT !.drives[s] = Off]} /\ info' = info
        /\ want' = [want EXCEPT ![s] = Off]
        /\ unset' = unset /\ excused' = excused \cup {s}
    BY <1>11 DEF DisableTimeout
  <2>2. hdi' \in HdiType /\ hdi'.up = hdi.up /\ hdi'.listening = hdi.listening
    BY <1>2, <2>1, DriveTyped DEF IInv
  <2>3. want' \in [Sensors -> [on : BOOLEAN, rate : Rates \cup {None}]]
    BY <1>2, <1>7, <2>1 DEF Off
  <2>4. errors' \in 0 .. MaxErrors
    BY <1>11, ErrorBound DEF DisableTimeout, IInv
  <2>5. TypeOK' /\ Link'
    BY <1>2, <1>5, <1>7, <1>11, <2>1, <2>2, <2>3, <2>4
  <2>6. ASSUME NEW t \in Sensors
        PROVE  Noted(t)' /\ Driver(t)' /\ (Driven(t) => Driven(t)')
    BY <1>1, <1>2, <1>3, <1>7, <2>1 DEF IInv, Noted, Driver, Driven, Off
  <2> QED BY <1>4, <1>6, <2>5, <2>6 DEF IInv
<1>12. CASE errors' \in 0 .. MaxErrors /\ UNCHANGED <<hdi, info, want, excused, unset>>
  <2>1. TypeOK' /\ Link'
    BY <1>2, <1>5, <1>7, <1>12
  <2>2. ASSUME NEW t \in Sensors
        PROVE  Noted(t)' /\ Driver(t)' /\ (Driven(t) => Driven(t)')
    BY <1>1, <1>2, <1>12 DEF IInv, Noted, Driver, Driven
  <2> QED BY <1>4, <1>6, <2>1, <2>2 DEF IInv
<1>13. Error \/ errors' = errors => errors' \in 0 .. MaxErrors
  BY <1>7, ErrorBound DEF IInv
<1> QED BY <1>8, <1>9, <1>10, <1>11, <1>12, <1>13 DEF Call

-----------------------------------------------------------------------------
(* The death of the driver process                                         *)

\* Whoever only goes on from a stage that is not the loop's, without touching what the
\* driver does or the proxy that is there, keeps all but the recovery.
LEMMA GoingKeeps ==
    ASSUME IInv, NEW o \in Observers, NEW st \in Stages, Go(o, st),
           ~At(o, "reenable"), gaveUp' \in BOOLEAN,
           errors' \in 0 .. MaxErrors,
           UNCHANGED <<hdi, iface, watched, dataCb, info, call, deaths, left, batched, want,
                       excused, unset, unnoticed, crashes>>
    PROVE  /\ TypeOK' /\ Link' /\ Loop'
           /\ \A s \in Sensors : Noted(s)' /\ Driver(s)'
<1>1. /\ observer' \in [Observers -> [stage : Stages, retry : 0 .. MaxRetry]]
      /\ \A q \in Observers : observer'[q].stage = IF q = o THEN st ELSE observer[q].stage
  BY Going DEF IInv
<1>2. TypeOK' /\ Link'
  BY <1>1 DEF IInv, TypeOK, Link
<1>3. Loop'
  BY <1>1, LoopAlone DEF loopVars, At
<1>4. \A s \in Sensors : Noted(s)' /\ Driver(s)'
  BY Unheard
<1> QED BY <1>2, <1>3, <1>4

\* An observer hears that the host died.
LEMMA DeathKeeps ==
    ASSUME IInv, NEW o \in Observers, ProcessDeathObserver(o)
    PROVE  IInv'
<1>1. /\ deaths > 0 /\ At(o, "idle") /\ deaths' = deaths - 1
      /\ iface' = "null" /\ watched' = FALSE /\ dataCb' = FALSE /\ Go(o, "connect")
      /\ UNCHANGED <<hdi, info, call, left, batched, want, excused, unset, gaveUp, unnoticed,
                     crashes, errors>>
  BY DEF ProcessDeathObserver, Forget, loopVars
<1>2. /\ observer' \in [Observers -> [stage : Stages, retry : 0 .. MaxRetry]]
      /\ \A q \in Observers :
            observer'[q].stage = IF q = o THEN "connect" ELSE observer[q].stage
  BY <1>1, Going DEF IInv, Stages
<1>3. deaths = 1 /\ deaths' = 0
  BY <1>1 DEF IInv, Link
<1>4. TypeOK'
  <2>1. deaths' \in 0 .. MaxCrashes
    BY <1>3, HdiAssumption
  <2> QED BY <1>1, <1>2, <2>1 DEF IInv, TypeOK
<1>5. Link'
  BY <1>1, <1>3 DEF IInv, Link
<1>6. \A s \in Sensors : Noted(s)' /\ Driver(s)'
  BY <1>1, Unheard
<1>7. Loop'
  BY <1>1, <1>2, LoopAlone DEF loopVars, At
<1>8. Recovery'
  BY <1>1, <1>2 DEF Recovery, At
<1> QED BY <1>4, <1>5, <1>6, <1>7, <1>8 DEF IInv

\* GetHdiInterface, called by a binder thread that is not in the loop: someone stays
\* under way, for without a proxy someone was at "connect" already.
LEMMA ConnectingKeeps ==
    ASSUME IInv, NEW o \in Observers, NEW result \in BOOLEAN, GetHdiInterface(result),
           ~At(o, "reenable"),
           observer' \in [Observers -> [stage : Stages, retry : 0 .. MaxRetry]],
           \A q \in Observers : q # o => observer'[q].stage = observer[q].stage,
           \/ observer'[o].stage \in {"connect", "register", "fetch"}
           \/ observer'[o].stage = "idle" /\ ~result /\ At(o, "list"),
           At(o, "connect") => result \/ observer'[o].stage = "connect",
           UNCHANGED <<info, call, left, batched, want, excused, gaveUp>>
    PROVE  IInv'
<1>d. CASE DiesMeanwhile
  <2>1. errors' = errors
    BY <1>d DEF GetHdiInterface, Connected, HalfConnected, NewProxy, DiesMeanwhile
  <2> QED BY <1>d, <2>1, MeanwhileKeeps DEF At
<1> SUFFICES ASSUME ~DiesMeanwhile PROVE IInv'
  BY <1>d
<1>1. TypeOK'
  BY GetHdiKeeps DEF IInv, TypeOK
<1>2. Link'
  BY GetHdiKeeps DEF IInv, Link, TypeOK
<1>3. \A s \in Sensors : Noted(s)' /\ Driver(s)'
  BY GetHdiKeeps, Unheard
<1>4. Loop'
  BY LoopAlone DEF loopVars, At
<1>5. Recovery'
  <2> SUFFICES ASSUME ~gaveUp PROVE Recovery'
    BY DEF Recovery
  <2>1. iface' = "null" => \E q \in Observers : At(q, "connect")'
    BY GetHdiKeeps DEF IInv, Recovery, At
  <2>2. CASE observer'[o].stage \in {"connect", "register", "fetch"}
    BY <2>1, <2>2 DEF Recovery, Underway
  <2>3. CASE observer'[o].stage = "idle" /\ ~result /\ At(o, "list")
    <3>1. \A s \in Sensors : Driven(s) => Driven(s)'
      BY GetHdiKeeps, DrivenAlone DEF loopVars
    <3>2. CASE iface = "null"
      BY <2>1, <2>3, <3>2 DEF IInv, Recovery, Underway, At
    <3>3. CASE iface # "null"
      <4>1. GetHdiInterface(result) /\ ~result /\ iface # "null" => FALSE
        BY DEF GetHdiInterface, HalfConnected, Connected, NewProxy, DiesMeanwhile
      <4> QED BY <2>3, <3>3, <4>1
    <3> QED BY <3>2, <3>3
  <2> QED BY <2>2, <2>3
<1> QED BY <1>1, <1>2, <1>3, <1>4, <1>5 DEF IInv

\* An observer connects to the host again.
LEMMA ConnectHdiKeeps ==
    ASSUME IInv, NEW o \in Observers, ConnectHdi(o)
    PROVE  IInv'
<1>1. PICK result \in BOOLEAN :
        /\ GetHdiInterface(result)
        /\ IF result THEN Go(o, "register")
           ELSE observer' = [observer EXCEPT ![o].retry = @ + 1]
  BY DEF ConnectHdi
<1>2. /\ At(o, "connect") /\ observer[o].retry < MaxRetry
      /\ UNCHANGED <<info, call, left, batched, want, excused, gaveUp>>
  BY DEF ConnectHdi, MayRetry, loopVars
<1>3. /\ observer' \in [Observers -> [stage : Stages, retry : 0 .. MaxRetry]]
      /\ \A q \in Observers : q # o => observer'[q].stage = observer[q].stage
      /\ observer'[o].stage = IF result THEN "register" ELSE "connect"
  <2>1. CASE result
    BY <1>1, <2>1, Going DEF IInv, Stages
  <2>2. CASE ~result
    <3>1. observer[o].retry + 1 \in 0 .. MaxRetry
      BY <1>2, HdiAssumption DEF IInv, TypeOK
    <3>2. observer' = [observer EXCEPT ![o].retry = observer[o].retry + 1]
      BY <1>1, <2>2
    <3> QED BY <1>2, <2>2, <3>1, <3>2 DEF IInv, TypeOK, At
  <2> QED BY <2>1, <2>2
<1> QED BY <1>1, <1>2, <1>3, ConnectingKeeps DEF At

\* An observer finds an interface to ask for the list, or ends without one.
LEMMA InitForListKeeps ==
    ASSUME IInv, NEW o \in Observers, InitForList(o)
    PROVE  IInv'
<1>1. PICK result \in BOOLEAN :
        GetHdiInterface(result) /\ Go(o, IF result THEN "fetch" ELSE "idle")
  BY DEF InitForList
<1>2. /\ At(o, "list")
      /\ UNCHANGED <<info, call, left, batched, want, excused, gaveUp>>
  BY DEF InitForList, loopVars
<1>3. /\ observer' \in [Observers -> [stage : Stages, retry : 0 .. MaxRetry]]
      /\ \A q \in Observers : q # o => observer'[q].stage = observer[q].stage
      /\ observer'[o].stage = IF result THEN "fetch" ELSE "idle"
  BY <1>1, Going DEF IInv, Stages
<1> QED BY <1>1, <1>2, <1>3, ConnectingKeeps DEF At

\* An observer gives up after its last retry.
LEMMA RetriesKeeps ==
    ASSUME IInv, NEW o \in Observers, RetriesExhausted(o)
    PROVE  IInv'
<1>1. /\ At(o, "connect") /\ Go(o, "idle") /\ gaveUp' = TRUE
      /\ UNCHANGED <<hdi, iface, watched, dataCb, info, call, deaths, left, batched, want,
                     excused, unset, unnoticed, crashes, errors>>
  BY DEF RetriesExhausted, loopVars
<1>2. ~At(o, "reenable") /\ errors' \in 0 .. MaxErrors
  BY <1>1 DEF IInv, TypeOK, At
<1>3. Recovery'
  BY <1>1 DEF Recovery
<1> QED BY <1>1, <1>2, <1>3, GoingKeeps DEF IInv, Stages

\* An observer registers its callback again.
LEMMA ReRegisterKeeps ==
    ASSUME IInv, NEW o \in Observers, ReRegister(o)
    PROVE  IInv'
<1>1. /\ At(o, "register")
      /\ UNCHANGED <<iface, watched, info, call, deaths, left, batched, want, excused, unset,
                     unnoticed, crashes>>
  BY DEF ReRegister, loopVars
<1>2. \/ /\ iface = "live" /\ hdi' = [hdi EXCEPT !.listening = TRUE] /\ dataCb' = TRUE
         /\ Go(o, "list") /\ UNCHANGED <<gaveUp, errors>>
      \/ /\ iface = "live" /\ Error /\ Go(o, "idle") /\ gaveUp' = TRUE
         /\ \/ hdi' = [hdi EXCEPT !.listening = TRUE] /\ dataCb' = TRUE
            \/ UNCHANGED <<hdi, dataCb>>
      \/ iface # "live" /\ Go(o, "idle") /\ UNCHANGED <<hdi, dataCb, gaveUp, errors>>
  BY DEF ReRegister, RegisterAsync
<1>3. PICK st \in {"list", "idle"} :
        /\ Go(o, st) /\ (st = "idle" => gaveUp' \/ iface # "live")
        /\ gaveUp' \in BOOLEAN /\ (gaveUp => gaveUp')
  BY <1>2 DEF IInv, TypeOK
<1>4. /\ observer' \in [Observers -> [stage : Stages, retry : 0 .. MaxRetry]]
      /\ \A q \in Observers : observer'[q].stage = IF q = o THEN st ELSE observer[q].stage
  BY <1>3, Going DEF IInv, Stages
<1>5. /\ hdi' \in [up : BOOLEAN, listening : BOOLEAN,
                   drives : [Sensors -> [on : BOOLEAN, rate : Rates \cup {None}]]]
      /\ hdi'.up = hdi.up /\ hdi'.drives = hdi.drives
      /\ (hdi' = hdi /\ dataCb' = dataCb) \/ (iface = "live" /\ hdi'.listening)
      /\ dataCb' \in BOOLEAN
  <2>1. CASE hdi' = [hdi EXCEPT !.listening = TRUE] /\ dataCb' = TRUE /\ iface = "live"
    BY <2>1 DEF IInv, TypeOK
  <2>2. CASE UNCHANGED <<hdi, dataCb>>
    BY <2>2 DEF IInv, TypeOK
  <2> QED BY <1>2, <2>1, <2>2
<1>6. errors' \in 0 .. MaxErrors
  BY <1>2, ErrorBound DEF IInv, TypeOK
<1>7. TypeOK' /\ Link'
  BY <1>1, <1>3, <1>4, <1>5, <1>6 DEF IInv, TypeOK, Link
<1>8. \A s \in Sensors : Noted(s)' /\ Driver(s)'
  BY <1>1, <1>5, Unheard
<1>9. Loop'
  BY <1>1, <1>4, LoopAlone DEF loopVars, At
<1>10. Recovery'
  BY <1>1, <1>3, <1>4 DEF IInv, Recovery, Underway, At
<1> QED BY <1>7, <1>8, <1>9, <1>10 DEF IInv

\* An observer asks for the list of the sensors and goes on, or fails.
LEMMA GetSensorListKeeps ==
    ASSUME IInv, NEW o \in Observers, GetSensorList(o)
    PROVE  IInv'
<1>1. /\ At(o, "fetch")
      /\ UNCHANGED <<hdi, iface, watched, dataCb, info, call, deaths, left, batched, want,
                     excused, unset, unnoticed, crashes>>
  BY DEF GetSensorList, loopVars
<1>2. PICK st \in {"lock", "idle"} :
        /\ Go(o, st) /\ (st = "idle" => gaveUp' \/ iface # "live")
        /\ gaveUp' \in BOOLEAN /\ (gaveUp => gaveUp')
  <2>1. gaveUp \in BOOLEAN
    BY DEF IInv, TypeOK
  <2>2. CASE iface = "live" /\ Go(o, "lock") /\ gaveUp' = gaveUp
    BY <2>1, <2>2
  <2>3. CASE Go(o, "idle") /\ gaveUp' = TRUE
    BY <2>3
  <2>4. CASE iface # "live" /\ Go(o, "idle") /\ gaveUp' = gaveUp
    BY <2>1, <2>4
  <2> QED BY <2>2, <2>3, <2>4 DEF GetSensorList
<1>3. errors' \in 0 .. MaxErrors
  BY ErrorBound DEF GetSensorList, IInv, TypeOK
<1>4. ~At(o, "reenable") /\ st \in Stages
  BY <1>1 DEF At, Stages
<1>5. \A q \in Observers : observer'[q].stage = IF q = o THEN st ELSE observer[q].stage
  BY <1>2, <1>4, Going DEF IInv
<1>6. Recovery'
  BY <1>1, <1>2, <1>5 DEF IInv, Recovery, Underway, At, Driven
<1> QED BY <1>1, <1>2, <1>3, <1>4, <1>6, GoingKeeps DEF IInv

-----------------------------------------------------------------------------
(* The loop                                                                *)

\* The loop begins with everything that is enabled still to do, so what it is done
\* with at once is off.
LEMMA ReEnableSensorKeeps ==
    ASSUME IInv, NEW o \in Observers, ReEnableSensor(o)
    PROVE  IInv'
<1>1. /\ At(o, "lock") /\ InterfaceFree
      /\ UNCHANGED <<hdi, iface, watched, dataCb, info, call, deaths, batched, want, excused,
                     unset, unnoticed, crashes, errors>>
  BY DEF ReEnableSensor
<1>2. left = {} /\ batched = None
  BY <1>1 DEF IInv, Loop, InterfaceFree
<1>3. ~At(o, "reenable") /\ errors' \in 0 .. MaxErrors
  BY <1>1 DEF At, IInv, TypeOK
<1>4. CASE iface # "null" /\ Go(o, "reenable") /\ left' = Enabled
           /\ gaveUp' = (gaveUp /\ iface # "live")
  <2>1. /\ observer' \in [Observers -> [stage : Stages, retry : 0 .. MaxRetry]]
        /\ \A q \in Observers :
              observer'[q].stage = IF q = o THEN "reenable" ELSE observer[q].stage
    BY <1>4, Going DEF IInv, Stages
  <2>2. left' \subseteq Sensors /\ gaveUp' \in BOOLEAN
    BY <1>4 DEF Enabled
  <2>3. TypeOK' /\ Link'
    BY <1>1, <2>1, <2>2 DEF IInv, TypeOK, Link
  <2>4. \A s \in Sensors : Noted(s)' /\ Driver(s)'
    BY <1>1, Unheard
  <2>5. Loop'
    BY <1>1, <1>2, <1>4, <2>1, HdiAssumption DEF Loop, Enabled, At
  <2>6. ASSUME NEW s \in Sensors, iface = "live" PROVE Driven(s)'
    <3>1. CASE s \in left'
      BY <1>1, <1>2, <2>6, <3>1, HdiAssumption DEF Driven
    <3>2. CASE s \notin left'
      <4>1. ~info[s].state /\ Noted(s) /\ Driver(s)
        BY <1>4, <3>2 DEF Enabled, IInv
      <4> QED BY <1>1, <2>6, <4>1 DEF Driven, Noted, Driver
    <3> QED BY <3>1, <3>2
  <2>7. Recovery'
    BY <1>1, <1>4, <2>6 DEF Recovery
  <2> QED BY <2>3, <2>4, <2>5, <2>7 DEF IInv
<1>5. CASE iface = "null" /\ Go(o, "idle") /\ UNCHANGED <<left, gaveUp>>
  <2>1. \A q \in Observers : observer'[q].stage = IF q = o THEN "idle" ELSE observer[q].stage
    BY <1>5, Going DEF IInv, Stages
  <2>2. Recovery'
    BY <1>1, <1>5, <2>1 DEF IInv, Recovery, At
  <2>3. gaveUp' \in BOOLEAN
    BY <1>5 DEF IInv, TypeOK
  <2> QED BY <1>1, <1>3, <1>5, <2>2, <2>3, GoingKeeps DEF IInv, Stages
<1> QED BY <1>4, <1>5 DEF ReEnableSensor

\* The rate of an entry is the one the service set last.
LEMMA ReSetBatchKeeps ==
    ASSUME IInv, NEW o \in Observers, NEW s \in Sensors, ReSetBatch(o, s)
    PROVE  IInv'
<1>1. /\ At(o, "reenable") /\ batched = None /\ s \in left
      /\ left' = left \ {s}
      /\ UNCHANGED <<iface, watched, dataCb, info, call, deaths, observer, want, gaveUp,
                     unnoticed, crashes>>
  BY DEF ReSetBatch
<1>2. info[s].state /\ info[s].rate \in Rates \cup {None} /\ None \notin Sensors
  BY <1>1, HdiAssumption DEF IInv, Loop, TypeOK
<1>3. CASE /\ iface = "live" /\ batched' = s
           /\ hdi' = [hdi EXCEPT !.drives[s].rate = info[s].rate]
           /\ unset' = unset \ {s}
           /\ UNCHANGED <<excused, errors>>
  <2>1. /\ hdi' \in [up : BOOLEAN, listening : BOOLEAN,
                     drives : [Sensors -> [on : BOOLEAN, rate : Rates \cup {None}]]]
        /\ hdi'.up = hdi.up /\ hdi'.listening = hdi.listening
    BY <1>2, <1>3, DriveTyped DEF IInv
  <2>2. \A t \in Sensors : /\ hdi'.drives[t].on = hdi.drives[t].on
                           /\ t # s => hdi'.drives[t] = hdi.drives[t]
                           /\ t = s => hdi'.drives[t].rate = info[s].rate
    BY <1>3 DEF IInv, TypeOK
  <2>3. TypeOK'
    BY <1>1, <1>3, <2>1 DEF IInv, TypeOK
  <2>4. Link'
    BY <1>1, <1>3, <2>1 DEF IInv, TypeOK, Link
  <2>5. ASSUME NEW t \in Sensors PROVE Noted(t)' /\ Driver(t)'
    BY <1>1, <1>2, <1>3, <2>2 DEF IInv, Noted, Driver
  <2>6. Loop'
    BY <1>1, <1>2, <1>3 DEF IInv, Loop, At
  <2>7. ASSUME NEW t \in Sensors, Driven(t) PROVE Driven(t)'
    <3>1. CASE t = s
      BY <1>1, <1>3, <2>2, <3>1 DEF IInv, Noted, Driven
    <3>2. CASE t # s
      BY <1>1, <1>2, <1>3, <2>2, <2>7, <3>2 DEF Driven
    <3> QED BY <3>1, <3>2
  <2>8. Recovery'
    BY <1>1, <2>7 DEF IInv, Recovery, Underway, At
  <2> QED BY <2>3, <2>4, <2>5, <2>6, <2>8 DEF IInv
<1>4. CASE /\ UNCHANGED <<hdi, batched>> /\ errors' \in 0 .. MaxErrors
           /\ \/ iface = "live" /\ excused' = excused \cup {s} /\ unset' = unset \cup {s}
              \/ iface # "live" /\ UNCHANGED <<excused, unset>>
  <2>1. TypeOK'
    BY <1>1, <1>4 DEF IInv, TypeOK
  <2>2. Link'
    BY <1>1, <1>4 DEF IInv, Link
  <2>3. ASSUME NEW t \in Sensors PROVE Noted(t)' /\ Driver(t)'
    BY <1>1, <1>4 DEF IInv, Noted, Driver
  <2>4. Loop'
    BY <1>1, <1>2, <1>4 DEF IInv, Loop, At
  <2>5. iface = "live" => \A t \in Sensors : Driven(t) => Driven(t)'
    BY <1>1, <1>4 DEF Driven
  <2>6. Recovery'
    BY <1>1, <2>5 DEF IInv, Recovery, Underway, At
  <2> QED BY <2>1, <2>2, <2>3, <2>4, <2>6 DEF IInv
<1>5. Error \/ errors' = errors => errors' \in 0 .. MaxErrors
  BY ErrorBound DEF IInv, TypeOK
<1> QED BY <1>3, <1>4, <1>5 DEF ReSetBatch

\* What is enabled again is what the service believes is on, but for a Disable that
\* timed out.
LEMMA ReEnableKeeps ==
    ASSUME IInv, NEW o \in Observers, NEW s \in Sensors, ReEnable(o, s)
    PROVE  IInv'
<1>1. /\ At(o, "reenable") /\ batched = s /\ batched' = None
      /\ UNCHANGED <<iface, watched, dataCb, info, call, deaths, observer, left, want, unset,
                     gaveUp, unnoticed, crashes>>
  BY DEF ReEnable
<1>2. info[s].state /\ None \notin Sensors
  BY <1>1, HdiAssumption DEF IInv, Loop
<1>3. Loop'
  BY <1>1, <1>2 DEF IInv, Loop, At
<1>4. CASE /\ iface = "live" /\ hdi' = [hdi EXCEPT !.drives[s].on = TRUE]
           /\ excused' = IF want[s].on THEN excused \ {s} ELSE excused
           /\ UNCHANGED errors
  <2>1. /\ hdi' \in [up : BOOLEAN, listening : BOOLEAN,
                     drives : [Sensors -> [on : BOOLEAN, rate : Rates \cup {None}]]]
        /\ hdi'.up = hdi.up /\ hdi'.listening = hdi.listening
    BY <1>4, DriveTyped DEF IInv
  <2>2. \A t \in Sensors : /\ hdi'.drives[t].rate = hdi.drives[t].rate
                           /\ t # s => hdi'.drives[t] = hdi.drives[t]
                           /\ t = s => hdi'.drives[t].on
    BY <1>4 DEF IInv, TypeOK
  <2>3. TypeOK'
    BY <1>1, <1>4, <2>1 DEF IInv, TypeOK
  <2>4. Link'
    BY <1>1, <1>4, <2>1 DEF IInv, TypeOK, Link
  <2>5. ASSUME NEW t \in Sensors PROVE Noted(t)' /\ Driver(t)'
    BY <1>1, <1>2, <1>4, <2>2 DEF IInv, Noted, Driver
  <2>6. ASSUME NEW t \in Sensors, Driven(t) PROVE Driven(t)'
    BY <1>1, <1>2, <1>4, <2>2, <2>6 DEF Driven
  <2>7. Recovery'
    BY <1>1, <2>6 DEF IInv, Recovery, Underway, At
  <2> QED BY <1>3, <2>3, <2>4, <2>5, <2>7 DEF IInv
<1>5. CASE /\ hdi' = hdi /\ errors' \in 0 .. MaxErrors
           /\ \/ iface = "live" /\ excused' = excused \cup {s}
              \/ iface # "live" /\ excused' = excused
  <2>1. TypeOK'
    BY <1>1, <1>5 DEF IInv, TypeOK
  <2>2. Link'
    BY <1>1, <1>5 DEF IInv, Link
  <2>3. ASSUME NEW t \in Sensors PROVE Noted(t)' /\ Driver(t)'
    BY <1>1, <1>5 DEF IInv, Noted, Driver
  <2>4. iface = "live" => \A t \in Sensors : Driven(t) => Driven(t)'
    BY <1>1, <1>5 DEF Driven
  <2>5. Recovery'
    BY <1>1, <2>4 DEF IInv, Recovery, Underway, At
  <2> QED BY <1>3, <2>1, <2>2, <2>3, <2>5 DEF IInv
<1>6. Error \/ errors' = errors => errors' \in 0 .. MaxErrors
  BY ErrorBound DEF IInv, TypeOK
<1> QED BY <1>4, <1>5, <1>6 DEF ReEnable

\* An observer has turned on again all that was on.
LEMMA LoopEndsKeeps ==
    ASSUME IInv, NEW o \in Observers, LoopEnds(o)
    PROVE  IInv'
<1>1. /\ At(o, "reenable") /\ Go(o, "idle") /\ left = {} /\ batched = None
      /\ UNCHANGED <<hdi, iface, watched, dataCb, info, call, deaths, left, batched, want, excused,
                     unset, gaveUp, unnoticed, crashes, errors>>
  BY DEF LoopEnds, loopVars
<1>2. /\ observer' \in [Observers -> [stage : Stages, retry : 0 .. MaxRetry]]
      /\ \A q \in Observers : observer'[q].stage = IF q = o THEN "idle" ELSE observer[q].stage
  BY <1>1, Going DEF IInv, Stages
<1>3. TypeOK' /\ Link'
  BY <1>1, <1>2 DEF IInv, TypeOK, Link
<1>4. \A s \in Sensors : Noted(s)' /\ Driver(s)'
  BY <1>1, Unheard
<1>5. Loop'
  BY <1>1, HdiAssumption DEF Loop
<1>6. Recovery'
  BY <1>1, <1>2 DEF IInv, Recovery, Underway, At, Driven
<1> QED BY <1>3, <1>4, <1>5, <1>6 DEF IInv

-----------------------------------------------------------------------------
(* The theorems                                                            *)

\* Every step keeps the invariant.
LEMMA NextKeeps == IInv /\ [Next]_vars => IInv'
<1> SUFFICES ASSUME IInv, [Next]_vars PROVE IInv'
  OBVIOUS
<1>1. CASE UNCHANGED vars
  BY <1>1
  DEF IInv, TypeOK, Link, Noted, Driver, Loop, Recovery, Underway, Driven, At, vars, loopVars
<1>2. ASSUME NEW o \in Observers, Observe(o) PROVE IInv'
  BY <1>2, DeathKeeps, ConnectHdiKeeps, RetriesKeeps, ReRegisterKeeps, InitForListKeeps,
     GetSensorListKeeps, ReEnableSensorKeeps, ReSetBatchKeeps, ReEnableKeeps, LoopEndsKeeps
     DEF Observe
<1> QED BY <1>1, <1>2, CrashKeeps, RestartKeeps, InitCallKeeps, CallKeeps DEF Next

\* Every reachable state has its type, and the invariant the rest follows from.
THEOREM Inductive == Spec => []IInv
BY InitIInv, NextKeeps, PTL DEF Spec

\* HdiConnection: no driver process runs a sensor the service has turned off, but for
\* a Disable that timed out.
THEOREM AlwaysNoGhost == Spec => []NoGhost
<1>1. IInv => NoGhost
  BY DEF IInv, Driver, NoGhost
<1> QED BY <1>1, Inductive, PTL

\* ReEnableSensor: once the proxy is that of the running process and nobody is
\* reconnecting, what the service believes is on is on, at the rate it set last.
THEOREM AlwaysRestored == Spec => []Restored
<1>1. ASSUME IInv PROVE Restored
  <2>1. iface = "live" /\ dataCb => hdi.listening
    BY <1>1 DEF IInv, Link
  <2>2. ASSUME Settled, ~gaveUp, NEW s \in Sensors, want[s].on
        PROVE  /\ s \in excused \/ hdi.drives[s].on
               /\ s \in unset \/ hdi.drives[s].rate = want[s].rate
    <3>1. iface = "live" /\ \A o \in Observers : At(o, "idle")
      BY <2>2 DEF Settled
    <3>2. left = {} /\ batched = None
      BY <1>1, <3>1 DEF IInv, Loop, At
    <3>3. Driven(s)
      BY <1>1, <2>2, <3>1 DEF IInv, Recovery, Underway, At
    <3>4. want[s].rate # None /\ s # None
      BY <1>1, <2>2, HdiAssumption DEF IInv, Noted
    <3> QED BY <2>2, <3>2, <3>3, <3>4 DEF Driven
  <2> QED BY <2>1, <2>2 DEF Restored
<1> QED BY <1>1, Inductive, PTL

\* ProcessDeathObserver: a notification never discards the proxy of a live process,
\* for the proxy it is about is replaced only after it has been delivered.
THEOREM AlwaysNoLiveProxyLost == Spec => NoLiveProxyLost
<1>1. ASSUME IInv, [Next]_vars, iface = "live", iface' = "null" PROVE FALSE
  <2>1. CASE UNCHANGED vars
    BY <1>1, <2>1 DEF vars
  <2>2. deaths = 0
    BY <1>1 DEF IInv, Link
  <2>3. ASSUME NEW o \in Observers, Observe(o) PROVE FALSE
    <3>1. CASE ProcessDeathObserver(o)
      BY <2>2, <3>1 DEF ProcessDeathObserver
    <3>2. CASE ConnectHdi(o) \/ InitForList(o)
      BY <1>1, <3>2, GetHdiKeeps DEF ConnectHdi, InitForList, DiesMeanwhile
    <3>3. CASE ~ProcessDeathObserver(o) /\ ~ConnectHdi(o) /\ ~InitForList(o)
      BY <1>1, <2>3, <3>3 DEF Observe, RetriesExhausted, ReRegister, GetSensorList, ReEnableSensor,
         ReSetBatch, ReEnable, LoopEnds
    <3> QED BY <3>1, <3>2, <3>3
  <2>4. ASSUME NEW op, NEW s \in Sensors, NEW rate, InitHdiInterface(op, s, rate)
        PROVE  FALSE
    BY <1>1, <2>4, GetHdiKeeps DEF InitHdiInterface, DiesMeanwhile
  <2>5. CASE Crash \/ Restart \/ Call
    BY <1>1, <2>5 DEF Crash, Restart, Call
  <2> QED BY <1>1, <2>1, <2>3, <2>4, <2>5 DEF Next
<1>2. IInv /\ [Next]_vars => [iface = "live" /\ iface' = "null" => ~hdi'.up]_vars
  BY <1>1
<1> QED BY <1>2, Inductive, PTL DEF Spec, NoLiveProxyLost

-----------------------------------------------------------------------------
(* The buffer between the callback and the data thread                     *)

\* RingTypeOK alone is not inductive: that the slots handed over were written is
\* Consistent, and that ProcessEvents finds some is WokenForEvents.
RingInv == RingTypeOK /\ Consistent /\ WokenForEvents

\* Wrap stays in the buffer and tells the slots of one turn apart.
LEMMA WrapInSlots ==
    ASSUME NEW n \in 0 .. 2 * Capacity - 1
    PROVE  Wrap(n) \in Slots
  BY RingAssumption DEF Wrap, Slots

\* What is pending is a sequence of events, eventNum long.
LEMMA PendingIsSeq ==
    ASSUME RingTypeOK, Consistent
    PROVE  /\ Pending \in Seq(Events)
           /\ Len(Pending) = eventNum
           /\ DOMAIN Pending = 1 .. eventNum
           /\ \A i \in 1 .. eventNum : Pending[i] = circularBuf[Wrap(readPos + i - 1)]
  <1>1. eventNum \in Nat
    BY RingAssumption DEF RingTypeOK
  <1>2. Pending \in [1 .. eventNum -> Events]
    BY DEF Pending, Consistent
  <1>3. Pending \in Seq(Events)
    BY <1>1, <1>2
  <1>4. DOMAIN Pending = 1 .. eventNum
    BY DEF Pending
  <1>5. Len(Pending) = eventNum
    BY <1>1, <1>3, <1>4
  <1>6. \A i \in 1 .. eventNum : Pending[i] = circularBuf[Wrap(readPos + i - 1)]
    BY DEF Pending
  <1> QED
    BY <1>3, <1>4, <1>5, <1>6

\* What a reported event does to the slots that are pending.
LEMMA ReportPending ==
    ASSUME RingInv, NEW e \in Events, OnDataEventAsync(e)
    PROVE  /\ RingTypeOK'
           /\ writePosition' = Wrap(readPos' + eventNum')
           /\ circularBuf'[Wrap(readPos' + eventNum' - 1)] = e
           /\ eventNum < Capacity =>
                /\ eventNum' = eventNum + 1
                /\ \A i \in 1 .. eventNum :
                      circularBuf'[Wrap(readPos' + i - 1)] = Pending[i]
           /\ eventNum = Capacity =>
                /\ eventNum' = eventNum
                /\ \A i \in 1 .. eventNum - 1 :
                      circularBuf'[Wrap(readPos' + i - 1)] = Pending[i + 1]
  <1> USE RingAssumption
  <1> DEFINE next == Wrap(writePosition + 1)
  <1>1. /\ circularBuf' = [circularBuf EXCEPT ![writePosition] = e]
        /\ writePosition' = next
        /\ eventNum' = IF eventNum < Capacity THEN eventNum + 1 ELSE Capacity
        /\ readPos' = IF eventNum < Capacity THEN readPos ELSE next
        /\ dataReady' = TRUE /\ batch' = batch
    BY DEF OnDataEventAsync, ReportEventCallback, Oldest, Notify
  <1>2. /\ circularBuf \in [Slots -> Events \cup {Garbage}]
        /\ readPos \in Slots /\ writePosition \in Slots /\ eventNum \in 0 .. Capacity
        /\ batch \in Seq(Events)
        /\ writePosition = Wrap(readPos + eventNum)
    BY DEF RingInv, RingTypeOK, Consistent
  <1>3. next \in Slots
    BY <1>2, WrapInSlots DEF Slots
  <1>4. RingTypeOK'
    BY <1>1, <1>2, <1>3 DEF RingTypeOK
  <1>5. ASSUME NEW i \in 1 .. eventNum
        PROVE  Pending[i] = circularBuf[Wrap(readPos + i - 1)]
    BY PendingIsSeq DEF RingInv
  <1>6. CASE eventNum < Capacity
    <2>1. readPos' = readPos /\ eventNum' = eventNum + 1
      BY <1>1, <1>6
    <2>2. writePosition' = Wrap(readPos' + eventNum')
      BY <1>1, <1>2, <1>6, <2>1 DEF Wrap, Slots
    <2>3. Wrap(readPos' + eventNum' - 1) = writePosition
      BY <1>2, <2>1 DEF Slots
    <2>4. circularBuf'[Wrap(readPos' + eventNum' - 1)] = e
      BY <1>1, <1>2, <2>3
    <2>5. ASSUME NEW i \in 1 .. eventNum
          PROVE  circularBuf'[Wrap(readPos' + i - 1)] = Pending[i]
      <3>1. Wrap(readPos + i - 1) \in Slots /\ Wrap(readPos + i - 1) # writePosition
        BY <1>2, <1>6 DEF Wrap, Slots
      <3> QED
        BY <1>1, <1>2, <1>5, <2>1, <3>1
    <2> QED
      BY <1>2, <1>4, <1>6, <2>1, <2>2, <2>4, <2>5
  <1>7. CASE eventNum = Capacity
    <2>1. readPos' = next /\ eventNum' = eventNum /\ writePosition = readPos
      BY <1>1, <1>2, <1>7 DEF Wrap, Slots
    <2>2. writePosition' = Wrap(readPos' + eventNum')
      BY <1>1, <1>3, <1>7, <2>1 DEF Wrap, Slots
    <2>3. Wrap(readPos' + eventNum' - 1) = writePosition
      BY <1>2, <1>7, <2>1 DEF Wrap, Slots
    <2>4. circularBuf'[Wrap(readPos' + eventNum' - 1)] = e
      BY <1>1, <1>2, <2>3
    <2>5. ASSUME NEW i \in 1 .. eventNum - 1
          PROVE  circularBuf'[Wrap(readPos' + i - 1)] = Pending[i + 1]
      <3>1. /\ Wrap(readPos' + i - 1) = Wrap(readPos + (i + 1) - 1)
            /\ Wrap(readPos' + i - 1) \in Slots
            /\ Wrap(readPos' + i - 1) # writePosition
        BY <1>2, <1>7, <2>1 DEF Wrap, Slots
      <3>2. Pending[i + 1] = circularBuf[Wrap(readPos + (i + 1) - 1)]
        BY <1>2, <1>5
      <3> QED
        BY <1>1, <1>2, <3>1, <3>2
    <2> QED
      BY <1>2, <1>4, <1>7, <2>1, <2>2, <2>4, <2>5
  <1> QED
    BY <1>2, <1>6, <1>7

\* A reported event is appended to what is pending, the oldest one dropped if
\* the buffer is full.
LEMMA ReportAppends ==
    ASSUME RingInv, NEW e \in Events, OnDataEventAsync(e)
    PROVE  /\ RingInv'
           /\ Pending' = IF Len(Pending) < Capacity THEN Append(Pending, e)
                         ELSE Append(Tail(Pending), e)
  <1> USE RingAssumption
  <1>1. /\ Pending \in Seq(Events) /\ Len(Pending) = eventNum
        /\ eventNum \in 0 .. Capacity
    BY PendingIsSeq DEF RingInv, RingTypeOK
  <1>2. /\ RingTypeOK'
        /\ writePosition' = Wrap(readPos' + eventNum')
        /\ circularBuf'[Wrap(readPos' + eventNum' - 1)] = e
    BY ReportPending
  <1>3. CASE eventNum < Capacity
    <2>1. /\ eventNum' = eventNum + 1
          /\ \A i \in 1 .. eventNum :
                circularBuf'[Wrap(readPos' + i - 1)] = Pending[i]
      BY <1>3, ReportPending
    <2>2. Pending' = [i \in 1 .. eventNum + 1 |-> IF i = eventNum + 1 THEN e ELSE Pending[i]]
      <3>1. \A i \in 1 .. eventNum + 1 :
               circularBuf'[Wrap(readPos' + i - 1)]
                 = IF i = eventNum + 1 THEN e ELSE Pending[i]
        BY <1>1, <1>2, <2>1
      <3>2. Pending' = [i \in 1 .. eventNum' |-> circularBuf'[Wrap(readPos' + i - 1)]]
        BY DEF Pending, Wrap
      <3> QED
        BY <2>1, <3>1, <3>2
    <2>3. /\ Pending' \in [1 .. eventNum + 1 -> Events]
          /\ \A i \in 1 .. eventNum : Pending'[i] = Pending[i]
          /\ Pending'[eventNum + 1] = e
      BY <1>1, <2>2, ElementOfSeq
    <2>4. Pending' \in Seq(Events) /\ Len(Pending') = eventNum + 1
      BY <1>1, <2>3
    <2>5. Pending' = Append(Pending, e)
      <3>1. /\ Append(Pending, e) \in Seq(Events)
            /\ Len(Append(Pending, e)) = eventNum + 1
            /\ \A i \in 1 .. eventNum : Append(Pending, e)[i] = Pending[i]
            /\ Append(Pending, e)[eventNum + 1] = e
        BY <1>1
      <3>2. \A i \in 1 .. eventNum + 1 : Pending'[i] = Append(Pending, e)[i]
        BY <1>1, <2>3, <3>1
      <3> QED
        BY <2>4, <3>1, <3>2, SeqEqual, Zenon
    <2>6. Consistent'
      BY <1>2, <2>1, <2>3 DEF Consistent, Wrap
    <2>7. WokenForEvents'
      BY <1>1, <2>1 DEF OnDataEventAsync, Notify, WokenForEvents
    <2> QED
      BY <1>1, <1>2, <1>3, <2>5, <2>6, <2>7 DEF RingInv
  <1>4. CASE eventNum = Capacity
    <2>1. /\ eventNum' = eventNum
          /\ \A i \in 1 .. eventNum - 1 :
                circularBuf'[Wrap(readPos' + i - 1)] = Pending[i + 1]
      BY <1>4, ReportPending
    <2>2. Pending' = [i \in 1 .. eventNum |-> IF i = eventNum THEN e ELSE Pending[i + 1]]
      <3>1. \A i \in 1 .. eventNum :
               circularBuf'[Wrap(readPos' + i - 1)]
                 = IF i = eventNum THEN e ELSE Pending[i + 1]
        BY <1>1, <1>2, <2>1
      <3>2. Pending' = [i \in 1 .. eventNum' |-> circularBuf'[Wrap(readPos' + i - 1)]]
        BY DEF Pending, Wrap
      <3> QED
        BY <2>1, <3>1, <3>2
    <2>3. /\ Pending' \in [1 .. eventNum -> Events]
          /\ \A i \in 1 .. eventNum - 1 : Pending'[i] = Pending[i + 1]
          /\ Pending'[eventNum] = e
      BY <1>1, <1>4, <2>2, ElementOfSeq
    <2>4. Pending' \in Seq(Events) /\ Len(Pending') = eventNum
      BY <1>1, <2>3
    <2>5. Pending' = Append(Tail(Pending), e)
      <3>1. /\ Tail(Pending) \in Seq(Events)
            /\ Len(Tail(Pending)) = eventNum - 1
            /\ \A i \in 1 .. eventNum - 1 : Tail(Pending)[i] = Pending[i + 1]
        BY <1>1, <1>4
      <3>2. /\ Append(Tail(Pending), e) \in Seq(Events)
            /\ Len(Append(Tail(Pending), e)) = eventNum - 1 + 1
            /\ \A i \in 1 .. eventNum - 1 : Append(Tail(Pending), e)[i] = Tail(Pending)[i]
            /\ Append(Tail(Pending), e)[eventNum - 1 + 1] = e
        BY <1>1, <3>1
      <3>3. /\ Len(Append(Tail(Pending), e)) = eventNum
            /\ \A i \in 1 .. eventNum : Pending'[i] = Append(Tail(Pending), e)[i]
        BY <1>1, <2>3, <3>1, <3>2
      <3> QED
        BY <2>4, <3>2, <3>3, SeqEqual, Zenon
    <2>6. Consistent'
      BY <1>2, <2>1, <2>3 DEF Consistent, Wrap
    <2>7. WokenForEvents'
      BY <1>1, <1>4, <2>1 DEF OnDataEventAsync, Notify, WokenForEvents
    <2> QED
      BY <1>1, <1>2, <1>4, <2>5, <2>6, <2>7 DEF RingInv
  <1> QED
    BY <1>1, <1>3, <1>4

\* The data thread leaves nothing pending.
LEMMA ProcessDrains ==
    ASSUME RingInv, ProcessEvents
    PROVE  RingInv' /\ Pending # <<>> /\ batch' = Pending /\ Pending' = <<>>
  <1> USE RingAssumption
  <1>1. /\ dataReady' = FALSE /\ eventNum' = 0
        /\ readPos' = Wrap(readPos + eventNum)
        /\ circularBuf' = circularBuf /\ writePosition' = writePosition
        /\ eventNum > 0 /\ batch' = Pending
    BY DEF RingInv, WokenForEvents, ProcessEvents, Consume
  <1>2. Pending \in Seq(Events) /\ Len(Pending) = eventNum
    BY PendingIsSeq DEF RingInv
  <1>3. /\ circularBuf \in [Slots -> Events \cup {Garbage}]
        /\ readPos \in Slots /\ writePosition \in Slots /\ eventNum \in 0 .. Capacity
        /\ writePosition = Wrap(readPos + eventNum)
    BY DEF RingInv, RingTypeOK, Consistent
  <1>4. readPos' \in Slots /\ Wrap(readPos' + 0) = readPos'
    BY <1>1, <1>3 DEF Wrap, Slots
  <1>5. RingTypeOK'
    <2>1. batch' \in Seq(Events)
      BY <1>1, <1>2
    <2>2. eventNum' \in 0 .. Capacity
      BY <1>1
    <2>3. dataReady' \in BOOLEAN
      BY <1>1, Zenon
    <2> QED
      BY <1>1, <1>3, <1>4, <2>1, <2>2, <2>3 DEF RingTypeOK
  <1>6. Pending' = <<>>
    <2>1. Pending' = [i \in 1 .. eventNum' |-> circularBuf'[Wrap(readPos' + i - 1)]]
      BY DEF Pending, Wrap
    <2> QED
      BY <1>1, <2>1
  <1>7. Consistent'
    <2>1. writePosition' = Wrap(readPos' + eventNum')
      BY <1>1, <1>3, <1>4
    <2>2. \A i \in 1 .. eventNum' : Pending'[i] \in Events
      BY <1>1
    <2> QED
      BY <2>1, <2>2 DEF Consistent, Wrap
  <1>8. WokenForEvents'
    BY <1>1 DEF WokenForEvents
  <1> QED
    BY <1>1, <1>2, <1>5, <1>6, <1>7, <1>8 DEF RingInv

\* A step that changes nothing keeps the invariant and the abstract queue.
LEMMA StutterKeeps ==
    ASSUME RingInv, UNCHANGED ringVars
    PROVE  RingInv' /\ Pending' = Pending /\ batch' = batch
  BY DEF ringVars, RingInv, RingTypeOK, Consistent, WokenForEvents, Pending, Wrap, Slots

\* The buffer starts empty, and so does the abstract queue.
LEMMA InitRingInv == RingInit => RingInv /\ Queue!Init
  <1> USE RingAssumption
  <1> SUFFICES ASSUME RingInit PROVE RingInv /\ Queue!Init
    OBVIOUS
  <1>1. RingTypeOK /\ WokenForEvents
    <2>1. batch \in Seq(Events)
      BY EmptySeq DEF RingInit
    <2>2. dataReady \in BOOLEAN /\ ~dataReady
      BY Zenon DEF RingInit
    <2>3. /\ circularBuf \in [Slots -> Events \cup {Garbage}]
          /\ readPos \in Slots /\ writePosition \in Slots
          /\ eventNum = 0 /\ eventNum \in 0 .. Capacity
      BY DEF RingInit, Slots
    <2>4. RingTypeOK
      BY <2>1, <2>2, <2>3 DEF RingTypeOK
    <2>5. ~(eventNum > 0)
      BY <2>3
    <2>6. WokenForEvents
      BY <2>2, <2>5 DEF WokenForEvents
    <2> QED
      BY <2>4, <2>6
  <1>2. Consistent
    BY DEF RingInit, Consistent, Wrap
  <1>3. Pending = <<>>
    BY DEF RingInit, Pending
  <1> QED
    BY <1>1, <1>2, <1>3 DEF RingInv, RingInit, Queue!Init

\* The inductive invariant, and what every step does to the abstract queue.
LEMMA NextRingInv == RingInv /\ [RingNext]_ringVars => RingInv' /\ [Queue!Next]_(Queue!vars)
  <1> SUFFICES ASSUME RingInv, [RingNext]_ringVars
               PROVE  RingInv' /\ [Queue!Next]_(Queue!vars)
    OBVIOUS
  <1>1. CASE ProcessEvents
    BY <1>1, ProcessDrains DEF Queue!Next, Queue!Process
  <1>2. CASE \E e \in Events : OnDataEventAsync(e)
    <2>1. PICK e \in Events : OnDataEventAsync(e)
      BY <1>2
    <2>2. RingInv' /\ Queue!Report(e)
      BY <2>1, ReportAppends DEF Queue!Report, OnDataEventAsync
    <2> QED
      BY <2>2 DEF Queue!Next
  <1>3. CASE UNCHANGED ringVars
    BY <1>3, StutterKeeps DEF Queue!vars
  <1> QED
    BY <1>1, <1>2, <1>3 DEF RingNext

\* The inductive invariant, for every capacity and every set of events.
THEOREM RingInvariance == RingSpec => []RingInv
  BY InitRingInv, NextRingInv, PTL DEF RingSpec

\* The types of the buffer and its positions are as declared.
THEOREM RingTypeCorrect == RingSpec => []RingTypeOK
  BY RingInvariance, PTL DEF RingInv

\* Read position, write position and count agree, and no slot that was never
\* written is handed to the data thread.
THEOREM AlwaysConsistent == RingSpec => []Consistent
  BY RingInvariance, PTL DEF RingInv

\* dataReady_ is set exactly while events are pending.
THEOREM AlwaysWoken == RingSpec => []WokenForEvents
  BY RingInvariance, PTL DEF RingInv

\* The circular buffer implements the queue that drops its oldest event.
THEOREM RingImplements == RingSpec => IsQueue
  BY InitRingInv, NextRingInv, RingInvariance, PTL DEF RingSpec, IsQueue, Queue!Spec

==============================================================================
