-------------------------- MODULE ClientAgent_proofs --------------------------
(***************************************************************************)
(* The safety of what runs in a client process.  Over the deaths of the    *)
(* service, for any sensors, users, intervals, binder threads, deaths and  *)
(* errors: what it enabled is enabled again, and nothing else is.  And of   *)
(* the conversion of recordings, for any of them: deleting the secondary   *)
(* peaks of a stretch leaves the highest.                                  *)
(***************************************************************************)
EXTENDS ClientAgent, VibrationConvert, LeastOfNats, SequenceTheorems

-----------------------------------------------------------------------------
(* The inductive invariant                                                 *)

\* The observer that is about to drop the proxy of the dead service.
ToForget(o) == At(o, "restore") \/ At(o, "forget")

\* There is a proxy of a dead service exactly while the news of the death is on
\* its way, or with the observer that is about to drop it; and the locked sections
\* of the observers exclude each other.
Link ==
    /\ deaths \in {0, 1}
    /\ server = "stale" <=> deaths = 1 \/ \E o \in Observers : ToForget(o)
    /\ deaths = 1 => \A o \in Observers : ~ToForget(o)
    /\ \A o, p \in Observers : Holding(o) /\ Holding(p) => o = p

\* What the map names has users, and what the service drives the map names, but
\* for failed calls.
Kept(s) ==
    /\ info[s] # None => subscribed[s] # {} \/ s \in failed
    /\ service.subs[s] # None => info[s] # None \/ s \in failed

Reconnecting == deaths > 0 \/ \E o \in Observers : ~At(o, "idle")

Enabled(s) == s \in failed \/ service.subs[s] = info[s]

\* Without a proxy someone is connecting, or there is nothing to enable; and what
\* is to be enabled and is not, an observer still has before it.
Recovery ==
    ~gaveUp =>
        /\ server = "null" =>
              \/ \E o \in Observers : At(o, "connect")
              \/ \A s \in Sensors : info[s] # None => s \in failed
        /\ Reconnecting \/ \A s \in Sensors : Enabled(s)

\* Who has users has had a channel, and has one unless a reconnection gave up and
\* the next one is not past making it anew.
Channel ==
    (\E s \in Sensors : subscribed[s] # {}) =>
        known /\ (created \/ (gaveUp /\ \A o \in Observers : ~At(o, "forget")))

\* Who marks the channel as made has one; who marks it as closed has given up.
Marked ==
    \A o \in Observers : /\ At(o, "restore") => known
                         /\ At(o, "giveUp") => gaveUp

IInv ==
    /\ TypeOK
    /\ Link
    /\ \A s \in Sensors : Kept(s)
    /\ Recovery
    /\ Channel
    /\ Marked

-----------------------------------------------------------------------------
(* What the actions have in common                                         *)

Service == [subs : [Sensors -> Intervals \cup {None}], channel : BOOLEAN]

\* A call is made with the proxy there is; only where there is none, with another.
LEMMA Connecting ==
    ASSUME TypeOK, NEW c \in Connections
    PROVE  /\ c.server \in {"null", "live", "stale"} /\ c.cost \in Nat
           /\ server # "null" => c.server = server
           /\ c.server = "null" => server = "null"
           /\ c.server = "stale" => server = "stale"
BY DEF TypeOK, Connections

\* Only a living service does what it is asked.
LEMMA Replying ==
    ASSUME NEW c, NEW r \in Replies(c)
    PROVE  r.ok \in BOOLEAN /\ r.cost \in Nat /\ (r.ok => c.server = "live")
<1>1. \/ r = [ok |-> TRUE, cost |-> 0] /\ c.server = "live"
      \/ r = [ok |-> FALSE, cost |-> 1]
      \/ r = [ok |-> FALSE, cost |-> 0]
  BY DEF Replies
<1>2. r \in [ok : BOOLEAN, cost : Nat]
  <2>1. /\ [ok |-> TRUE, cost |-> 0] \in [ok : BOOLEAN, cost : Nat]
        /\ [ok |-> FALSE, cost |-> 0] \in [ok : BOOLEAN, cost : Nat]
        /\ [ok |-> FALSE, cost |-> 1] \in [ok : BOOLEAN, cost : Nat]
    OBVIOUS
  <2> QED BY <1>1, <2>1, Zenon
<1>3. r.ok => c.server = "live"
  BY <1>1, <1>2
<1> QED BY <1>2, <1>3

\* A refusal stays within the bound.
LEMMA Spending ==
    ASSUME TypeOK, NEW cost \in Nat, Spend(cost)
    PROVE  errors' \in 0 .. MaxErrors
BY ClientAssumption DEF TypeOK, Spend

\* Only the bound pays for a call and its refusal.
LEMMA SpendingBoth ==
    ASSUME TypeOK, NEW a \in Nat, NEW b \in Nat, Spend(a + b)
    PROVE  errors' \in 0 .. MaxErrors
<1>1. a + b \in Nat
  OBVIOUS
<1> QED BY <1>1, Spending

\* Enabling or disabling one sensor changes that subscription of the service.
LEMMA OneSensor ==
    ASSUME NEW v \in Service, NEW s \in Sensors, NEW i \in Intervals \cup {None}
    PROVE  \A w : w = [v EXCEPT !.subs[s] = i] =>
              /\ w \in Service
              /\ \A t \in Sensors : w.subs[t] = IF t = s THEN i ELSE v.subs[t]
              /\ i = None /\ v = Unknown => w = Unknown
<1> DEFINE S == [v.subs EXCEPT ![s] = i]
           w == [v EXCEPT !.subs = S]
<1>1. v.subs \in [Sensors -> Intervals \cup {None}] /\ v.channel \in BOOLEAN
  BY DEF Service
<1>2. /\ S \in [Sensors -> Intervals \cup {None}]
      /\ \A t \in Sensors : S[t] = IF t = s THEN i ELSE v.subs[t]
  BY <1>1
<1>3. w = [subs |-> S, channel |-> v.channel]
  BY DEF Service
<1>4. i = None /\ v = Unknown => S = [t \in Sensors |-> None]
  BY <1>1, <1>2 DEF Unknown
<1> HIDE DEF S
<1>5. w \in Service /\ w.subs = S
  BY <1>1, <1>2, <1>3 DEF Service
<1>6. ASSUME i = None, v = Unknown PROVE w = Unknown
  <2>1. v.channel = FALSE
    BY <1>6 DEF Unknown
  <2>2. S = [t \in Sensors |-> None]
    BY <1>4, <1>6
  <2> QED BY <1>3, <2>1, <2>2 DEF Unknown
<1>7. QED
  BY <1>2, <1>5, <1>6 DEF S

\* So does the step of the service.
LEMMA OneSensorStep ==
    ASSUME TypeOK, NEW s \in Sensors, NEW i \in Intervals \cup {None},
           service' = [service EXCEPT !.subs[s] = i]
    PROVE  /\ service' \in Service
           /\ \A t \in Sensors : service'.subs[t] = IF t = s THEN i ELSE service.subs[t]
           /\ i = None /\ service = Unknown => service' = Unknown
<1>1. service \in Service
  BY DEF TypeOK, Service
<1>2. \A w : w = [service EXCEPT !.subs[s] = i] =>
              /\ w \in Service
              /\ \A t \in Sensors : w.subs[t] = IF t = s THEN i ELSE service.subs[t]
              /\ i = None /\ service = Unknown => w = Unknown
  BY <1>1, OneSensor
<1>3. PICK w : w = [service EXCEPT !.subs[s] = i]
  OBVIOUS
<1>4. service' = w
  BY <1>3
<1> QED BY <1>2, <1>3, <1>4

\* The channel of the process is not one of its sensors.
LEMMA OnlyChannel ==
    ASSUME TypeOK, NEW b \in BOOLEAN, service' = [service EXCEPT !.channel = @ \/ b]
    PROVE  /\ service' \in Service
           /\ service'.subs = service.subs
           /\ ~b => service' = service
BY DEF TypeOK, Service

\* A call that reaches no observer leaves their proxy as it was.
LEMMA CallLink ==
    ASSUME IInv, UNCHANGED <<deaths, observer>>,
           NEW c \in Connections, server' = c.server
    PROVE  Link'
<1>1. server' = "stale" <=> server = "stale"
  BY Connecting DEF IInv, TypeOK
<1> QED BY <1>1 DEF IInv, Link, At, ToForget, Holding

\* And what it had marked, while the channel it knows is known.
LEMMA CallMarked ==
    ASSUME IInv, UNCHANGED <<observer, gaveUp>>, known => known'
    PROVE  Marked'
BY DEF IInv, Marked, At

\* A call that leaves what is enabled enabled leaves the recovery as it was.
LEMMA CallRecovery ==
    ASSUME IInv, UNCHANGED <<deaths, observer, gaveUp>>,
           server' = "null" =>
              /\ server = "null"
              /\ \A s \in Sensors : (info[s] # None => s \in failed)
                                       => (info'[s] # None => s \in failed'),
           \A s \in Sensors : Enabled(s) => Enabled(s)'
    PROVE  Recovery'
BY DEF IInv, Recovery, Reconnecting, At

\* An observer that goes on is at the new stage, and the others stay where they are.
LEMMA Going ==
    ASSUME TypeOK, NEW o \in Observers, NEW st \in Stages, Go(o, st)
    PROVE  /\ observer' \in [Observers -> Stages]
           /\ \A p \in Observers : observer'[p] = IF p = o THEN st ELSE observer[p]
BY DEF TypeOK, Go

-----------------------------------------------------------------------------
(* The application and the service                                         *)

\* A fresh process has enabled nothing, and nobody is reconnecting it.
LEMMA InitIInv == Init => IInv
<1> SUFFICES ASSUME Init PROVE IInv
  OBVIOUS
<1>1. TypeOK
  <2>1. service = Unknown /\ service \in Service
    BY DEF Init, Unknown, Service
  <2>2. observer \in [Observers -> Stages]
    BY DEF Init, Stages
  <2>3. /\ subscribed \in [Sensors -> SUBSET Users] /\ unsubscribed \in [Sensors -> SUBSET Users]
        /\ info \in [Sensors -> Intervals \cup {None}] /\ interval = None
    BY DEF Init
  <2>4. /\ created = FALSE /\ open = FALSE /\ known = FALSE /\ server = "null"
        /\ deaths = 0 /\ failed = {} /\ gaveUp = FALSE /\ died = 0 /\ errors = 0
        /\ creating = FALSE /\ unregistering = FALSE
    BY DEF Init
  <2>5. 0 \in 0 .. MaxDeaths /\ 0 \in 0 .. MaxErrors
    BY ClientAssumption
  <2> QED BY <2>1, <2>2, <2>3, <2>4, <2>5 DEF TypeOK, Service
<1>2. Link /\ Marked
  BY DEF Init, Link, Marked, At, ToForget, Holding
<1>3. \A s \in Sensors : Kept(s) /\ Enabled(s) /\ info[s] = None
  BY DEF Init, Kept, Enabled, Unknown
<1>4. Channel
  BY DEF Init, Channel
<1> QED BY <1>1, <1>2, <1>3, <1>4 DEF IInv, Recovery

\* The death of the service leaves a proxy of it, and one notification.
LEMMA DiesKeeps ==
    ASSUME IInv, ServiceDies
    PROVE  IInv'
<1> USE DEF IInv, ServiceDies, agent, channel, waiting
<1>1. deaths = 0 /\ deaths' = 1 /\ \A o \in Observers : ~ToForget(o)
  BY DEF Link, TypeOK
<1>2. TypeOK'
  <2>1. deaths' \in 0 .. MaxDeaths /\ died' \in 0 .. MaxDeaths
    BY <1>1, ClientAssumption DEF TypeOK
  <2>2. service' \in Service
    BY DEF Unknown, Service
  <2> QED BY <2>1, <2>2 DEF TypeOK, Service
<1>3. Link' /\ Marked'
  BY <1>1, CallMarked DEF Link, At, ToForget, Holding
<1>4. \A s \in Sensors : Kept(s)'
  BY DEF Kept, Unknown
<1>5. Recovery'
  BY <1>1 DEF Recovery, Reconnecting
<1>6. Channel'
  BY DEF Channel, At
<1> QED BY <1>2, <1>3, <1>4, <1>5, <1>6

\* A thread that waits for channelMutex_ changes nothing else.
LEMMA WaitKeeps ==
    ASSUME IInv, WaitToTransfer \/ Unregister
    PROVE  IInv'
<1> USE DEF IInv
<1>1. /\ UNCHANGED <<agent, channel, server, info, service, deaths, observer, failed, gaveUp,
                     died, errors>>
      /\ creating' \in BOOLEAN /\ unregistering' \in BOOLEAN
  BY DEF WaitToTransfer, Unregister, TypeOK
<1>2. TypeOK'
  BY <1>1 DEF TypeOK, agent, channel
<1>3. Link' /\ Marked'
  BY <1>1, CallMarked DEF Link, At, ToForget, Holding, channel
<1>4. Recovery' /\ Channel' /\ \A s \in Sensors : Kept(s)'
  BY <1>1 DEF Recovery, Reconnecting, Enabled, Channel, Kept, At, agent, channel
<1> QED BY <1>2, <1>3, <1>4

\* Making the channel leaves a service that drives what it drove, and a channel
\* exactly when it answered.
LEMMA CreateKeeps ==
    ASSUME IInv, NEW c \in Connections, server' = c.server, CreateSensorDataChannel(c)
    PROVE  /\ service' \in Service /\ service'.subs = service.subs
           /\ server' # "live" => service' = Unknown
           /\ created' \in BOOLEAN /\ open' \in BOOLEAN /\ known' \in BOOLEAN
           /\ created' => known'
           /\ known => known'
           /\ errors' \in 0 .. MaxErrors
<1>1. PICK r \in Replies(c) :
        /\ Spend(c.cost + r.cost)
        /\ open' = r.ok /\ created' = r.ok
        /\ service' = [service EXCEPT !.channel = @ \/ r.ok]
  BY DEF CreateSensorDataChannel
<1>2. r.ok \in BOOLEAN /\ r.cost \in Nat /\ (r.ok => c.server = "live")
  BY Replying
<1>3. /\ service' \in Service /\ service'.subs = service.subs
      /\ ~r.ok => service' = service
  BY <1>1, <1>2, OnlyChannel DEF IInv
<1>4. errors' \in 0 .. MaxErrors
  BY <1>1, <1>2, Connecting, SpendingBoth DEF IInv
<1>5. /\ known' \in BOOLEAN /\ (known => known')
      /\ c.server # "null" => known' = TRUE
  BY DEF CreateSensorDataChannel, IInv, TypeOK
<1>6. server' # "live" => service' = Unknown
  <2> SUFFICES ASSUME server' # "live" PROVE service' = Unknown
    OBVIOUS
  <2>1. ~r.ok /\ server # "live"
    BY <1>2, Connecting DEF IInv
  <2> QED BY <1>3, <2>1 DEF IInv, TypeOK
<1>7. created' = r.ok /\ open' = r.ok
  BY <1>1
<1>8. created' => known'
  BY <1>2, <1>5, <1>7
<1> QED BY <1>2, <1>3, <1>4, <1>5, <1>6, <1>7, <1>8

\* A subscription adds a user to a process with a channel, and no other.
LEMMA SubscribeKeeps ==
    ASSUME IInv, NEW s \in Sensors, NEW u \in Users, SubscribeSensor(s, u)
    PROVE  IInv'
<1> USE DEF IInv
<1>1. PICK c \in Connections :
        /\ server' = c.server
        /\ IF created THEN Spend(c.cost) /\ UNCHANGED <<channel, service>>
           ELSE CreateSensorDataChannel(c)
  BY DEF SubscribeSensor
<1>2. /\ subscribed' = IF created' THEN [subscribed EXCEPT ![s] = @ \cup {u}] ELSE subscribed
      /\ UNCHANGED <<unsubscribed, interval, info, deaths, observer, unregistering, failed,
                     gaveUp, died>>
      /\ creating' = FALSE
  BY DEF SubscribeSensor
<1>3. /\ c.server \in {"null", "live", "stale"} /\ c.cost \in Nat
      /\ c.server = "null" => server = "null"
      /\ server # "null" => c.server = server
  BY Connecting
<1>4. /\ service' \in Service /\ service'.subs = service.subs
      /\ server' # "live" => service' = Unknown
      /\ created' \in BOOLEAN /\ open' \in BOOLEAN /\ known' \in BOOLEAN
      /\ (created' => known')
      /\ (known => known') /\ (created => created')
      /\ errors' \in 0 .. MaxErrors
  <2>1. CASE created
    BY <1>1, <1>3, <2>1, Spending DEF TypeOK, Service, channel
  <2>2. CASE ~created
    BY <1>1, <2>2, CreateKeeps
  <2> QED BY <2>1, <2>2
<1>5. /\ subscribed' \in [Sensors -> SUBSET Users]
      /\ \A t \in Sensors : subscribed[t] \subseteq subscribed'[t]
      /\ created' \/ subscribed' = subscribed
  <2>1. [subscribed EXCEPT ![s] = @ \cup {u}] \in [Sensors -> SUBSET Users]
    BY DEF TypeOK
  <2> QED BY <1>2, <2>1 DEF TypeOK
<1>6. TypeOK'
  BY <1>1, <1>2, <1>3, <1>4, <1>5 DEF TypeOK, Service
<1>7. Link' /\ Marked'
  BY <1>1, <1>2, <1>4, CallLink, CallMarked
<1>8. \A t \in Sensors : Kept(t)'
  BY <1>2, <1>4, <1>5 DEF Kept
<1>9. Recovery'
  BY <1>1, <1>2, <1>3, <1>4, CallRecovery DEF Enabled
<1>10. Channel'
  BY <1>2, <1>4, <1>5 DEF Channel, At
<1> QED BY <1>6, <1>7, <1>8, <1>9, <1>10

\* SetBatch connects at most.
LEMMA SetBatchKeeps ==
    ASSUME IInv, NEW s \in Sensors, NEW u \in Users, NEW i \in Intervals, SetBatch(s, u, i)
    PROVE  IInv'
<1> USE DEF IInv
<1>1. PICK c \in Connections : server' = c.server /\ Spend(c.cost)
  BY DEF SetBatch
<1>2. /\ interval' = i
      /\ UNCHANGED <<subscribed, unsubscribed, channel, info, service, deaths, observer,
                     waiting, failed, gaveUp, died>>
  BY DEF SetBatch
<1>3. /\ c.server \in {"null", "live", "stale"} /\ c.cost \in Nat
      /\ c.server = "null" => server = "null"
      /\ server # "null" => c.server = server
  BY Connecting
<1>4. errors' \in 0 .. MaxErrors
  BY <1>1, <1>3, Spending
<1>5. TypeOK'
  BY <1>1, <1>2, <1>3, <1>4 DEF TypeOK, channel, waiting
<1>6. Link' /\ Marked'
  BY <1>1, <1>2, CallLink, CallMarked DEF channel
<1>7. \A t \in Sensors : Kept(t)'
  BY <1>2 DEF Kept
<1>8. Recovery'
  BY <1>1, <1>2, <1>3, CallRecovery DEF Enabled
<1>9. Channel'
  BY <1>2 DEF Channel, At, channel
<1> QED BY <1>5, <1>6, <1>7, <1>8, <1>9

\* What an EnableSensor that succeeds changes, and one that is refused.
Enables(s) ==
    /\ service' = [service EXCEPT !.subs[s] = interval]
    /\ UpdateSensorInfoMap(s)
    /\ failed' = failed \ {s}
    /\ UNCHANGED subscribed

Refused(s, u) ==
    /\ service' \in {service, [service EXCEPT !.subs[s] = None]}
    /\ subscribed' = [subscribed EXCEPT ![s] = @ \ {u}]
    /\ failed' = IF info[s] # None THEN failed \cup {s} ELSE failed
    /\ UNCHANGED info

\* Enabling a sensor notes it in the map and in the service, or fails.
LEMMA ActivateKeeps ==
    ASSUME IInv, NEW s \in Sensors, NEW u \in Users, ActivateSensor(s, u)
    PROVE  IInv'
<1> USE DEF IInv
<1>1. /\ interval \in Intervals /\ interval # None /\ u \in subscribed[s]
      /\ UNCHANGED <<unsubscribed, interval, channel, deaths, observer, waiting, gaveUp, died>>
  BY DEF ActivateSensor, TypeOK
<1>2. PICK c \in Connections : \E r \in Replies(c) :
        /\ server' = c.server
        /\ Spend(c.cost + r.cost)
        /\ IF r.ok THEN Enables(s) ELSE Refused(s, u)
  BY DEF ActivateSensor, Enables, Refused
<1>3. PICK r \in Replies(c) :
        /\ server' = c.server
        /\ Spend(c.cost + r.cost)
        /\ IF r.ok THEN Enables(s) ELSE Refused(s, u)
  BY <1>2
<1>4. /\ c.server \in {"null", "live", "stale"} /\ c.cost \in Nat
      /\ c.server = "null" => server = "null"
      /\ server # "null" => c.server = server
  BY Connecting
<1>5. r.ok \in BOOLEAN /\ r.cost \in Nat /\ (r.ok => c.server = "live")
  BY Replying
<1>6. errors' \in 0 .. MaxErrors
  BY <1>3, <1>4, <1>5, SpendingBoth
<1>7. Link' /\ Marked'
  BY <1>1, <1>3, CallLink, CallMarked DEF channel
<1>8. service \in Service
  BY DEF TypeOK, Service
<1>9. CASE r.ok
  <2>1. /\ service' \in Service
        /\ \A t \in Sensors : service'.subs[t] = IF t = s THEN interval ELSE service.subs[t]
    BY <1>1, <1>3, <1>9, OneSensorStep DEF Enables
  <2>2. /\ info' \in [Sensors -> Intervals \cup {None}]
        /\ \A t \in Sensors : info'[t] = IF t = s THEN interval ELSE info[t]
    BY <1>3, <1>1, <1>9 DEF TypeOK, UpdateSensorInfoMap, Enables
  <2>3. server' = "live" /\ failed' = failed \ {s} /\ UNCHANGED subscribed
    BY <1>3, <1>5, <1>9 DEF Enables
  <2>4. TypeOK'
    BY <1>1, <1>6, <2>1, <2>2, <2>3 DEF TypeOK, Service, channel, waiting
  <2>5. \A t \in Sensors : Kept(t)'
    BY <1>1, <2>1, <2>2, <2>3 DEF Kept
  <2>6. \A t \in Sensors : Enabled(t) => Enabled(t)'
    BY <2>1, <2>2, <2>3 DEF Enabled
  <2>7. Recovery'
    BY <1>1, <2>3, <2>6, CallRecovery
  <2>8. Channel'
    BY <1>1, <2>3 DEF Channel, At, channel
  <2> QED BY <1>7, <2>4, <2>5, <2>7, <2>8
<1>10. CASE ~r.ok
  <2>1. /\ service' \in Service
        /\ \A t \in Sensors : service'.subs[t] = service.subs[t]
                              \/ (t = s /\ service'.subs[t] = None)
        /\ service = Unknown => service' = Unknown
    BY <1>3, <1>8, <1>10, OneSensorStep DEF Refused
  <2>2. /\ subscribed' \in [Sensors -> SUBSET Users]
        /\ \A t \in Sensors : subscribed'[t] = IF t = s THEN subscribed[t] \ {u}
                                                      ELSE subscribed[t]
    BY <1>3, <1>10 DEF TypeOK, Refused
  <2>3. /\ UNCHANGED info /\ failed' \subseteq Sensors
        /\ failed \subseteq failed' /\ (info[s] # None => s \in failed')
    BY <1>3, <1>10 DEF TypeOK, Refused
  <2>4. server' # "live" => service' = Unknown
    BY <1>3, <1>4, <2>1 DEF TypeOK
  <2>5. TypeOK'
    BY <1>1, <1>3, <1>4, <1>6, <2>1, <2>2, <2>3, <2>4 DEF TypeOK, Service, channel, waiting
  <2>6. \A t \in Sensors : Kept(t)'
    BY <2>1, <2>2, <2>3 DEF Kept
  <2>7. \A t \in Sensors : Enabled(t) => Enabled(t)'
    BY <2>1, <2>3 DEF Enabled
  <2>8. Recovery'
    BY <1>1, <1>3, <1>4, <2>3, <2>7, CallRecovery
  <2>9. Channel'
    BY <1>1, <2>2 DEF Channel, At, channel
  <2> QED BY <1>7, <2>5, <2>6, <2>8, <2>9
<1> QED BY <1>5, <1>9, <1>10

\* Disabling a sensor takes it out of the map and of the service, or fails.
LEMMA DisableKeeps ==
    ASSUME IInv, NEW s \in Sensors, NEW c \in Connections,
           server' = c.server, DisableSensor(s, c) \/ NoNeedToDisable(s, c)
    PROVE  /\ service' \in Service /\ info' \in [Sensors -> Intervals \cup {None}]
           /\ failed' \subseteq Sensors /\ errors' \in 0 .. MaxErrors
           /\ server' # "live" => service' = Unknown
           /\ \A t \in Sensors \ {s} : /\ service'.subs[t] = service.subs[t]
                                       /\ info'[t] = info[t]
                                       /\ t \in failed' <=> t \in failed
           /\ (info'[s] = None /\ service'.subs[s] = None) \/ s \in failed'
<1> USE DEF IInv
<1>0. CASE NoNeedToDisable(s, c)
  <2>1. UNCHANGED <<service, info>> /\ failed' = failed \cup {s} /\ Spend(c.cost + 1)
    BY <1>0 DEF NoNeedToDisable
  <2>2. errors' \in 0 .. MaxErrors
    BY <2>1, Connecting, SpendingBoth
  <2> QED BY <2>1, <2>2, Connecting DEF TypeOK, Service
<1> SUFFICES ASSUME DisableSensor(s, c)
             PROVE  /\ service' \in Service /\ info' \in [Sensors -> Intervals \cup {None}]
                    /\ failed' \subseteq Sensors /\ errors' \in 0 .. MaxErrors
                    /\ server' # "live" => service' = Unknown
                    /\ \A t \in Sensors \ {s} : /\ service'.subs[t] = service.subs[t]
                                                /\ info'[t] = info[t]
                                                /\ t \in failed' <=> t \in failed
                    /\ (info'[s] = None /\ service'.subs[s] = None) \/ s \in failed'
  BY <1>0
<1>1. PICK r \in Replies(c) :
        /\ Spend(c.cost + r.cost)
        /\ IF r.ok
           THEN /\ service' = [service EXCEPT !.subs[s] = None]
                /\ DeleteSensorInfoItem(s)
                /\ failed' = failed \ {s}
           ELSE /\ failed' = failed \cup {s}
                /\ UNCHANGED <<service, info>>
  BY DEF DisableSensor
<1>2. r.ok \in BOOLEAN /\ r.cost \in Nat /\ (r.ok => c.server = "live")
  BY Replying
<1>3. errors' \in 0 .. MaxErrors
  BY <1>1, <1>2, Connecting, SpendingBoth
<1>4. service \in Service
  BY DEF TypeOK, Service
<1>5. CASE r.ok
  <2>1. /\ service' \in Service
        /\ \A t \in Sensors : service'.subs[t] = IF t = s THEN None ELSE service.subs[t]
    BY <1>1, <1>5, OneSensorStep
  <2>2. /\ info' \in [Sensors -> Intervals \cup {None}]
        /\ \A t \in Sensors : info'[t] = IF t = s THEN None ELSE info[t]
    BY <1>1, <1>5 DEF TypeOK, DeleteSensorInfoItem
  <2> QED BY <1>1, <1>2, <1>3, <1>5, <2>1, <2>2 DEF TypeOK
<1>6. CASE ~r.ok
  <2>1. UNCHANGED <<service, info>> /\ failed' = failed \cup {s}
    BY <1>1, <1>6
  <2> QED BY <1>3, <1>4, <2>1, Connecting DEF TypeOK
<1> QED BY <1>2, <1>5, <1>6

\* A user that leaves disables the sensor if it was the last.
LEMMA DeactivateKeeps ==
    ASSUME IInv, NEW s \in Sensors, NEW u \in Users, DeactivateSensor(s, u)
    PROVE  IInv'
<1> USE DEF IInv
<1>1. /\ u \in subscribed[s]
      /\ UNCHANGED <<interval, channel, deaths, observer, waiting, gaveUp, died>>
  BY DEF DeactivateSensor
<1>2. /\ subscribed' \in [Sensors -> SUBSET Users]
      /\ unsubscribed' \in [Sensors -> SUBSET Users]
      /\ \A t \in Sensors : subscribed'[t] = IF t = s THEN subscribed[t] \ {u}
                                                    ELSE subscribed[t]
  BY DEF DeactivateSensor, TypeOK
<1>3. PICK c \in Connections :
        /\ server' = c.server
        /\ IF LastUser(s, u) THEN DisableSensor(s, c) \/ NoNeedToDisable(s, c)
           ELSE Spend(c.cost) /\ UNCHANGED <<service, info, failed>>
  BY DEF DeactivateSensor
<1>4. /\ c.server \in {"null", "live", "stale"} /\ c.cost \in Nat
      /\ c.server = "null" => server = "null"
      /\ server # "null" => c.server = server
  BY Connecting
<1>5. /\ service' \in Service /\ info' \in [Sensors -> Intervals \cup {None}]
      /\ failed' \subseteq Sensors /\ errors' \in 0 .. MaxErrors
      /\ server' # "live" => service' = Unknown
      /\ \A t \in Sensors \ {s} : /\ service'.subs[t] = service.subs[t]
                                  /\ info'[t] = info[t]
                                  /\ t \in failed' <=> t \in failed
      /\ \/ info'[s] = None /\ service'.subs[s] = None
         \/ s \in failed'
         \/ /\ UNCHANGED <<service, info, failed>>
            /\ subscribed'[s] # {}
  <2>1. CASE LastUser(s, u)
    BY <1>3, <2>1, DisableKeeps
  <2>2. CASE ~LastUser(s, u)
    <3>1. UNCHANGED <<service, info, failed>> /\ Spend(c.cost)
      BY <1>3, <2>2
    <3>2. subscribed'[s] # {}
      BY <1>1, <1>2, <2>2 DEF LastUser, TypeOK
    <3> QED BY <1>3, <1>4, <3>1, <3>2, Spending DEF TypeOK, Service
  <2> QED BY <2>1, <2>2
<1>6. TypeOK'
  BY <1>1, <1>2, <1>3, <1>4, <1>5 DEF TypeOK, Service, channel, waiting
<1>7. Link' /\ Marked'
  BY <1>1, <1>3, CallLink, CallMarked DEF channel
<1>8. \A t \in Sensors : Kept(t)'
  <2>1. Kept(s)'
    BY <1>5 DEF Kept
  <2>2. \A t \in Sensors \ {s} : Kept(t)'
    BY <1>2, <1>5 DEF Kept
  <2> QED BY <2>1, <2>2
<1>9. Recovery'
  <2>1. \A t \in Sensors : Enabled(t) => Enabled(t)'
    BY <1>5 DEF Enabled
  <2>2. \A t \in Sensors : (info[t] # None => t \in failed) => (info'[t] # None => t \in failed')
    BY <1>5
  <2> QED BY <1>1, <1>3, <1>4, <2>1, <2>2, CallRecovery
<1>10. Channel'
  BY <1>1, <1>2 DEF Channel, At, channel
<1> QED BY <1>6, <1>7, <1>8, <1>9, <1>10

\* The last user that unsubscribes closes the channel, when nothing has users.
LEMMA UnsubscribeKeeps ==
    ASSUME IInv, NEW s \in Sensors, NEW u \in Users, UnsubscribeSensor(s, u)
    PROVE  IInv'
<1> USE DEF IInv
<1>1. /\ unsubscribed' \in [Sensors -> SUBSET Users]
      /\ UNCHANGED <<subscribed, interval, known, info, deaths, observer, waiting, failed,
                     gaveUp, died>>
  BY DEF UnsubscribeSensor, TypeOK
<1>2. PICK c \in Connections :
        /\ server' = c.server
        /\ IF IsSubscribeMapEmpty(s) /\ created THEN DestroySensorDataChannel(c)
           ELSE Spend(c.cost) /\ UNCHANGED <<service, open, created>>
  BY DEF UnsubscribeSensor
<1>3. /\ c.server \in {"null", "live", "stale"} /\ c.cost \in Nat
      /\ c.server = "null" => server = "null"
      /\ server # "null" => c.server = server
  BY Connecting
<1>4. Unknown \in Service /\ service \in Service
  BY DEF TypeOK, Unknown, Service
<1>5. /\ errors' \in 0 .. MaxErrors /\ open' \in BOOLEAN /\ created' \in BOOLEAN
      /\ (created' => created)
      /\ service' \in {service, Unknown}
      /\ (UNCHANGED <<service, created>>) \/ \A t \in Sensors : subscribed[t] = {}
  <2>1. CASE IsSubscribeMapEmpty(s) /\ created
    <3>1. PICK r \in Replies(c) :
            /\ Spend(c.cost + r.cost)
            /\ open' = FALSE
            /\ IF r.ok THEN service' = Unknown /\ created' = FALSE
               ELSE UNCHANGED <<service, created>>
      BY <1>2, <2>1 DEF DestroySensorDataChannel
    <3>2. r.cost \in Nat
      BY Replying
    <3>3. errors' \in 0 .. MaxErrors
      BY <1>3, <3>1, <3>2, SpendingBoth
    <3> QED BY <2>1, <3>1, <3>3 DEF TypeOK, IsSubscribeMapEmpty
  <2>2. CASE ~(IsSubscribeMapEmpty(s) /\ created)
    BY <1>2, <1>3, <2>2, Spending DEF TypeOK
  <2> QED BY <2>1, <2>2
<1>6. TypeOK'
  <2>1. service' \in Service /\ (server' # "live" => service' = Unknown)
    BY <1>2, <1>3, <1>4, <1>5 DEF TypeOK
  <2> QED BY <1>1, <1>2, <1>3, <1>5, <2>1 DEF TypeOK, Service, waiting
<1>7. Link' /\ Marked'
  BY <1>1, <1>2, CallLink, CallMarked
<1>8. \A t \in Sensors : Kept(t)'
  BY <1>1, <1>5 DEF Kept, Unknown
<1>9. Recovery'
  <2>1. \A t \in Sensors : Enabled(t) => Enabled(t)'
    BY <1>1, <1>5 DEF Enabled, Kept, Unknown
  <2> QED BY <1>1, <1>2, <1>3, <2>1, CallRecovery
<1>10. Channel'
  BY <1>1, <1>5 DEF Channel, At
<1> QED BY <1>6, <1>7, <1>8, <1>9, <1>10

-----------------------------------------------------------------------------
(* The observers                                                           *)

\* Who takes the death makes the channel anew, and has the proxy to drop.
LEMMA ProcessKeeps ==
    ASSUME IInv, NEW o \in Observers, ProcessDeathObserver(o)
    PROVE  IInv'
<1> USE DEF IInv
<1>1. /\ deaths = 1 /\ deaths' = 0 /\ server = "stale"
      /\ \A p \in Observers : ~Holding(p)
      /\ UNCHANGED <<agent, created, known, server, info, service, waiting, failed, gaveUp,
                     died, errors>>
  BY DEF ProcessDeathObserver, Link, ChannelFree
<1>2. PICK st \in {"restore", "forget"} :
        /\ observer' \in [Observers -> Stages]
        /\ \A p \in Observers : observer'[p] = IF p = o THEN st ELSE observer[p]
        /\ st = "restore" <=> known
  <2>1. CASE known
    BY <2>1, Going DEF ProcessDeathObserver, Stages
  <2>2. CASE ~known
    BY <2>2, Going DEF ProcessDeathObserver, Stages
  <2> QED BY <2>1, <2>2
<1>3. open' \in BOOLEAN
  BY DEF ProcessDeathObserver, TypeOK
<1>4. TypeOK'
  <2>1. deaths' \in 0 .. MaxDeaths
    BY <1>1, ClientAssumption
  <2> QED BY <1>1, <1>2, <1>3, <2>1 DEF TypeOK, agent, waiting
<1>5. Link'
  BY <1>1, <1>2 DEF Link, At, ToForget, Holding
<1>6. Marked'
  BY <1>1, <1>2 DEF Marked, At
<1>7. \A s \in Sensors : Kept(s)'
  BY <1>1 DEF Kept, agent
<1>8. Recovery'
  BY <1>1, <1>2 DEF Recovery, Reconnecting, At
<1>9. Channel'
  BY <1>1, <1>2 DEF Channel, At, agent
<1> QED BY <1>4, <1>5, <1>6, <1>7, <1>8, <1>9

\* The channel is marked as made, or as closed, and nothing else changes.
LEMMA MarkKeeps ==
    ASSUME IInv, NEW o \in Observers, Restored(o) \/ GiveUp(o)
    PROVE  IInv'
<1> USE DEF IInv
<1>1. UNCHANGED <<agent, open, known, server, info, service, deaths, waiting, failed, gaveUp,
                  died, errors>>
  BY DEF Restored, GiveUp
<1>2. PICK st \in {"forget", "idle"} :
        /\ observer' \in [Observers -> Stages]
        /\ \A p \in Observers : observer'[p] = IF p = o THEN st ELSE observer[p]
        /\ st = "forget" <=> At(o, "restore")
        /\ st = "idle" <=> At(o, "giveUp")
        /\ created' \in BOOLEAN /\ (created' => known)
        /\ created' \/ (gaveUp /\ st # "forget")
  <2>1. CASE Restored(o)
    <3>1. /\ At(o, "restore") /\ created' = TRUE /\ known /\ Go(o, "forget")
      BY <2>1 DEF Restored, SetIsChannelCreated, Marked
    <3> QED BY <3>1, Going DEF Stages, At
  <2>2. CASE GiveUp(o)
    <3>1. /\ At(o, "giveUp") /\ created' = FALSE /\ gaveUp /\ Go(o, "idle")
      BY <2>2 DEF GiveUp, SetIsChannelCreated, Marked
    <3> QED BY <3>1, Going DEF Stages, At
  <2> QED BY <2>1, <2>2
<1>3. TypeOK'
  BY <1>1, <1>2 DEF TypeOK, agent, waiting
<1>4. Link'
  BY <1>1, <1>2 DEF Link, At, ToForget, Holding
<1>5. Marked'
  BY <1>1, <1>2 DEF Marked, At
<1>6. \A s \in Sensors : Kept(s)'
  BY <1>1 DEF Kept, agent
<1>7. Recovery'
  <2> SUFFICES ASSUME ~gaveUp PROVE Recovery'
    BY <1>1 DEF Recovery
  <2>1. st = "forget" /\ At(o, "restore") /\ ~At(o, "connect")
    BY <1>2 DEF Marked, At
  <2> QED BY <1>1, <1>2, <2>1 DEF Recovery, Reconnecting, At
<1>8. Channel'
  <2>1. \A p \in Observers : At(p, "forget") => p = o
    BY <1>2 DEF Link, At, Holding
  <2> QED BY <1>1, <1>2, <2>1 DEF Channel, At, agent
<1> QED BY <1>3, <1>4, <1>5, <1>6, <1>7, <1>8

\* The proxy that is dropped is one of a dead service.
LEMMA ForgetKeeps ==
    ASSUME IInv, NEW o \in Observers, Forget(o)
    PROVE  IInv'
<1> USE DEF IInv
<1>1. /\ At(o, "forget") /\ server = "stale" /\ deaths = 0 /\ server' = "null"
      /\ gaveUp' = FALSE
      /\ UNCHANGED <<agent, channel, info, service, deaths, waiting, failed, died, errors>>
  BY DEF Forget, ForgetProxy, Link, ToForget
<1>2. /\ observer' \in [Observers -> Stages]
      /\ \A p \in Observers : observer'[p] = IF p = o THEN "connect" ELSE observer[p]
  BY Going DEF Forget, Stages
<1>3. \A p \in Observers : Holding(p) => p = o
  BY <1>1 DEF Link, At, Holding
<1>4. TypeOK'
  BY <1>1, <1>2 DEF TypeOK, agent, channel, waiting
<1>5. Link'
  BY <1>1, <1>2, <1>3 DEF Link, At, ToForget, Holding
<1>6. Marked'
  BY <1>1, <1>2, <1>3 DEF Marked, At, Holding, channel
<1>7. \A s \in Sensors : Kept(s)'
  BY <1>1 DEF Kept, agent
<1>8. Recovery'
  BY <1>1, <1>2 DEF Recovery, Reconnecting, At
<1>9. Channel'
  BY <1>1 DEF Channel, At, agent, channel
<1> QED BY <1>4, <1>5, <1>6, <1>7, <1>8, <1>9

\* The observer finds or makes a proxy and goes on, or gives up.
LEMMA ConnectKeeps ==
    ASSUME IInv, NEW o \in Observers, InitServiceClient(o)
    PROVE  IInv'
<1> USE DEF IInv
<1>1. /\ At(o, "connect")
      /\ UNCHANGED <<agent, created, known, info, service, deaths, waiting, failed, died>>
  BY DEF InitServiceClient
<1>2. CASE \E c \in Connections :
             /\ c.server # "null"
             /\ server' = c.server
             /\ Go(o, IF known THEN "transfer" ELSE "reenable")
             /\ UNCHANGED <<open, gaveUp, errors>>
  <2>1. PICK c \in Connections :
             /\ c.server # "null"
             /\ server' = c.server
             /\ Go(o, IF known THEN "transfer" ELSE "reenable")
             /\ UNCHANGED <<open, gaveUp, errors>>
    BY <1>2
  <2>2. PICK st \in {"transfer", "reenable"} :
          /\ observer' \in [Observers -> Stages]
          /\ \A p \in Observers : observer'[p] = IF p = o THEN st ELSE observer[p]
    <3>1. CASE known
      BY <2>1, <3>1, Going DEF Stages
    <3>2. CASE ~known
      BY <2>1, <3>2, Going DEF Stages
    <3> QED BY <3>1, <3>2
  <2>3. /\ server' \in {"live", "stale"}
        /\ server' = "stale" <=> server = "stale"
        /\ server' # "live" => server # "live"
    BY <2>1, Connecting DEF TypeOK
  <2>4. TypeOK'
    BY <1>1, <2>1, <2>2, <2>3 DEF TypeOK, agent, waiting
  <2>5. Link'
    BY <1>1, <2>2, <2>3 DEF Link, At, ToForget, Holding
  <2>6. \A s \in Sensors : Kept(s)'
    BY <1>1 DEF Kept, agent
  <2>7. Recovery'
    BY <2>2, <2>3 DEF Recovery, Reconnecting, At
  <2>8. Channel' /\ Marked'
    BY <1>1, <2>1, <2>2 DEF Channel, Marked, At, agent
  <2> QED BY <2>4, <2>5, <2>6, <2>7, <2>8
<1>3. CASE /\ server = "null" /\ server' \in {"null", "live"}
           /\ Spend(1)
           /\ open' = (open /\ ~known)
           /\ gaveUp' = TRUE
           /\ Go(o, IF known THEN "giveUp" ELSE "idle")
  <2>1. PICK st \in {"giveUp", "idle"} :
          /\ observer' \in [Observers -> Stages]
          /\ \A p \in Observers : observer'[p] = IF p = o THEN st ELSE observer[p]
    <3>1. CASE known
      BY <1>3, <3>1, Going DEF Stages
    <3>2. CASE ~known
      BY <1>3, <3>2, Going DEF Stages
    <3> QED BY <3>1, <3>2
  <2>2. errors' \in 0 .. MaxErrors
    BY <1>3, Spending
  <2>3. open' \in BOOLEAN
    BY <1>3 DEF TypeOK
  <2>4. TypeOK'
    BY <1>1, <1>3, <2>1, <2>2, <2>3 DEF TypeOK, agent, waiting
  <2>5. Link'
    BY <1>1, <1>3, <2>1 DEF Link, At, ToForget, Holding
  <2>6. \A s \in Sensors : Kept(s)'
    BY <1>1 DEF Kept, agent
  <2>7. Recovery'
    BY <1>3 DEF Recovery
  <2>8. Channel' /\ Marked'
    BY <1>1, <1>3, <2>1 DEF Channel, Marked, At, agent
  <2> QED BY <2>4, <2>5, <2>6, <2>7, <2>8
<1> QED BY <1>2, <1>3 DEF InitServiceClient

\* The channel goes to the service there is, and the observer on to the sensors.
LEMMA TransferKeeps ==
    ASSUME IInv, NEW o \in Observers, TransferDataChannel(o)
    PROVE  IInv'
<1> USE DEF IInv
<1>1. /\ At(o, "transfer")
      /\ UNCHANGED <<agent, channel, server, info, deaths, waiting, failed, gaveUp, died>>
  BY DEF TransferDataChannel
<1>2. PICK r \in Replies([server |-> server]) :
        Spend(r.cost) /\ service' = [service EXCEPT !.channel = @ \/ (r.ok /\ open)]
  BY DEF TransferDataChannel
<1>3. r.ok \in BOOLEAN /\ r.cost \in Nat /\ (r.ok => server = "live")
  BY Replying
<1>4. /\ service' \in Service /\ service'.subs = service.subs
      /\ ~r.ok => service' = service
  BY <1>2, <1>3, OnlyChannel DEF TypeOK
<1>5. /\ observer' \in [Observers -> Stages]
      /\ \A p \in Observers : observer'[p] = IF p = o THEN "reenable" ELSE observer[p]
  BY Going DEF TransferDataChannel, Stages
<1>6. errors' \in 0 .. MaxErrors
  BY <1>2, <1>3, Spending
<1>7. TypeOK'
  BY <1>1, <1>3, <1>4, <1>5, <1>6 DEF TypeOK, Service, agent, channel, waiting
<1>8. Link' /\ Marked'
  BY <1>1, <1>5 DEF Link, Marked, At, ToForget, Holding, channel
<1>9. \A s \in Sensors : Kept(s)'
  BY <1>1, <1>4 DEF Kept, agent
<1>10. Recovery'
  BY <1>1, <1>5 DEF Recovery, Reconnecting, At
<1>11. Channel'
  BY <1>1, <1>5 DEF Channel, At, agent, channel
<1> QED BY <1>7, <1>8, <1>9, <1>10, <1>11

\* A living service is told every sensor of the map; one that died in between is
\* left to the observer of that death.
LEMMA ReenableKeeps ==
    ASSUME IInv, NEW o \in Observers, ReenableSensor(o)
    PROVE  IInv'
<1> USE DEF IInv
<1>1. /\ At(o, "reenable")
      /\ UNCHANGED <<agent, channel, server, info, deaths, waiting, gaveUp, died>>
  BY DEF ReenableSensor
<1>2. /\ observer' \in [Observers -> Stages]
      /\ \A p \in Observers : observer'[p] = IF p = o THEN "idle" ELSE observer[p]
  BY Going DEF ReenableSensor, Stages
<1>3. Link' /\ Marked'
  BY <1>1, <1>2 DEF Link, Marked, At, ToForget, Holding, channel
<1>4. Channel'
  BY <1>1, <1>2 DEF Channel, At, agent, channel
<1>5. CASE server = "live"
  <2>1. PICK refused \in SUBSET {s \in Sensors : info[s] # None} :
          /\ Spend(Cardinality(refused))
          /\ service' = [service EXCEPT !.subs =
                [s \in Sensors |-> IF info[s] # None /\ s \notin refused
                                   THEN info[s] ELSE service.subs[s]]]
          /\ failed' = failed \cup refused
    BY <1>5 DEF ReenableSensor
  <2>2. errors' \in 0 .. MaxErrors
    <3>1. IsFiniteSet(refused)
      BY ClientAssumption, FS_Subset
    <3> QED BY <2>1, <3>1, FS_CardinalityType, Spending
  <2>3. /\ service' \in Service
        /\ \A s \in Sensors : service'.subs[s] = IF info[s] # None /\ s \notin refused
                                              THEN info[s] ELSE service.subs[s]
    <3> DEFINE S == [s \in Sensors |-> IF info[s] # None /\ s \notin refused
                                       THEN info[s] ELSE service.subs[s]]
    <3>1. /\ service.subs \in [Sensors -> Intervals \cup {None}]
          /\ info \in [Sensors -> Intervals \cup {None}]
          /\ service.channel \in BOOLEAN
      BY DEF TypeOK
    <3>2. S \in [Sensors -> Intervals \cup {None}]
      BY <3>1
    <3>3. service' = [subs |-> S, channel |-> service.channel]
      BY <2>1 DEF TypeOK
    <3>4. \A s \in Sensors : S[s] = IF info[s] # None /\ s \notin refused
                                    THEN info[s] ELSE service.subs[s]
      OBVIOUS
    <3> HIDE DEF S
    <3> QED BY <3>1, <3>2, <3>3, <3>4 DEF Service
  <2>4. TypeOK'
    BY <1>1, <1>2, <1>5, <2>1, <2>2, <2>3 DEF TypeOK, Service, agent, channel, waiting
  <2>5. \A s \in Sensors : Kept(s)'
    BY <1>1, <2>1, <2>3 DEF Kept, agent
  <2>6. \A s \in Sensors : Enabled(s)'
    BY <1>1, <2>1, <2>3 DEF Enabled, Kept
  <2>7. Recovery'
    BY <1>1, <1>5, <2>6 DEF Recovery
  <2> QED BY <1>3, <1>4, <2>4, <2>5, <2>7
<1>6. CASE server # "live"
  <2>1. UNCHANGED <<service, failed, errors>>
    BY <1>6 DEF ReenableSensor
  <2>2. TypeOK'
    BY <1>1, <1>2, <2>1 DEF TypeOK, agent, channel, waiting
  <2>3. \A s \in Sensors : Kept(s)'
    BY <1>1, <2>1 DEF Kept, agent
  <2>4. Recovery'
    <3>1. CASE server = "stale"
      BY <1>1, <1>2, <3>1 DEF Link, Recovery, Reconnecting, ToForget, At
    <3>2. CASE server = "null"
      <4>1. \A s \in Sensors : service.subs[s] = None
        BY <3>2 DEF TypeOK, Unknown
      <4>2. \A p \in Observers : At(p, "connect") => At(p, "connect")' /\ ~At(p, "idle")'
        BY <1>1, <1>2 DEF At
      <4>3. \A s \in Sensors : (info[s] # None => s \in failed) => Enabled(s)'
        BY <1>1, <2>1, <4>1 DEF Enabled
      <4> QED BY <1>1, <2>1, <3>2, <4>2, <4>3 DEF Recovery, Reconnecting
    <3> QED BY <1>6, <3>1, <3>2 DEF TypeOK
  <2> QED BY <1>3, <1>4, <2>2, <2>3, <2>4
<1> QED BY <1>5, <1>6

-----------------------------------------------------------------------------
(* The theorems                                                            *)

\* Every step of the application, of the service and of the observers keeps the
\* invariant.
LEMMA NextKeeps == IInv /\ [Next]_vars => IInv'
<1> SUFFICES ASSUME IInv, [Next]_vars PROVE IInv'
  OBVIOUS
<1>1. CASE SomeBatch
  BY <1>1, SetBatchKeeps DEF SomeBatch
<1>2. CASE ServiceDies
  BY <1>2, DiesKeeps
<1>3. CASE \E s \in Sensors, u \in Users :
             \/ SubscribeSensor(s, u)
             \/ ActivateSensor(s, u)
             \/ DeactivateSensor(s, u)
             \/ UnsubscribeSensor(s, u)
  BY <1>3, SubscribeKeeps, ActivateKeeps, DeactivateKeeps, UnsubscribeKeeps
<1>4. CASE \E o \in Observers : Observe(o)
  BY <1>4, ProcessKeeps, MarkKeeps, ForgetKeeps, ConnectKeeps, TransferKeeps, ReenableKeeps
     DEF Observe
<1>5. CASE WaitToTransfer \/ Unregister
  BY <1>5, WaitKeeps
<1>6. CASE UNCHANGED vars
  BY <1>6 DEF IInv, TypeOK, Link, Kept, Recovery, Reconnecting, Enabled, Channel, Marked, vars,
              Unknown, At, ToForget, Holding
<1> QED BY <1>1, <1>2, <1>3, <1>4, <1>5, <1>6 DEF Next, OtherThanBatch

\* The proxy, the map, the service and the observers agree as IInv says, through
\* every interleaving of calls, deaths and reconnections.
THEOREM Inductive == Spec => []IInv
BY InitIInv, NextKeeps, PTL DEF Spec

\* ClientAgent!Mirrored: between reconnections the service has enabled exactly the
\* sensors of sensorInfoMap_, at their rates, and who has users has a channel; but
\* for failed calls and for reconnections that gave up.
THEOREM AlwaysMirrored == Spec => []Mirrored
<1>1. IInv => Mirrored
  BY DEF IInv, Recovery, Reconnecting, Enabled, Channel, Mirrored, Settled
<1> QED BY <1>1, Inductive, PTL

\* ClientAgent!NoGhost: the service drives no sensor for a process without users
\* of it, but for failed calls; a death of the service brings none back.
THEOREM AlwaysNoGhost == Spec => []NoGhost
<1>1. IInv => NoGhost
  BY DEF IInv, Kept, NoGhost
<1> QED BY <1>1, Inductive, PTL

-----------------------------------------------------------------------------
(* Sorting, and what is highest and lowest                                 *)

\* Max of a non-empty set of bounded numbers is a member above all the others.
LEMMA MaxOfBounded ==
    ASSUME NEW n \in Nat, NEW S \in SUBSET (0 .. n), S # {}
    PROVE  Max(S) \in S /\ \A x \in S : x <= Max(S)
<1> DEFINE T == {n - x : x \in S}
<1>1. T \in SUBSET Nat /\ T # {}
  <2>1. \A x \in S : n - x \in Nat
    OBVIOUS
  <2>2. \E x \in S : n - x \in T
    OBVIOUS
  <2> QED BY <2>1, <2>2
<1>2. Min(T) \in T /\ \A y \in T : Min(T) <= y
  <2> HIDE DEF T
  <2> QED BY <1>1, MinOfNats
<1>3. PICK m \in S : Min(T) = n - m
  BY <1>2
<1>4. \A x \in S : x <= m
  <2> TAKE x \in S
  <2>1. n - x \in T
    OBVIOUS
  <2>2. n - m <= n - x
    BY <1>2, <1>3, <2>1
  <2> QED BY <2>2
<1> HIDE DEF T
<1>5. \E x \in S : \A y \in S : x >= y
  BY <1>4
<1> QED BY <1>5 DEF Max

\* The first of the highest of finitely many values.
LEMMA HighestOf ==
    ASSUME NEW S \in SUBSET Nat, S # {}, NEW n \in Nat, NEW f, \A p \in S : f[p] \in 0 .. n
    PROVE  Highest(f, S) \in S /\ \A q \in S : f[q] <= f[Highest(f, S)]
<1> DEFINE V == {f[p] : p \in S}
<1>0. \A q \in S : f[q] \in Nat
  OBVIOUS
<1>1. Max(V) \in V /\ \A x \in V : x <= Max(V)
  <2>1. V \in SUBSET (0 .. n) /\ V # {}
    OBVIOUS
  <2> HIDE DEF V
  <2> QED BY <2>1, MaxOfBounded
<1> DEFINE P == {p \in S : f[p] = Max(V)}
<1>2. P \in SUBSET Nat /\ P # {}
  BY <1>1
<1>3. Min(P) \in P /\ \A p \in P : Min(P) <= p
  <2> HIDE DEF P
  <2> QED BY <1>2, MinOfNats
<1>4. \A q \in S : f[q] <= f[Min(P)]
  BY <1>1, <1>3
<1>5. \A q \in S : f[q] < f[Min(P)] \/ (f[q] = f[Min(P)] /\ Min(P) <= q)
  <2> TAKE q \in S
  <2>1. Min(P) \in S /\ f[Min(P)] = Max(V)
    BY <1>3
  <2>2. f[q] \in Nat /\ f[Min(P)] \in Nat /\ f[q] <= f[Min(P)]
    BY <1>0, <1>4, <2>1
  <2>3. f[q] = f[Min(P)] => Min(P) <= q
    BY <1>3, <2>1
  <2> HIDE DEF P, V
  <2> QED BY <2>2, <2>3
<1> HIDE DEF P, V
<1>6. \E p \in S : \A q \in S : f[q] < f[p] \/ (f[q] = f[p] /\ p <= q)
  <2>1. Min(P) \in S
    BY <1>3 DEF P
  <2> QED BY <1>5, <2>1
<1>7. /\ Highest(f, S) \in S
      /\ \A q \in S :
           f[q] < f[Highest(f, S)] \/ (f[q] = f[Highest(f, S)] /\ Highest(f, S) <= q)
  BY <1>6, Zenon DEF Highest
<1>8. \A x, y \in Nat : x < y \/ x = y => x <= y
  OBVIOUS
<1>9. \A q \in S : f[q] <= f[Highest(f, S)]
  <2> TAKE q \in S
  <2>1. f[q] \in Nat /\ f[Highest(f, S)] \in Nat
    BY <1>0, <1>7
  <2> QED BY <1>7, <1>8, <2>1
<1> QED BY <1>7, <1>9

\* The least of the values a function has on a set is one of them.
LEMMA LeastOf ==
    ASSUME NEW S, S # {}, NEW f, \A p \in S : f[p] \in Nat
    PROVE  /\ \E p \in S : Least(f, S) = f[p]
           /\ \A q \in S : Least(f, S) <= f[q]
<1> DEFINE V == {f[p] : p \in S}
<1>1. V \in SUBSET Nat /\ V # {}
  OBVIOUS
<1>2. Min(V) \in V /\ \A x \in V : Min(V) <= x
  <2> HIDE DEF V
  <2> QED BY <1>1, MinOfNats
<1>3. \E x \in V : \A q \in S : x <= f[q]
  BY <1>2
<1>4. Least(f, S) \in V /\ \A q \in S : Least(f, S) <= f[q]
  BY <1>3 DEF Least
<1> QED BY <1>4

\* Samples changes nothing.
LEMMA SamplesOf ==
    ASSUME NEW A, NEW f \in Seq(A)
    PROVE  Samples(f) = f
BY ConcatEmptySeq DEF Samples

\* The k-th of a finite set of numbers in order.
LEMMA InOrderSorted ==
    ASSUME NEW n \in Nat, NEW S \in SUBSET (0 .. n)
    PROVE  /\ InOrder(S) \in Seq(S)
           /\ \A i, j \in DOMAIN InOrder(S) : i < j => InOrder(S)[i] < InOrder(S)[j]
<1> DEFINE Upto(x) == {y \in S : y <= x}
           Rank(x) == Cardinality(Upto(x))
           N == Cardinality(S)
<1>1. IsFiniteSet(S) /\ N \in Nat
  <2>1. IsFiniteSet(0 .. n)
    BY FS_Interval
  <2>2. IsFiniteSet(S)
    BY <2>1, FS_Subset
  <2> QED BY <2>2, FS_CardinalityType
<1>2. \A x \in S : IsFiniteSet(Upto(x)) /\ Rank(x) \in Nat
  <2> TAKE x \in S
  <2>1. IsFiniteSet(Upto(x))
    BY <1>1, FS_Subset
  <2> QED BY <2>1, FS_CardinalityType
<1>3. \A k \in 1 .. N : \E x \in S : Rank(x) = k
  <2> DEFINE B == {k \in 1 .. N : ~ \E x \in S : Rank(x) = k}
  <2> SUFFICES ASSUME B # {} PROVE FALSE
    OBVIOUS
  <2> HIDE DEF Rank
  <2>1. PICK k \in B : \A j \in B : k <= j
    <3>1. B \in SUBSET Nat
      BY <1>1
    <3> HIDE DEF B
    <3> QED BY <3>1, MinOfNats
  <2>2. k \in 1 .. N /\ k \in Nat
    BY <1>1, <2>1
  <2> DEFINE Rest(x) == {y \in S : y > x}
  <2>3. ASSUME NEW U \in SUBSET S, Cardinality(U) = k - 1, \A u \in U, v \in S \ U : u < v
        PROVE  FALSE
    <3> DEFINE W == S \ U
    <3>1. W # {} /\ W \in SUBSET Nat
      <4>1. k - 1 # N
        BY <1>1, <2>2
      <4>2. U # S
        BY <2>3, <4>1
      <4>3. \A x \in S : x \in Nat
        OBVIOUS
      <4> QED BY <4>2, <4>3
    <3>2. Min(W) \in W /\ \A w \in W : Min(W) <= w
      <4> HIDE DEF W
      <4> QED BY <3>1, MinOfNats
    <3>3. Upto(Min(W)) = U \cup {Min(W)}
      <4>0. Min(W) \in S /\ Min(W) \notin U /\ \A y \in S : y \in Nat
        BY <3>2
      <4>1. \A y \in S : y <= Min(W) <=> y \in U \/ y = Min(W)
        <5> TAKE y \in S
        <5>1. CASE y \in U
          <6>1. y < Min(W) /\ y \in Nat /\ Min(W) \in Nat
            BY <2>3, <4>0, <5>1
          <6> QED BY <6>1, <5>1
        <5>2. CASE y \notin U
          <6>1. Min(W) <= y /\ y \in Nat /\ Min(W) \in Nat
            BY <3>2, <4>0, <5>2
          <6> QED BY <6>1, <5>2
        <5> QED BY <5>1, <5>2
      <4>2. U \subseteq S /\ Min(W) \in S
        BY <3>2
      <4> QED BY <4>1, <4>2
    <3>4. Rank(Min(W)) = k
      <4>1. IsFiniteSet(U) /\ Min(W) \notin U
        BY <1>1, <3>2, FS_Subset
      <4>2. Cardinality(U \cup {Min(W)}) = Cardinality(U) + 1
        BY <4>1, FS_AddElement
      <4>3. Rank(Min(W)) = Cardinality(U \cup {Min(W)})
        BY <3>3 DEF Rank
      <4>4. (k - 1) + 1 = k
        BY <2>2
      <4> QED BY <2>3, <4>2, <4>3, <4>4
    <3> QED BY <2>1, <3>2, <3>4
  <2>4. CASE k = 1
    BY <2>3, <2>4, FS_EmptySet
  <2>5. CASE k # 1
    <3>1. k - 1 \in 1 .. N /\ k - 1 \notin B
      <4>1. k - 1 \in 1 .. N
        BY <1>1, <2>2, <2>5
      <4>2. ~ (k <= k - 1)
        BY <2>2
      <4> QED BY <2>1, <4>1, <4>2
    <3>2. PICK x \in S : Rank(x) = k - 1
      BY <3>1
    <3>3. \A u \in Upto(x), v \in S \ Upto(x) : u < v
      OBVIOUS
    <3> QED BY <2>3, <3>2, <3>3 DEF Rank
  <2> QED BY <2>4, <2>5
<1> DEFINE s == [k \in 1 .. N |-> CHOOSE x \in S : Rank(x) = k]
<1>4. \A k \in 1 .. N : s[k] \in S /\ Rank(s[k]) = k
  <2> HIDE DEF Rank
  <2> QED BY <1>3
<1>5. s \in Seq(S)
  <2>1. \A k \in 1 .. N : s[k] \in S
    BY <1>4
  <2>2. s \in [1 .. N -> S]
    BY <2>1
  <2> HIDE DEF s
  <2> QED BY <1>1, <2>2
<1>6. InOrder(S) = s
  <2>1. InOrder(S) = Samples(s)
    BY DEF InOrder
  <2> HIDE DEF s
  <2> QED BY <1>5, <2>1, SamplesOf
<1>7. \A i, j \in 1 .. N : i < j => s[i] < s[j]
  <2> SUFFICES ASSUME NEW i \in 1 .. N, NEW j \in 1 .. N, i < j, ~ (s[i] < s[j]) PROVE FALSE
    OBVIOUS
  <2>1. s[i] \in S /\ s[j] \in S /\ Rank(s[i]) = i /\ Rank(s[j]) = j
    BY <1>4
  <2> HIDE DEF s
  <2>2. Upto(s[j]) \subseteq Upto(s[i])
    <3>0. \A x \in S : x \in Nat
      OBVIOUS
    <3>00. s[i] \in Nat /\ s[j] \in Nat
      BY <2>1, <3>0
    <3>1. s[j] <= s[i] /\ s[i] \in Nat /\ s[j] \in Nat
      BY <3>00
    <3>2. \A y \in S : y \in Nat /\ (y <= s[j] => y <= s[i])
      BY <3>1
    <3> QED BY <3>2
  <2>3. Rank(s[j]) <= Rank(s[i])
    BY <1>2, <2>1, <2>2, FS_Subset
  <2> QED BY <1>1, <2>1, <2>3
<1> QED BY <1>5, <1>6, <1>7

-----------------------------------------------------------------------------
(* The invariant of the search                                             *)

Floor == LowerAmp(heights, all)
Soft(q) == Below(heights[q], Floor)
Crest(i) == mountains[i].peak

\* Every peak that is left has the stretch of its own, and they are in order.
PeaksInOrder ==
    /\ heights \in Seq(0 .. FullScale)
    /\ ToSet(all) \subseteq DOMAIN heights
    /\ mountains \in Seq([first : Nat, peak : Nat, last : Nat])
    /\ \A i \in DOMAIN mountains :
         /\ Crest(i) \in ToSet(all)
         /\ mountains[i] = FindPeakBoundary(heights, Crest(i), Floor)
    /\ \A i, j \in DOMAIN mountains : i < j => Crest(i) < Crest(j)

\* A place between two places is a place too.
LEMMA Within ==
    ASSUME NEW n \in Nat, NEW a \in 1 .. n, NEW b \in 1 .. n, NEW i \in a .. b
    PROVE  i \in 1 .. n
OBVIOUS

\* The places of a sequence are the numbers up to its length.
LEMMA PlacesIn ==
    ASSUME NEW A, NEW s \in Seq(A)
    PROVE  Len(s) \in Nat /\ DOMAIN s = 1 .. Len(s) /\ (s # <<>> => Len(s) # 0)
OBVIOUS

\* So the peaks that are left have the places from one on.
LEMMA PlacesOf ==
    ASSUME PeaksInOrder
    PROVE  /\ Len(mountains) \in Nat /\ DOMAIN mountains = 1 .. Len(mountains)
           /\ \A i \in DOMAIN mountains : i \in Nat /\ 1 <= i /\ i <= Len(mountains)
           /\ mountains # <<>> => Len(mountains) # 0
<1> DEFINE R == [first : Nat, peak : Nat, last : Nat]
<1>1. mountains \in Seq(R)
  BY DEF PeaksInOrder
<1> HIDE DEF R
<1>2. /\ Len(mountains) \in Nat /\ DOMAIN mountains = 1 .. Len(mountains)
      /\ mountains # <<>> => Len(mountains) # 0
  BY <1>1, PlacesIn
<1> QED BY <1>2

\* A sample under a hundredth is not ten sevenths of what is over a tenth.
LEMMA NotAsDeep ==
    ASSUME NEW x \in Nat, NEW y \in Nat, NEW t \in Nat, t <= 10 * x, 100 * y < t
    PROVE  ~ (7 * x < 10 * y)
OBVIOUS

\* The peak k is in the stretch that is counted.
Of(k) == mountains[k].first = loop.first /\ mountains[k].last = loop.last

\* A peak and the next one, if both are there, have a sample under the threshold
\* between them.
Apart(k) ==
    k \in DOMAIN mountains /\ k + 1 \in DOMAIN mountains =>
      \E q \in Crest(k) .. Crest(k + 1) : Soft(q)

\* From the front of a stretch on.
AllOf ==
    /\ loop.next = loop.front + loop.more + 1
    /\ \A k \in loop.front .. loop.next - 1 : k \in DOMAIN mountains /\ Of(k)
    /\ Apart(loop.front - 1)

\* At the peak that was the last to be looked at.
Again ==
    /\ loop.next = loop.front /\ loop.more = 0
    /\ IF Of(loop.front) THEN Apart(loop.front) ELSE Apart(loop.front - 1)

\* One past it.
OnePast ==
    /\ loop.next = loop.front + 1 /\ loop.more = 1
    /\ Of(loop.front) /\ Apart(loop.front)

Counting ==
    mountains # <<>> =>
      /\ loop.front \in DOMAIN mountains
      /\ AllOf \/ Again \/ OnePast

\* What is looked at is a stretch, or the last peak of one and the peak behind it.
Deleting ==
    /\ loop.front \in DOMAIN mountains /\ loop.to \in DOMAIN mountains
    /\ loop.front < loop.to
    /\ \/ /\ \A k \in loop.front .. loop.to : Of(k)
          /\ Apart(loop.front - 1) /\ Apart(loop.to)
       \/ loop.to = loop.front + 1 /\ Of(loop.front) /\ Apart(loop.front)

\* Where the stretch begins and ends is of no account when there is no peak at all.
LoopShape ==
    loop \in [next : Nat, front : Nat, more : Nat, to : Nat,
              first : {loop.first}, last : {loop.last}]

Quiets ==
    /\ Soft(1) /\ Soft(Len(heights))
    /\ \A p \in ToSet(all) : ~ AtThreshold(p)

\* The peak i stands for p: it is in p's stretch and at least as high.
StandsFor(i, p) ==
    /\ Crest(i) \in FindPeakBoundary(heights, p, Floor).first
                   .. FindPeakBoundary(heights, p, Floor).last
    /\ heights[p] <= heights[Crest(i)]

StoodFor == Quiets => \A p \in ToSet(all) : \E i \in DOMAIN mountains : StandsFor(i, p)

ConvertInv ==
    /\ stage \in {"recorded", "peaks"} => data \in Seq(0 .. FullScale)
    /\ stage \in {"secondary", "delete"} => PeaksInOrder /\ LoopShape
    /\ stage = "secondary" => Counting
    /\ stage = "delete" => Deleting
    /\ stage \in {"secondary", "delete", "isolate"} => StoodFor

-----------------------------------------------------------------------------
(* The stretch around a peak                                               *)

\* A stretch contains its peak, and ends at the nearest samples under the threshold or
\* with the recording.
LEMMA BoundaryOf ==
    ASSUME NEW h \in Seq(Nat), NEW t \in Nat, NEW p \in DOMAIN h
    PROVE  LET b == FindPeakBoundary(h, p, t)
           IN  /\ b \in [first : Nat, peak : Nat, last : Nat] /\ b.peak = p
               /\ b.first \in 1 .. p /\ b.last \in p .. Len(h)
               /\ b.first = 1 \/ Below(h[b.first], t)
               /\ b.last = Len(h) \/ Below(h[b.last], t)
               /\ \A q \in 1 .. p : Below(h[q], t) => q <= b.first
               /\ \A q \in p .. Len(h) : Below(h[q], t) => b.last <= q
<1> DEFINE F == {1} \cup {q \in 1 .. p : Below(h[q], t)}
           L == {Len(h)} \cup {q \in p .. Len(h) : Below(h[q], t)}
           b == FindPeakBoundary(h, p, t)
<1>1. p \in 1 .. Len(h) /\ Len(h) \in Nat /\ p \in Nat
  OBVIOUS
<1>2. Max(F) \in F /\ \A q \in F : q <= Max(F)
  <2>1. F \in SUBSET (0 .. p) /\ F # {}
    BY <1>1
  <2> HIDE DEF F
  <2> QED BY <1>1, <2>1, MaxOfBounded
<1>3. Min(L) \in L /\ \A q \in L : Min(L) <= q
  <2>1. L \in SUBSET Nat /\ L # {}
    BY <1>1
  <2> HIDE DEF L
  <2> QED BY <2>1, MinOfNats
<1>4. b = [first |-> Max(F), peak |-> p, last |-> Min(L)]
  BY DEF FindPeakBoundary
<1>5. /\ Max(F) \in 1 .. p /\ Min(L) \in p .. Len(h)
      /\ Max(F) = 1 \/ Below(h[Max(F)], t)
      /\ Min(L) = Len(h) \/ Below(h[Min(L)], t)
  BY <1>1, <1>2, <1>3
<1>6. \A q \in 1 .. p : Below(h[q], t) => q <= Max(F)
  BY <1>2
<1>7. \A q \in p .. Len(h) : Below(h[q], t) => Min(L) <= q
  BY <1>3
<1> HIDE DEF F, L, b
<1>8. b.first = Max(F) /\ b.peak = p /\ b.last = Min(L)
  BY <1>4
<1>9. b \in [first : Nat, peak : Nat, last : Nat]
  BY <1>1, <1>4, <1>5
<1> QED BY <1>5, <1>6, <1>7, <1>8, <1>9 DEF b

\* Two peaks with no sample under the threshold between them have one stretch.
LEMMA OneStretch ==
    ASSUME NEW h \in Seq(Nat), NEW t \in Nat, NEW p \in DOMAIN h, NEW q \in DOMAIN h, p <= q,
           \A x \in p .. q : ~ Below(h[x], t)
    PROVE  /\ FindPeakBoundary(h, p, t).first = FindPeakBoundary(h, q, t).first
           /\ FindPeakBoundary(h, p, t).last = FindPeakBoundary(h, q, t).last
<1>1. p \in 1 .. Len(h) /\ q \in 1 .. Len(h) /\ Len(h) \in Nat
  OBVIOUS
<1>2. {x \in 1 .. p : Below(h[x], t)} = {x \in 1 .. q : Below(h[x], t)}
  <2>1. \A x \in 1 .. q : Below(h[x], t) => x \in 1 .. p
    BY <1>1
  <2>2. \A x \in 1 .. p : x \in 1 .. q
    BY <1>1
  <2> QED BY <2>1, <2>2
<1>3. {x \in p .. Len(h) : Below(h[x], t)} = {x \in q .. Len(h) : Below(h[x], t)}
  <2>1. \A x \in p .. Len(h) : Below(h[x], t) => x \in q .. Len(h)
    BY <1>1
  <2>2. \A x \in q .. Len(h) : x \in p .. Len(h)
    BY <1>1
  <2> QED BY <2>1, <2>2
<1> QED BY <1>2, <1>3 DEF FindPeakBoundary

\* Two peaks with one between them do not.
LEMMA TwoStretches ==
    ASSUME NEW h \in Seq(Nat), NEW t \in Nat, NEW p \in DOMAIN h, NEW q \in DOMAIN h,
           NEW x \in p .. q, Below(h[x], t), ~ Below(h[p], t)
    PROVE  FindPeakBoundary(h, p, t).first # FindPeakBoundary(h, q, t).first
<1>1. p \in 1 .. Len(h) /\ q \in 1 .. Len(h) /\ Len(h) \in Nat /\ x \in Nat
  OBVIOUS
<1>2. x # p
  OBVIOUS
<1>3. x \in 1 .. q /\ p < x
  BY <1>1, <1>2
<1>4. x <= FindPeakBoundary(h, q, t).first
  BY <1>3, BoundaryOf
<1>5. FindPeakBoundary(h, p, t).first \in 1 .. p /\ FindPeakBoundary(h, q, t).first \in 1 .. q
  BY BoundaryOf
<1> QED BY <1>1, <1>3, <1>4, <1>5

\* From a sample of a stretch one gets no further than its ends without crossing one
\* under the threshold.
LEMMA StaysIn ==
    ASSUME NEW h \in Seq(Nat), NEW t \in Nat, NEW p \in DOMAIN h,
           NEW x \in FindPeakBoundary(h, p, t).first .. FindPeakBoundary(h, p, t).last,
           NEW y \in DOMAIN h,
           \A z \in DOMAIN h : (x <= z /\ z <= y) \/ (y <= z /\ z <= x) => ~ Below(h[z], t)
    PROVE  y \in FindPeakBoundary(h, p, t).first .. FindPeakBoundary(h, p, t).last
<1> DEFINE f == FindPeakBoundary(h, p, t).first
           l == FindPeakBoundary(h, p, t).last
<1>1. p \in 1 .. Len(h) /\ y \in 1 .. Len(h) /\ Len(h) \in Nat
  OBVIOUS
<1>2. /\ f \in 1 .. p /\ l \in p .. Len(h)
      /\ f = 1 \/ Below(h[f], t)
      /\ l = Len(h) \/ Below(h[l], t)
  BY BoundaryOf
<1>4. x \in f .. l
  OBVIOUS
<1> HIDE DEF f, l
<1>3. f \in DOMAIN h /\ l \in DOMAIN h
  <2>1. DOMAIN h = 1 .. Len(h)
    OBVIOUS
  <2>2. f \in 1 .. Len(h) /\ l \in 1 .. Len(h)
    BY <1>1, <1>2
  <2> QED BY <2>1, <2>2
<1>5. f <= y
  <2> SUFFICES ASSUME y < f PROVE FALSE
    BY <1>1, <1>2
  <2>1. Below(h[f], t)
    BY <1>1, <1>2
  <2>2. y <= f /\ f <= x
    BY <1>1, <1>2, <1>4
  <2> QED BY <1>3, <2>1, <2>2
<1>6. y <= l
  <2> SUFFICES ASSUME l < y PROVE FALSE
    BY <1>1, <1>2
  <2>1. Below(h[l], t)
    BY <1>1, <1>2
  <2>2. x <= l /\ l <= y
    BY <1>1, <1>2, <1>4
  <2> QED BY <1>3, <2>1, <2>2
<1>7. y \in f .. l
  BY <1>1, <1>2, <1>5, <1>6
<1> QED BY <1>7 DEF f, l

-----------------------------------------------------------------------------
(* Peaks and the samples between them                                      *)

\* The threshold is a tenth of the lowest peak, so no peak is under it.
LEMMA PeakFacts ==
    ASSUME PeaksInOrder, ToSet(all) # {}
    PROVE  /\ Floor \in Nat
           /\ heights \in Seq(Nat)
           /\ \A p \in DOMAIN heights : heights[p] \in Nat
           /\ \A p \in ToSet(all) : p \in DOMAIN heights /\ p \in Nat /\ ~ Soft(p)
           /\ \A p \in ToSet(all) : Floor <= 10 * heights[p]
<1>1. heights \in Seq(Nat) /\ (\A p \in DOMAIN heights : heights[p] \in Nat)
  <2>1. heights \in Seq(0 .. FullScale) /\ FullScale \in Nat
    BY PeakAssumption DEF PeaksInOrder
  <2> QED BY <2>1
<1>2. \A p \in ToSet(all) : p \in DOMAIN heights /\ p \in Nat /\ heights[p] \in Nat
  BY <1>1 DEF PeaksInOrder
<1> DEFINE m == Least(heights, ToSet(all))
<1>3. (\E p \in ToSet(all) : m = heights[p]) /\ \A q \in ToSet(all) : m <= heights[q]
  BY <1>2, LeastOf
<1>4. m \in Nat /\ Floor = 10 * m
  BY <1>2, <1>3 DEF Floor, LowerAmp
<1> HIDE DEF m
<1>5. \A q \in ToSet(all) : ~ Soft(q)
  <2> TAKE q \in ToSet(all)
  <2>1. ~ (100 * heights[q] < 10 * m)
    BY <1>2, <1>3, <1>4
  <2> QED BY <1>4, <2>1 DEF Soft, Below
<1>6. Floor \in Nat
  BY <1>4
<1>7. \A q \in ToSet(all) : Floor <= 10 * heights[q]
  BY <1>2, <1>3, <1>4
<1> QED BY <1>1, <1>2, <1>5, <1>6, <1>7

\* The same, for a peak that is left.
LEMMA PeakAt ==
    ASSUME PeaksInOrder, NEW i \in DOMAIN mountains
    PROVE  /\ Crest(i) \in ToSet(all) /\ Crest(i) \in DOMAIN heights /\ Crest(i) \in Nat
           /\ ~ Soft(Crest(i)) /\ Floor <= 10 * heights[Crest(i)]
           /\ Floor \in Nat /\ heights \in Seq(Nat)
           /\ \A p \in DOMAIN heights : heights[p] \in Nat
           /\ mountains[i] = FindPeakBoundary(heights, Crest(i), Floor)
<1>1. Crest(i) \in ToSet(all) /\ mountains[i] = FindPeakBoundary(heights, Crest(i), Floor)
  BY DEF PeaksInOrder
<1> QED BY <1>1, PeakFacts

\* Neighbours have one stretch when nothing between them is under the threshold.
LEMMA Neighbours ==
    ASSUME PeaksInOrder, NEW i \in DOMAIN mountains, i + 1 \in DOMAIN mountains
    PROVE  IF \E q \in Crest(i) .. Crest(i + 1) : Soft(q)
           THEN mountains[i].first # mountains[i + 1].first
           ELSE /\ mountains[i].first = mountains[i + 1].first
                /\ mountains[i].last = mountains[i + 1].last
<1>0. i \in Nat
  BY PlacesOf
<1>1. i \in Nat /\ i < i + 1
  BY <1>0
<1>2. Crest(i) < Crest(i + 1)
  BY <1>1 DEF PeaksInOrder
<1>3. Crest(i) \in DOMAIN heights /\ Crest(i + 1) \in DOMAIN heights /\ ~ Soft(Crest(i))
  BY PeakAt
<1>4. /\ mountains[i] = FindPeakBoundary(heights, Crest(i), Floor)
      /\ mountains[i + 1] = FindPeakBoundary(heights, Crest(i + 1), Floor)
      /\ Floor \in Nat /\ heights \in Seq(Nat)
  BY PeakAt
<1>5. CASE \E q \in Crest(i) .. Crest(i + 1) : Soft(q)
  <2>1. PICK q \in Crest(i) .. Crest(i + 1) : Below(heights[q], Floor)
    BY <1>5 DEF Soft
  <2>2. ~ Below(heights[Crest(i)], Floor)
    BY <1>3 DEF Soft
  <2> QED BY <1>3, <1>4, <1>5, <2>1, <2>2, TwoStretches
<1>6. CASE ~ \E q \in Crest(i) .. Crest(i + 1) : Soft(q)
  <2>1. \A q \in Crest(i) .. Crest(i + 1) : ~ Below(heights[q], Floor)
    BY <1>6 DEF Soft
  <2>2. Crest(i) <= Crest(i + 1)
    BY <1>2, PeakAt
  <2> QED BY <1>3, <1>4, <1>6, <2>1, <2>2, OneStretch
<1> QED BY <1>5, <1>6

\* Two neighbours of the stretch that is counted are not apart, and a peak of it and one
\* that is not are.
LEMMA OfApart ==
    ASSUME PeaksInOrder, NEW i \in DOMAIN mountains, i + 1 \in DOMAIN mountains, Of(i)
    PROVE  Of(i + 1) <=> ~ Apart(i)
BY Neighbours DEF Of, Apart

\* Apart and what is kept are a matter of the peaks alone.
LEMMA SamePeaks ==
    ASSUME UNCHANGED <<heights, all, mountains>>
    PROVE  /\ PeaksInOrder' <=> PeaksInOrder
           /\ StoodFor' <=> StoodFor
           /\ \A k : Apart(k)' <=> Apart(k)
           /\ \A k : Crest(k)' = Crest(k)
BY DEF PeaksInOrder, StoodFor, Apart, Crest, Soft, Floor, Quiets, StandsFor, AtThreshold

\* Which peaks are counted is a matter of the stretch the loop is in.
LEMMA SameStretch ==
    ASSUME UNCHANGED mountains, loop'.first = loop.first, loop'.last = loop.last
    PROVE  \A k : Of(k)' <=> Of(k)
BY DEF Of

-----------------------------------------------------------------------------
(* Counting                                                                *)

\* The loop is the record of its counters.
LEMMA LoopFields ==
    ASSUME LoopShape
    PROVE  /\ loop.next \in Nat /\ loop.front \in Nat /\ loop.more \in Nat /\ loop.to \in Nat
           /\ loop = [next |-> loop.next, front |-> loop.front, more |-> loop.more,
                      to |-> loop.to, first |-> loop.first, last |-> loop.last]
BY DEF LoopShape

\* Each turn of the count keeps what the count rests on: one more peak of the stretch, ...
LEMMA OneMoreCounts ==
    ASSUME PeaksInOrder, LoopShape, Counting, stage = "secondary", OneMore
    PROVE  Counting' /\ LoopShape' /\ PeaksInOrder'
<1>1. UNCHANGED <<heights, all, mountains>>
  BY DEF OneMore
<1>2. /\ loop'.next = loop.next + 1 /\ loop'.more = loop.more + 1
      /\ loop'.front = loop.front /\ loop'.first = loop.first /\ loop'.last = loop.last
      /\ LoopShape'
  <2>1. loop' = [next |-> loop.next + 1, front |-> loop.front, more |-> loop.more + 1,
                 to |-> loop.to, first |-> loop.first, last |-> loop.last]
    BY LoopFields, Zenon DEF OneMore
  <2> QED BY <2>1, LoopFields DEF LoopShape
<1>3. /\ loop.next \in Nat /\ loop.more \in Nat /\ loop.front \in Nat
      /\ loop.next \in DOMAIN mountains /\ Of(loop.next)
  BY DEF OneMore, Together, Of, LoopShape
<1>4. loop.front \in DOMAIN mountains
  BY <1>3 DEF Counting
<1>5. CASE AllOf
  <2>1. \A k \in loop.front .. loop.next : k \in DOMAIN mountains /\ Of(k)
    BY <1>3, <1>5 DEF AllOf
  <2>2. AllOf'
    BY <1>1, <1>2, <1>3, <1>5, <2>1, SamePeaks, SameStretch DEF AllOf
  <2> QED BY <1>1, <1>2, <1>4, <2>2, SamePeaks DEF Counting
<1>6. CASE Again
  <2>1. OnePast'
    BY <1>1, <1>2, <1>3, <1>6, SamePeaks, SameStretch DEF Again, OnePast
  <2> QED BY <1>1, <1>2, <1>4, <2>1, SamePeaks DEF Counting
<1>7. CASE OnePast
  <2> QED BY <1>3, <1>4, <1>7, OfApart DEF OnePast
<1> QED BY <1>3, <1>5, <1>6, <1>7 DEF Counting

\* ... the first peak of another stretch, ...
LEMMA NextStretchCounts ==
    ASSUME PeaksInOrder, LoopShape, Counting, stage = "secondary", NextStretch
    PROVE  Counting' /\ LoopShape' /\ PeaksInOrder'
<1>1. UNCHANGED <<heights, all, mountains>>
  BY DEF NextStretch
<1>2. /\ loop'.next = loop.next + 1 /\ loop'.more = loop.more /\ loop.more = 0
      /\ loop'.front = loop.next
      /\ loop'.first = mountains[loop.next].first /\ loop'.last = mountains[loop.next].last
      /\ LoopShape'
  <2>1. loop' = [next |-> loop.next + 1, front |-> loop.next, more |-> loop.more,
                 to |-> loop.to, first |-> mountains[loop.next].first,
                 last |-> mountains[loop.next].last]
    BY LoopFields, Zenon DEF NextStretch
  <2>2. loop.more = 0
    BY DEF NextStretch
  <2> QED BY <2>1, <2>2, LoopFields DEF LoopShape
<1>3. /\ loop.next \in Nat /\ loop.front \in Nat /\ loop.more \in Nat
      /\ loop.next <= Len(mountains) /\ ~ Together
  BY DEF NextStretch, LoopShape
<1>4. SUFFICES ASSUME mountains # <<>> PROVE Counting'
  BY <1>1, <1>2, SamePeaks DEF Counting
<1>5. loop.front \in DOMAIN mountains /\ loop.front \in Nat \ {0}
  <2>1. loop.front \in DOMAIN mountains
    BY <1>4 DEF Counting
  <2> QED BY <2>1, PlacesOf
<1>6. loop.next \in DOMAIN mountains
  <2>1. AllOf \/ Again \/ OnePast
    BY <1>4 DEF Counting
  <2>2. loop.front <= loop.next
    BY <1>3, <2>1 DEF AllOf, Again, OnePast
  <2> QED BY <1>3, <1>5, <2>2, PlacesOf
<1>7. ~ Of(loop.next)
  BY <1>3, <1>6 DEF Together, Of
<1>8. Apart(loop.next - 1)
  <2>1. CASE AllOf
    <3>1. loop.next = loop.front + 1 /\ Of(loop.front)
      BY <1>2, <1>3, <1>5, <2>1 DEF AllOf
    <3>2. Apart(loop.front)
      BY <1>5, <1>6, <1>7, <3>1, OfApart
    <3> QED BY <1>3, <1>5, <3>1, <3>2
  <2>2. CASE Again
    BY <1>7, <2>2 DEF Again
  <2>3. CASE OnePast
    BY <1>2, <2>3 DEF OnePast
  <2> QED BY <1>4, <2>1, <2>2, <2>3 DEF Counting
<1>9. Of(loop.front)'
  BY <1>1, <1>2 DEF Of
<1>10. AllOf'
  <2>1. \A k \in loop'.front .. loop'.next - 1 : k = loop.next
    BY <1>2, <1>3
  <2>2. Apart(loop.front - 1)'
    BY <1>1, <1>2, <1>8 DEF Apart, Crest, Soft, Floor
  <2>3. \A k \in loop'.front .. loop'.next - 1 : k \in DOMAIN mountains' /\ Of(k)'
    BY <1>1, <1>2, <1>6, <2>1 DEF Of
  <2> QED BY <1>2, <1>3, <2>2, <2>3 DEF AllOf
<1> QED BY <1>1, <1>2, <1>6, <1>10 DEF Counting

\* ... a stretch that is complete, ...
LEMMA StretchEndsCounts ==
    ASSUME PeaksInOrder, LoopShape, Counting, stage = "secondary", StretchEnds
    PROVE  Deleting' /\ LoopShape' /\ PeaksInOrder'
<1>1. UNCHANGED <<heights, all, mountains>>
  BY DEF StretchEnds
<1>0. Len(mountains) \in Nat /\ DOMAIN mountains = 1 .. Len(mountains)
  BY PlacesOf
<1>3. /\ loop.next \in Nat /\ loop.front \in Nat /\ loop.more \in Nat
      /\ loop.next <= Len(mountains) /\ loop.front < Len(mountains)
      /\ Together => loop.next = Len(mountains)
      /\ Members \in Nat /\ Members > 0
  BY <1>0 DEF StretchEnds, LoopShape, Members
<1>2. /\ loop'.to = loop.front + Members /\ loop'.front = loop.front
      /\ loop'.first = loop.first /\ loop'.last = loop.last
      /\ LoopShape'
  BY <1>3 DEF StretchEnds, LoopShape
<1>4. mountains # <<>>
  <2>1. Len(mountains) # 0
    BY <1>0, <1>3
  <2> QED BY <2>1
<1>5. loop.front \in DOMAIN mountains /\ loop.front \in Nat \ {0} /\ loop.next \in DOMAIN mountains
  <2>1. loop.front \in DOMAIN mountains /\ loop.front \in Nat \ {0}
    <3>1. loop.front \in DOMAIN mountains
      BY <1>4 DEF Counting
    <3> QED BY <3>1, PlacesOf
  <2>2. loop.next \in Nat \ {0}
    <3>1. AllOf \/ Again \/ OnePast
      BY <1>4 DEF Counting
    <3>2. loop.front <= loop.next
      BY <1>3, <3>1 DEF AllOf, Again, OnePast
    <3> QED BY <1>3, <2>1, <3>2
  <2> QED BY <1>0, <1>3, <2>1, <2>2
<1>6. Together <=> Of(loop.next)
  BY <1>5 DEF Together, Of
<1> SUFFICES Deleting'
  BY <1>1, <1>2, SamePeaks
<1> DEFINE to == loop.front + Members
<1>7. CASE AllOf
  <2>0. loop.next = loop.front + loop.more + 1
    BY <1>7 DEF AllOf
  <2>1. \/ Together /\ to = loop.next
        \/ ~ Together /\ to = loop.next - 1 /\ loop.more > 0
    BY <1>3, <2>0 DEF Members
  <2>2. /\ to \in DOMAIN mountains /\ loop.front < to /\ to \in Nat
        /\ \A k \in loop.front .. to : Of(k)
    <3> HIDE DEF to
    <3>1. \A k \in loop.front .. loop.next - 1 : k \in DOMAIN mountains /\ Of(k)
      BY <1>7 DEF AllOf
    <3>2. CASE Together /\ to = loop.next
      BY <1>3, <1>5, <1>6, <2>0, <3>1, <3>2
    <3>3. CASE ~ Together /\ to = loop.next - 1 /\ loop.more > 0
      BY <1>3, <1>5, <2>0, <3>1, <3>3
    <3> QED BY <2>1, <3>2, <3>3
  <2>3. Apart(to)
    <3> SUFFICES ASSUME to + 1 \in DOMAIN mountains PROVE Apart(to)
      BY DEF Apart
    <3> HIDE DEF to
    <3>0. to + 1 <= Len(mountains)
      BY <1>0
    <3>1. ~ Together /\ to + 1 = loop.next
      BY <1>3, <2>1, <2>2, <3>0
    <3>2. Of(to)
      BY <1>3, <2>2
    <3> QED BY <1>6, <2>2, <3>1, <3>2, OfApart
  <2>4. Apart(loop.front - 1)
    BY <1>7 DEF AllOf
  <2> HIDE DEF to
  <2>5. loop'.to = to
    BY <1>2 DEF to
  <2> QED BY <1>1, <1>2, <1>5, <2>2, <2>3, <2>4, <2>5, SamePeaks, SameStretch DEF Deleting
<1>8. CASE Again
  BY <1>0, <1>3, <1>5, <1>6, <1>8 DEF Again, Members
<1>9. CASE OnePast
  <2>1. ~ Of(loop.next)
    BY <1>5, <1>9, OfApart DEF OnePast
  <2>2. to = loop.front + 1 /\ to = loop.next
    BY <1>3, <1>6, <1>9, <2>1 DEF Members, OnePast
  <2>3. Of(loop.front) /\ Apart(loop.front)
    BY <1>9 DEF OnePast
  <2>4. loop.front < to
    BY <1>3, <2>2
  <2> HIDE DEF to
  <2>5. loop'.to = to
    BY <1>2 DEF to
  <2> QED BY <1>1, <1>2, <1>5, <2>2, <2>3, <2>4, <2>5, SamePeaks, SameStretch DEF Deleting
<1> QED BY <1>4, <1>7, <1>8, <1>9 DEF Counting

\* ... and one of which no more is deleted.
LEMMA NothingToDeleteCounts ==
    ASSUME PeaksInOrder, LoopShape, Deleting, NothingToDelete
    PROVE  Counting' /\ LoopShape' /\ PeaksInOrder'
<1>1. UNCHANGED <<heights, all, mountains>>
  BY DEF NothingToDelete
<1>2. /\ loop'.front = loop.to /\ loop'.next = loop.to /\ loop'.more = 0
      /\ loop'.first = loop.first /\ loop'.last = loop.last
      /\ LoopShape'
  BY DEF NothingToDelete, LoopShape
<1>3. /\ loop.front \in DOMAIN mountains /\ loop.to \in DOMAIN mountains
      /\ loop.front \in Nat /\ loop.to \in Nat /\ loop.front < loop.to
  BY DEF Deleting, LoopShape
<1>4. IF Of(loop.to) THEN Apart(loop.to) ELSE Apart(loop.to - 1)
  <2>1. CASE \A k \in loop.front .. loop.to : Of(k) /\ Apart(loop.front - 1) /\ Apart(loop.to)
    BY <1>3, <2>1
  <2>2. CASE loop.to = loop.front + 1 /\ Of(loop.front) /\ Apart(loop.front)
    <3>1. loop.to - 1 = loop.front
      BY <1>3, <2>2
    <3>2. ~ Of(loop.to)
      BY <1>3, <2>2, OfApart
    <3> QED BY <2>2, <3>1, <3>2
  <2> QED BY <1>3, <2>1, <2>2 DEF Deleting
<1>5. Again'
  BY <1>1, <1>2, <1>4, SamePeaks, SameStretch DEF Again
<1> QED BY <1>1, <1>2, <1>3, <1>5, SamePeaks DEF Counting

-----------------------------------------------------------------------------
(* Which peaks are deleted                                                 *)

\* The valley between two neighbours; and a peak above 30 % of which it stands has no
\* sample under the threshold on that side.
LEMMA LowestOf ==
    ASSUME PeaksInOrder, NEW i \in DOMAIN mountains, i + 1 \in DOMAIN mountains
    PROVE  /\ \E q \in DOMAIN heights : Lowest(i) = heights[q]
           /\ Lowest(i) \in Nat
           /\ \A p \in ToSet(all) : 7 * heights[p] < 10 * Lowest(i) =>
                \A q \in Crest(i) .. Crest(i + 1) : ~ Soft(q)
<1> DEFINE S == Crest(i) .. Crest(i + 1) - 1
<1>1. /\ Crest(i) \in Nat /\ Crest(i + 1) \in Nat /\ Crest(i) \in 1 .. Len(heights)
      /\ Crest(i + 1) \in 1 .. Len(heights) /\ ~ Soft(Crest(i + 1))
      /\ \A p \in DOMAIN heights : heights[p] \in Nat
      /\ heights \in Seq(Nat) /\ Floor \in Nat /\ ToSet(all) # {}
  BY PeakAt
<1>2. Crest(i) < Crest(i + 1)
  <2>1. i \in Nat
    BY PlacesOf
  <2>2. i < i + 1
    BY <2>1
  <2> QED BY <2>2 DEF PeaksInOrder
<1>3. S # {} /\ S \subseteq DOMAIN heights
  BY <1>1, <1>2
<1>4. (\E q \in S : Lowest(i) = heights[q]) /\ \A q \in S : Lowest(i) <= heights[q]
  <2>1. Lowest(i) = Least(heights, S)
    BY DEF Lowest, Crest
  <2>2. \A q \in S : heights[q] \in Nat
    BY <1>1, <1>3
  <2> HIDE DEF S
  <2> QED BY <1>3, <2>1, <2>2, LeastOf
<1>5. \A p \in ToSet(all) : 7 * heights[p] < 10 * Lowest(i) => \A q \in S : ~ Soft(q)
  <2> SUFFICES ASSUME NEW p \in ToSet(all), 7 * heights[p] < 10 * Lowest(i), NEW q \in S
               PROVE  ~ Soft(q)
    OBVIOUS
  <2> HIDE DEF S
  <2>1. Floor <= 10 * heights[p] /\ heights[p] \in Nat /\ heights[q] \in Nat
    BY <1>1, <1>3, PeakFacts
  <2>2. Lowest(i) <= heights[q] /\ Lowest(i) \in Nat
    BY <1>1, <1>3, <1>4
  <2>0. \A a, b, c, t \in Nat : t <= 10 * a /\ 7 * a < 10 * c /\ c <= b => ~ (100 * b < t)
    OBVIOUS
  <2>3. ~ (100 * heights[q] < Floor)
    BY <1>1, <2>0, <2>1, <2>2
  <2> QED BY <2>3 DEF Soft, Below
<1>6. \A q \in Crest(i) .. Crest(i + 1) : q \in S \/ q = Crest(i + 1)
  BY <1>1
<1>7. Lowest(i) \in Nat
  BY <1>1, <1>3, <1>4
<1> HIDE DEF S
<1> QED BY <1>1, <1>3, <1>4, <1>5, <1>6, <1>7

\* A peak's valley on a side rises to 70 % of it only if its neighbour there is in its
\* stretch.
LEMMA LeftValley ==
    ASSUME PeaksInOrder, Quiets, NEW k \in DOMAIN mountains
    PROVE  /\ Valley(k, "left") \in Nat
           /\ 7 * heights[Crest(k)] # 10 * Valley(k, "left")
           /\ 7 * heights[Crest(k)] < 10 * Valley(k, "left") =>
                /\ k - 1 \in DOMAIN mountains /\ Valley(k, "left") = Lowest(k - 1)
                /\ \A q \in Crest(k - 1) .. Crest(k) : ~ Soft(q)
<1>0. Len(mountains) \in Nat /\ DOMAIN mountains = 1 .. Len(mountains) /\ k \in Nat /\ k >= 1
  BY PlacesOf
<1>1. /\ Crest(k) \in ToSet(all) /\ heights[Crest(k)] \in Nat /\ Floor <= 10 * heights[Crest(k)]
      /\ Floor \in Nat /\ heights \in Seq(Nat) /\ Crest(k) \in DOMAIN heights
      /\ \A p \in DOMAIN heights : heights[p] \in Nat
      /\ mountains[k] = FindPeakBoundary(heights, Crest(k), Floor)
  BY PeakAt
<1>2. \A q \in DOMAIN heights : 7 * heights[Crest(k)] # 10 * heights[q]
  BY <1>1 DEF Quiets, AtThreshold
<1>3. CASE k > 1
  <2>0. k - 1 \in DOMAIN mountains /\ (k - 1) + 1 = k
    BY <1>0, <1>3
  <2>1. Valley(k, "left") = Lowest(k - 1)
    BY <1>3 DEF Valley
  <2>2. /\ \E q \in DOMAIN heights : Lowest(k - 1) = heights[q]
        /\ Lowest(k - 1) \in Nat
        /\ \A p \in ToSet(all) : 7 * heights[p] < 10 * Lowest(k - 1) =>
             \A q \in Crest(k - 1) .. Crest(k) : ~ Soft(q)
    BY <2>0, LowestOf
  <2> QED BY <1>1, <1>2, <2>0, <2>1, <2>2
<1>4. CASE k = 1
  <2> DEFINE f == mountains[1].first
  <2>1. Valley(k, "left") = heights[f]
    BY <1>4 DEF Valley
  <2> DEFINE b == FindPeakBoundary(heights, Crest(k), Floor)
  <2>0. b.first \in 1 .. Crest(k) /\ (b.first = 1 \/ Below(heights[b.first], Floor))
    BY <1>1, BoundaryOf
  <2>2. f \in 1 .. Crest(k) /\ (f = 1 \/ Below(heights[f], Floor))
    <3> HIDE DEF b
    <3>1. mountains[1] = b
      BY <1>1, <1>4 DEF b
    <3> QED BY <2>0, <3>1
  <2>3. f \in DOMAIN heights
    BY <1>1, <2>2
  <2>4. 100 * heights[f] < Floor
    BY <2>2 DEF Quiets, Soft, Below
  <2> HIDE DEF f
  <2>5. heights[f] \in Nat
    BY <1>1, <2>3
  <2>6. ~ (7 * heights[Crest(k)] < 10 * heights[f])
    BY <1>1, <2>4, <2>5, NotAsDeep
  <2> QED BY <1>2, <2>1, <2>3, <2>5, <2>6
<1> QED BY <1>0, <1>3, <1>4

\* The same on the other side, up to the last peak that is looked at.
LEMMA RightValley ==
    ASSUME PeaksInOrder, Quiets, loop.to \in DOMAIN mountains, NEW k \in DOMAIN mountains,
           k <= loop.to
    PROVE  /\ Valley(k, "right") \in Nat
           /\ 7 * heights[Crest(k)] # 10 * Valley(k, "right")
           /\ 7 * heights[Crest(k)] < 10 * Valley(k, "right") =>
                /\ k < loop.to /\ k + 1 \in DOMAIN mountains
                /\ \A q \in Crest(k) .. Crest(k + 1) : ~ Soft(q)
<1>0. /\ Len(mountains) \in Nat /\ DOMAIN mountains = 1 .. Len(mountains)
      /\ k \in Nat /\ loop.to \in Nat
  BY PlacesOf
<1>1. /\ Crest(k) \in ToSet(all) /\ heights[Crest(k)] \in Nat /\ Floor <= 10 * heights[Crest(k)]
      /\ Floor \in Nat /\ heights \in Seq(Nat) /\ Crest(k) \in DOMAIN heights
      /\ \A p \in DOMAIN heights : heights[p] \in Nat
      /\ mountains[k] = FindPeakBoundary(heights, Crest(k), Floor)
  BY PeakAt
<1>2. \A q \in DOMAIN heights : 7 * heights[Crest(k)] # 10 * heights[q]
  BY <1>1 DEF Quiets, AtThreshold
<1>3. CASE k < loop.to
  <2>0. k + 1 \in DOMAIN mountains
    BY <1>0, <1>3
  <2>1. Valley(k, "right") = Lowest(k)
    BY <1>3 DEF Valley
  <2>2. /\ \E q \in DOMAIN heights : Lowest(k) = heights[q]
        /\ Lowest(k) \in Nat
        /\ \A p \in ToSet(all) : 7 * heights[p] < 10 * Lowest(k) =>
             \A q \in Crest(k) .. Crest(k + 1) : ~ Soft(q)
    BY <2>0, LowestOf
  <2> QED BY <1>1, <1>2, <1>3, <2>0, <2>1, <2>2
<1>4. CASE ~ (k < loop.to)
  <2> DEFINE l == mountains[k].last
  <2>1. Valley(k, "right") = heights[l]
    BY <1>4 DEF Valley
  <2> DEFINE b == FindPeakBoundary(heights, Crest(k), Floor)
  <2>0. b.last \in Crest(k) .. Len(heights) /\ (b.last = Len(heights) \/ Below(heights[b.last], Floor))
    BY <1>1, BoundaryOf
  <2>2. l \in Crest(k) .. Len(heights) /\ (l = Len(heights) \/ Below(heights[l], Floor))
    <3> HIDE DEF b
    <3>1. mountains[k] = b
      BY <1>1 DEF b
    <3> QED BY <2>0, <3>1
  <2>3. l \in DOMAIN heights
    BY <1>1, <2>2
  <2>4. 100 * heights[l] < Floor
    BY <2>2 DEF Quiets, Soft, Below
  <2> HIDE DEF l
  <2>5. heights[l] \in Nat
    BY <1>1, <2>3
  <2>6. ~ (7 * heights[Crest(k)] < 10 * heights[l])
    BY <1>1, <2>4, <2>5, NotAsDeep
  <2> QED BY <1>2, <2>1, <2>3, <2>5, <2>6
<1> QED BY <1>3, <1>4

\* What the flag says, in terms of the valleys.
LEMMA FlagOf ==
    ASSUME NEW k, heights[Crest(k)] \in Nat, Valley(k, "left") \in Nat, Valley(k, "right") \in Nat,
           7 * heights[Crest(k)] # 10 * Valley(k, "left")
    PROVE  LET P == heights[Crest(k)]
               vl == Valley(k, "left")
               vr == Valley(k, "right")
           IN  /\ TRUE \in GetDeleteFlagOfPeak(k) =>
                    \/ 7 * P < 10 * vl /\ 7 * P < 10 * vr
                    \/ 7 * P < 10 * vr /\ TRUE \in Under(k, k + 1)
                    \/ 7 * P < 10 * vl /\ TRUE \in Under(k, k - 1)
               /\ FALSE \in GetDeleteFlagOfPeak(k) /\ 7 * P < 10 * vr => FALSE \in Under(k, k + 1)
<1> DEFINE P == heights[Crest(k)]
           vl == Valley(k, "left")
           vr == Valley(k, "right")
<1>0. P \in Nat /\ vl \in Nat /\ vr \in Nat /\ 7 * P # 10 * vl
  OBVIOUS
<1> DEFINE l == 10 * (P - vl) - 3 * P
           r == 10 * (P - vr) - 3 * P
<1>1. /\ l < 0 <=> 7 * P < 10 * vl
      /\ r < 0 <=> 7 * P < 10 * vr
      /\ l # 0
      /\ l < 0 \/ l = 0 \/ l > 0
      /\ r < 0 => ~ (r > 0)
      /\ l < 0 => ~ (l > 0)
  <2> HIDE DEF P, vl, vr
  <2> QED BY <1>0
<1>2. GetDeleteFlagOfPeak(k) =
        CASE l < 0 /\ r < 0 -> {TRUE}
          [] l > 0 /\ r < 0 -> Under(k, k + 1)
          [] l < 0 /\ r > 0 -> Under(k, k - 1)
          [] OTHER          -> {FALSE}
  BY DEF GetDeleteFlagOfPeak, Crest
<1> HIDE DEF l, r
<1>3. CASE l < 0 /\ r < 0
  <2>1. GetDeleteFlagOfPeak(k) = {TRUE}
    BY <1>1, <1>2, <1>3
  <2> QED BY <1>1, <1>3, <2>1
<1>4. CASE l > 0 /\ r < 0
  <2>1. GetDeleteFlagOfPeak(k) = Under(k, k + 1)
    BY <1>1, <1>2, <1>4
  <2> QED BY <1>1, <1>4, <2>1
<1>5. CASE l < 0 /\ r > 0
  <2>1. GetDeleteFlagOfPeak(k) = Under(k, k - 1)
    BY <1>1, <1>2, <1>5
  <2> QED BY <1>1, <1>5, <2>1
<1>6. CASE ~ (l < 0 /\ r < 0) /\ ~ (l > 0 /\ r < 0) /\ ~ (l < 0 /\ r > 0)
  <2>1. GetDeleteFlagOfPeak(k) = {FALSE}
    BY <1>2, <1>6
  <2>2. ~ (r < 0)
    BY <1>1, <1>6
  <2> QED BY <1>1, <2>1, <2>2
<1> QED BY <1>3, <1>4, <1>5, <1>6

\* A peak that goes has a neighbour in its stretch that is at least as high.
LEMMA HigherNeighbour ==
    ASSUME PeaksInOrder, LoopShape, Deleting, Quiets, NEW k \in loop.front .. loop.to,
           TRUE \in GetDeleteFlagOfPeak(k),
           \A j \in loop.front .. k - 1 : FALSE \in GetDeleteFlagOfPeak(j)
    PROVE  \/ /\ k - 1 \in DOMAIN mountains /\ heights[Crest(k)] <= heights[Crest(k - 1)]
              /\ \A q \in Crest(k - 1) .. Crest(k) : ~ Soft(q)
           \/ /\ k + 1 \in DOMAIN mountains /\ heights[Crest(k)] <= heights[Crest(k + 1)]
              /\ \A q \in Crest(k) .. Crest(k + 1) : ~ Soft(q)
<1>1. /\ loop.front \in DOMAIN mountains /\ loop.to \in DOMAIN mountains
      /\ loop.front \in Nat /\ loop.to \in Nat /\ loop.front < loop.to
      /\ k \in DOMAIN mountains /\ k \in Nat /\ k <= loop.to /\ loop.front <= k
  <2>1. /\ loop.front \in DOMAIN mountains /\ loop.to \in DOMAIN mountains
        /\ loop.front < loop.to
    BY DEF Deleting
  <2>2. loop.front \in 1 .. Len(mountains) /\ loop.to \in 1 .. Len(mountains)
    BY <2>1, PlacesOf
  <2>3. Len(mountains) \in Nat /\ DOMAIN mountains = 1 .. Len(mountains)
    BY PlacesOf
  <2>4. /\ loop.front \in Nat /\ loop.to \in Nat
        /\ k \in Nat /\ k <= loop.to /\ loop.front <= k
    BY <2>2
  <2>5. k \in 1 .. Len(mountains)
    BY <2>2, <2>3, Within
  <2> QED BY <2>1, <2>3, <2>4, <2>5
<1> DEFINE P(i) == heights[Crest(i)]
           vl(i) == Valley(i, "left")
           vr(i) == Valley(i, "right")
<1>2. \A i \in DOMAIN mountains : P(i) \in Nat
  BY PeakAt
<1>3. /\ vl(k) \in Nat /\ 7 * P(k) # 10 * vl(k)
      /\ 7 * P(k) < 10 * vl(k) =>
           /\ k - 1 \in DOMAIN mountains /\ vl(k) = Lowest(k - 1)
           /\ \A q \in Crest(k - 1) .. Crest(k) : ~ Soft(q)
  BY <1>1, LeftValley
<1>4. /\ vr(k) \in Nat
      /\ 7 * P(k) < 10 * vr(k) =>
           /\ k < loop.to /\ k + 1 \in DOMAIN mountains
           /\ \A q \in Crest(k) .. Crest(k + 1) : ~ Soft(q)
  BY <1>1, RightValley
<1>5. \A i, j \in DOMAIN mountains : TRUE \in Under(i, j) => P(i) <= P(j)
  <2> TAKE i, j \in DOMAIN mountains
  <2>1. Under(i, j) = {P(i) < P(j)}
    BY DEF Under, Crest
  <2>2. P(i) \in Nat /\ P(j) \in Nat
    BY <1>2
  <2> HIDE DEF P
  <2>3. TRUE \in {P(i) < P(j)} => P(i) < P(j)
    BY Zenon
  <2>4. P(i) < P(j) => P(i) <= P(j)
    BY <2>2
  <2> QED BY <2>1, <2>3, <2>4
<1>6. CASE 7 * P(k) < 10 * vl(k) /\ 7 * P(k) < 10 * vr(k)
  <2>1. k - 1 \in DOMAIN mountains /\ (\A q \in Crest(k - 1) .. Crest(k) : ~ Soft(q))
    BY <1>3, <1>6
  <2>2. k + 1 \in DOMAIN mountains /\ (\A q \in Crest(k) .. Crest(k + 1) : ~ Soft(q))
    BY <1>4, <1>6
  <2>3. (k - 1) + 1 = k /\ ~ Apart(k - 1) /\ ~ Apart(k)
    BY <1>1, <2>1, <2>2 DEF Apart
  <2>4. loop.front < k
    <3>1. CASE Apart(loop.front - 1)
      <4>1. k # loop.front
        BY <2>3, <3>1
      <4> QED BY <1>1, <4>1
    <3>2. CASE loop.to = loop.front + 1 /\ Apart(loop.front)
      <4>1. k = loop.front \/ k - 1 = loop.front
        BY <1>1, <3>2
      <4> QED BY <2>3, <3>2, <4>1
    <3> QED BY <3>1, <3>2 DEF Deleting
  <2>5. SUFFICES ASSUME ~ (P(k) <= P(k - 1)) PROVE FALSE
    BY <2>1
  <2>6. /\ k - 1 \in loop.front .. k - 1 /\ k - 1 < loop.to
        /\ P(k - 1) \in Nat /\ P(k) \in Nat /\ P(k - 1) < P(k)
    BY <1>1, <1>2, <2>1, <2>4, <2>5
  <2>7. vr(k - 1) = vl(k)
    <3>1. vr(k - 1) = Lowest(k - 1)
      BY <2>6 DEF Valley
    <3> QED BY <1>3, <1>6, <3>1
  <2>8. vl(k - 1) \in Nat /\ 7 * P(k - 1) # 10 * vl(k - 1)
    BY <2>1, LeftValley
  <2>9. FALSE \in Under(k - 1, k)
    <3>1. FALSE \in GetDeleteFlagOfPeak(k - 1)
      BY <2>6
    <3>2. 7 * P(k - 1) < 10 * vr(k - 1) /\ vr(k - 1) \in Nat
      <4> HIDE DEF P, vl, vr
      <4> QED BY <1>3, <1>6, <2>6, <2>7
    <3>3. FALSE \in Under(k - 1, (k - 1) + 1)
      BY <2>6, <2>8, <3>1, <3>2, FlagOf
    <3> QED BY <2>3, <3>3
  <2>10. Under(k - 1, k) = {P(k - 1) < P(k)}
    BY <1>1 DEF Under, Crest
  <2> QED BY <2>6, <2>9, <2>10
<1>7. CASE 7 * P(k) < 10 * vr(k) /\ TRUE \in Under(k, k + 1)
  BY <1>1, <1>4, <1>5, <1>7
<1>8. CASE 7 * P(k) < 10 * vl(k) /\ TRUE \in Under(k, k - 1)
  BY <1>1, <1>3, <1>5, <1>8
<1>9. \/ 7 * P(k) < 10 * vl(k) /\ 7 * P(k) < 10 * vr(k)
      \/ 7 * P(k) < 10 * vr(k) /\ TRUE \in Under(k, k + 1)
      \/ 7 * P(k) < 10 * vl(k) /\ TRUE \in Under(k, k - 1)
  BY <1>1, <1>2, <1>3, <1>4, FlagOf
<1> QED BY <1>6, <1>7, <1>8, <1>9

-----------------------------------------------------------------------------
(* Deleting one                                                            *)

\* The place a peak had before the k-th was deleted.
Old(i, k) == IF i < k THEN i ELSE i + 1

\* Every entry that is left of a sequence was there before, at its old place.
LEMMA RemoveAtOf ==
    ASSUME NEW A, NEW s \in Seq(A), NEW k \in DOMAIN s
    PROVE  /\ RemoveAt(s, k) \in Seq(A) /\ Len(RemoveAt(s, k)) = Len(s) - 1
           /\ \A i \in DOMAIN RemoveAt(s, k) :
                Old(i, k) \in DOMAIN s \ {k} /\ RemoveAt(s, k)[i] = s[Old(i, k)]
<1> DEFINE a == SubSeq(s, 1, k - 1)
           b == SubSeq(s, k + 1, Len(s))
<1>1. k \in 1 .. Len(s) /\ Len(s) \in Nat /\ k \in Nat
  OBVIOUS
<1>2. /\ a \in Seq(A) /\ Len(a) = k - 1
      /\ \A i \in 1 .. k - 1 : a[i] = s[i]
  BY <1>1, SubSeqProperties
<1>3. /\ b \in Seq(A) /\ Len(b) = Len(s) - k
      /\ \A i \in 1 .. Len(s) - k : b[i] = s[k + i]
  BY <1>1, SubSeqProperties
<1>4. RemoveAt(s, k) = a \o b
  BY DEF RemoveAt
<1> HIDE DEF a, b
<1>5. /\ a \o b \in Seq(A) /\ Len(a \o b) = Len(s) - 1
      /\ \A i \in 1 .. Len(s) - 1 : (a \o b)[i] = IF i <= k - 1 THEN a[i] ELSE b[i - (k - 1)]
  <2>1. /\ a \o b \in Seq(A) /\ Len(a \o b) = Len(a) + Len(b)
        /\ \A i \in 1 .. Len(a) + Len(b) :
             (a \o b)[i] = IF i <= Len(a) THEN a[i] ELSE b[i - Len(a)]
    BY <1>2, <1>3, ConcatProperties
  <2>2. Len(a) + Len(b) = Len(s) - 1
    BY <1>1, <1>2, <1>3
  <2>3. Len(a) = k - 1
    BY <1>2
  <2> QED BY <2>1, <2>2, <2>3
<1>6. \A i \in 1 .. Len(s) - 1 : Old(i, k) \in 1 .. Len(s) /\ Old(i, k) # k
                                 /\ (a \o b)[i] = s[Old(i, k)]
  <2> TAKE i \in 1 .. Len(s) - 1
  <2>1. CASE i < k
    BY <1>1, <1>2, <1>5, <2>1 DEF Old
  <2>2. CASE ~ (i < k)
    <3>1. i - (k - 1) \in 1 .. Len(s) - k /\ k + (i - (k - 1)) = i + 1
      BY <1>1, <2>2
    <3>2. (a \o b)[i] = b[i - (k - 1)]
      BY <1>1, <1>5, <2>2
    <3>3. b[i - (k - 1)] = s[i + 1]
      BY <1>3, <3>1
    <3> QED BY <1>1, <2>2, <3>2, <3>3 DEF Old
  <2> QED BY <2>1, <2>2
<1> QED BY <1>1, <1>4, <1>5, <1>6

\* The peaks that are left, and what lies between them.
LEMMA Deleted ==
    ASSUME PeaksInOrder, NEW k \in DOMAIN mountains, mountains' = RemoveAt(mountains, k),
           UNCHANGED <<heights, all>>
    PROVE  /\ PeaksInOrder'
           /\ Len(mountains') = Len(mountains) - 1
           /\ \A i \in DOMAIN mountains' :
                Old(i, k) \in DOMAIN mountains \ {k} /\ mountains'[i] = mountains[Old(i, k)]
           /\ \A i \in Nat : i + 1 < k /\ Apart(i) => Apart(i)'
           /\ \A i \in Nat : k <= i /\ Apart(i + 1) => Apart(i)'
           /\ Apart(k) \/ Apart(k - 1) => Apart(k - 1)'
<1>0. /\ mountains \in Seq([first : Nat, peak : Nat, last : Nat]) /\ k \in Nat \ {0}
      /\ Len(mountains) \in Nat /\ DOMAIN mountains = 1 .. Len(mountains)
  BY PlacesOf DEF PeaksInOrder
<1>1. /\ mountains' \in Seq([first : Nat, peak : Nat, last : Nat])
      /\ Len(mountains') = Len(mountains) - 1
      /\ \A i \in DOMAIN mountains' :
           Old(i, k) \in DOMAIN mountains \ {k} /\ mountains'[i] = mountains[Old(i, k)]
  <2> DEFINE A == [first : Nat, peak : Nat, last : Nat]
  <2>1. mountains \in Seq(A)
    BY <1>0
  <2> HIDE DEF A
  <2>2. /\ RemoveAt(mountains, k) \in Seq(A) /\ Len(RemoveAt(mountains, k)) = Len(mountains) - 1
        /\ \A i \in DOMAIN RemoveAt(mountains, k) :
             Old(i, k) \in DOMAIN mountains \ {k}
             /\ RemoveAt(mountains, k)[i] = mountains[Old(i, k)]
    BY <2>1, RemoveAtOf
  <2> QED BY <2>2 DEF A
<1>2. \A i \in DOMAIN mountains' : Crest(i)' = Crest(Old(i, k)) /\ i \in Nat
  BY <1>1 DEF Crest
<1>3. \A i, j \in DOMAIN mountains : i < j => Crest(i) < Crest(j)
  BY DEF PeaksInOrder
<1>4. PeaksInOrder'
  <2>1. \A i \in DOMAIN mountains' :
          /\ Crest(i)' \in ToSet(all)'
          /\ mountains'[i] = FindPeakBoundary(heights, Crest(i), Floor)'
    <3> TAKE i \in DOMAIN mountains'
    <3>1. Old(i, k) \in DOMAIN mountains
      BY <1>1
    <3>2. /\ Crest(Old(i, k)) \in ToSet(all)
          /\ mountains[Old(i, k)] = FindPeakBoundary(heights, Crest(Old(i, k)), Floor)
      BY <3>1 DEF PeaksInOrder
    <3>3. Floor' = Floor
      BY DEF Floor
    <3>4. FindPeakBoundary(heights, Crest(i), Floor)' = FindPeakBoundary(heights, Crest(Old(i, k)), Floor)
      BY <1>2, <3>3 DEF FindPeakBoundary
    <3> QED BY <1>1, <1>2, <3>2, <3>4
  <2>2. \A i, j \in DOMAIN mountains' : i < j => Crest(i)' < Crest(j)'
    <3> TAKE i, j \in DOMAIN mountains'
    <3>1. i < j => Old(i, k) < Old(j, k)
      BY <1>0, <1>2 DEF Old
    <3> QED BY <1>1, <1>2, <1>3, <3>1
  <2>3. heights' \in Seq(0 .. FullScale) /\ ToSet(all)' \subseteq DOMAIN heights'
    BY DEF PeaksInOrder
  <2> QED BY <1>1, <2>1, <2>2, <2>3 DEF PeaksInOrder
<1>5. \A q : Soft(q)' <=> Soft(q)
  BY DEF Soft, Floor
<1>6. ASSUME NEW i \in Nat, i + 1 < k, Apart(i) PROVE Apart(i)'
  <2> SUFFICES ASSUME i \in DOMAIN mountains', i + 1 \in DOMAIN mountains'
               PROVE  \E q \in Crest(i)' .. Crest(i + 1)' : Soft(q)'
    BY DEF Apart
  <2>1. Old(i, k) = i /\ Old(i + 1, k) = i + 1
    BY <1>0, <1>6 DEF Old
  <2> QED BY <1>1, <1>2, <1>5, <1>6, <2>1 DEF Apart
<1>7. ASSUME NEW i \in Nat, k <= i, Apart(i + 1) PROVE Apart(i)'
  <2> SUFFICES ASSUME i \in DOMAIN mountains', i + 1 \in DOMAIN mountains'
               PROVE  \E q \in Crest(i)' .. Crest(i + 1)' : Soft(q)'
    BY DEF Apart
  <2>1. Old(i, k) = i + 1 /\ Old(i + 1, k) = (i + 1) + 1
    BY <1>0, <1>7 DEF Old
  <2> QED BY <1>1, <1>2, <1>5, <1>7, <2>1 DEF Apart
<1>8. ASSUME Apart(k) \/ Apart(k - 1) PROVE Apart(k - 1)'
  <2> SUFFICES ASSUME k - 1 \in DOMAIN mountains', k \in DOMAIN mountains'
               PROVE  \E q \in Crest(k - 1)' .. Crest(k)' : Soft(q)'
    <3>1. (k - 1) + 1 = k
      BY <1>0
    <3> QED BY <3>1 DEF Apart
  <2>1. Old(k - 1, k) = k - 1 /\ Old(k, k) = k + 1
    BY <1>0 DEF Old
  <2>2. /\ k - 1 \in DOMAIN mountains /\ k + 1 \in DOMAIN mountains
        /\ Crest(k - 1)' = Crest(k - 1) /\ Crest(k)' = Crest(k + 1)
    BY <1>1, <1>2, <2>1
  <2>3. /\ Crest(k - 1) \in Nat /\ Crest(k) \in Nat /\ Crest(k + 1) \in Nat
        /\ Crest(k - 1) < Crest(k) /\ Crest(k) < Crest(k + 1)
    <3>1. k - 1 < k /\ k < k + 1
      BY <1>0
    <3>2. Crest(k - 1) < Crest(k) /\ Crest(k) < Crest(k + 1)
      BY <1>3, <2>2, <3>1
    <3>3. Crest(k - 1) \in Nat /\ Crest(k) \in Nat /\ Crest(k + 1) \in Nat
      BY <2>2, PeakAt
    <3> QED BY <3>2, <3>3
  <2>4. PICK q \in Crest(k - 1) .. Crest(k + 1) : Soft(q)
    <3>1. CASE Apart(k)
      <4>1. PICK q \in Crest(k) .. Crest(k + 1) : Soft(q)
        BY <2>2, <3>1 DEF Apart
      <4> QED BY <2>3, <4>1
    <3>2. CASE Apart(k - 1)
      <4>1. (k - 1) + 1 = k
        BY <1>0
      <4>2. PICK q \in Crest(k - 1) .. Crest(k) : Soft(q)
        BY <2>2, <3>2, <4>1 DEF Apart
      <4> QED BY <2>3, <4>2
    <3> QED BY <1>8, <3>1, <3>2
  <2> QED BY <1>5, <2>2, <2>4
<1> QED BY <1>1, <1>4, <1>6, <1>7, <1>8

\* A peak as high as one that stands for p, with nothing under the threshold between the
\* two, stands for p.
LEMMA StillStands ==
    ASSUME PeaksInOrder, NEW i \in DOMAIN mountains, NEW j \in DOMAIN mountains,
           NEW p \in ToSet(all), StandsFor(i, p), heights[Crest(i)] <= heights[Crest(j)],
           \A q \in DOMAIN heights :
             (Crest(i) <= q /\ q <= Crest(j)) \/ (Crest(j) <= q /\ q <= Crest(i)) => ~ Soft(q)
    PROVE  StandsFor(j, p)
<1>1. /\ Floor \in Nat /\ heights \in Seq(Nat)
      /\ \A q \in DOMAIN heights : heights[q] \in Nat
      /\ p \in DOMAIN heights /\ Crest(i) \in DOMAIN heights /\ Crest(j) \in DOMAIN heights
  BY PeakAt, PeakFacts
<1>2. Crest(i) \in FindPeakBoundary(heights, p, Floor).first
                  .. FindPeakBoundary(heights, p, Floor).last
      /\ heights[p] <= heights[Crest(i)]
  BY DEF StandsFor
<1>3. heights[p] <= heights[Crest(j)]
  <2>1. heights[p] \in Nat /\ heights[Crest(i)] \in Nat /\ heights[Crest(j)] \in Nat
    BY <1>1
  <2> QED BY <1>2, <2>1
<1>4. \A q \in DOMAIN heights :
        (Crest(i) <= q /\ q <= Crest(j)) \/ (Crest(j) <= q /\ q <= Crest(i)) => ~ Below(heights[q], Floor)
  BY DEF Soft
<1>5. Crest(j) \in FindPeakBoundary(heights, p, Floor).first
                  .. FindPeakBoundary(heights, p, Floor).last
  BY <1>1, <1>2, <1>4, StaysIn
<1> QED BY <1>3, <1>5 DEF StandsFor

\* Whatever the peak that is deleted stood for, its higher neighbour stands for.
LEMMA DeleteKeeps ==
    ASSUME PeaksInOrder, LoopShape, Deleting, StoodFor, DeletePeak
    PROVE  StoodFor'
<1>1. PICK k \in loop.front .. loop.to :
        /\ TRUE \in GetDeleteFlagOfPeak(k)
        /\ \A j \in loop.front .. k - 1 : FALSE \in GetDeleteFlagOfPeak(j)
        /\ mountains' = RemoveAt(mountains, k)
  BY DEF DeletePeak
<1>2. UNCHANGED <<heights, all>>
  BY DEF DeletePeak
<1>4. k \in DOMAIN mountains /\ k \in Nat
  <2>1. /\ loop.front \in DOMAIN mountains /\ loop.to \in DOMAIN mountains
    BY DEF Deleting
  <2>2. loop.front \in 1 .. Len(mountains) /\ loop.to \in 1 .. Len(mountains)
        /\ Len(mountains) \in Nat /\ DOMAIN mountains = 1 .. Len(mountains)
    BY <2>1, PlacesOf
  <2>3. k \in 1 .. Len(mountains)
    BY <2>2, Within
  <2> QED BY <2>2, <2>3
<1>5. Quiets' <=> Quiets
  BY <1>2 DEF Quiets, Soft, Floor, AtThreshold
<1> SUFFICES ASSUME Quiets, NEW p \in ToSet(all)
             PROVE  \E j \in DOMAIN mountains' : StandsFor(j, p)'
  BY <1>2, <1>5 DEF StoodFor
<1>6. PICK i \in DOMAIN mountains : StandsFor(i, p)
  BY DEF StoodFor
<1>7. PICK n \in DOMAIN mountains \ {k} : StandsFor(n, p)
  <2>1. CASE i # k
    BY <1>6, <2>1
  <2>2. CASE i = k
    <3>0. /\ \/ /\ k - 1 \in DOMAIN mountains /\ heights[Crest(k)] <= heights[Crest(k - 1)]
                /\ \A q \in Crest(k - 1) .. Crest(k) : ~ Soft(q)
             \/ /\ k + 1 \in DOMAIN mountains /\ heights[Crest(k)] <= heights[Crest(k + 1)]
                /\ \A q \in Crest(k) .. Crest(k + 1) : ~ Soft(q)
    BY <1>1, HigherNeighbour
    <3>1. ASSUME NEW m \in DOMAIN mountains, m # k, heights[Crest(k)] <= heights[Crest(m)],
                 \/ m < k /\ \A q \in Crest(m) .. Crest(k) : ~ Soft(q)
                 \/ k < m /\ \A q \in Crest(k) .. Crest(m) : ~ Soft(q)
          PROVE  \E x \in DOMAIN mountains \ {k} : StandsFor(x, p)
      <4>1. Crest(k) \in Nat /\ Crest(m) \in Nat /\ heights \in Seq(Nat)
        BY <1>4, PeakAt
      <4>2. (m < k => Crest(m) < Crest(k)) /\ (k < m => Crest(k) < Crest(m))
        BY <1>4 DEF PeaksInOrder
      <4>3. \A q \in DOMAIN heights :
              (Crest(k) <= q /\ q <= Crest(m)) \/ (Crest(m) <= q /\ q <= Crest(k)) => ~ Soft(q)
        <5> TAKE q \in DOMAIN heights
        <5>1. q \in Nat
          BY <4>1
        <5> QED BY <3>1, <4>1, <4>2, <5>1
      <4>4. StandsFor(m, p)
        BY <1>4, <1>6, <2>2, <3>1, <4>3, StillStands
      <4> QED BY <3>1, <4>4
    <3>2. k - 1 < k /\ k < k + 1 /\ k - 1 # k /\ k + 1 # k
      BY <1>4
    <3> QED BY <3>0, <3>1, <3>2
  <2> QED BY <2>1, <2>2
<1>8. /\ Len(mountains') = Len(mountains) - 1
      /\ DOMAIN mountains' = 1 .. Len(mountains')
      /\ \A j \in DOMAIN mountains' : mountains'[j] = mountains[Old(j, k)]
  <2>1. /\ PeaksInOrder' /\ Len(mountains') = Len(mountains) - 1
        /\ \A j \in DOMAIN mountains' : mountains'[j] = mountains[Old(j, k)]
    BY <1>1, <1>2, <1>4, Deleted
  <2>2. mountains' \in Seq([first : Nat, peak : Nat, last : Nat])
    BY <2>1 DEF PeaksInOrder
  <2> QED BY <2>1, <2>2, PlacesIn
<1> DEFINE j == IF n < k THEN n ELSE n - 1
<1>9. j \in DOMAIN mountains' /\ Old(j, k) = n
  <2>1. n \in 1 .. Len(mountains) /\ n # k /\ Len(mountains) \in Nat /\ k \in 1 .. Len(mountains)
    BY <1>4, <1>7, PlacesOf
  <2>2. j \in 1 .. Len(mountains) - 1 /\ Old(j, k) = n
    BY <2>1 DEF Old
  <2>3. DOMAIN mountains' = 1 .. Len(mountains) - 1
    BY <1>8, Zenon
  <2> QED BY <2>2, <2>3
<1> HIDE DEF j
<1>10. mountains'[j] = mountains[n]
  BY <1>8, <1>9
<1>11. \A x : x = j => StandsFor(x, p)'
  BY <1>2, <1>7, <1>10 DEF StandsFor, Crest, Floor
<1> QED BY <1>9, <1>11

\* After a deletion the rest of the stretch is looked at again, or the count goes on at
\* the one peak that is left.
LEMMA DeleteCounts ==
    ASSUME PeaksInOrder, LoopShape, Deleting, DeletePeak
    PROVE  /\ PeaksInOrder' /\ LoopShape'
           /\ \/ stage' = "delete" /\ Deleting'
              \/ stage' = "secondary" /\ Counting'
<1>1. PICK k \in loop.front .. loop.to : mountains' = RemoveAt(mountains, k)
  BY DEF DeletePeak
<1>2. UNCHANGED <<heights, all>>
  BY DEF DeletePeak
<1>4. /\ loop.front \in 1 .. Len(mountains) /\ loop.to \in 1 .. Len(mountains)
      /\ loop.front < loop.to /\ Len(mountains) \in Nat
      /\ DOMAIN mountains = 1 .. Len(mountains)
      /\ k \in DOMAIN mountains /\ k \in Nat /\ loop.front <= k /\ k <= loop.to
  <2>1. /\ loop.front \in DOMAIN mountains /\ loop.to \in DOMAIN mountains
        /\ loop.front < loop.to
    BY DEF Deleting
  <2>2. /\ loop.front \in 1 .. Len(mountains) /\ loop.to \in 1 .. Len(mountains)
        /\ Len(mountains) \in Nat /\ DOMAIN mountains = 1 .. Len(mountains)
    BY <2>1, PlacesOf
  <2>3. k \in 1 .. Len(mountains)
    BY <2>2, Within
  <2> QED BY <2>1, <2>2, <2>3
<1>5. /\ PeaksInOrder'
      /\ Len(mountains') = Len(mountains) - 1
      /\ \A i \in DOMAIN mountains' :
           Old(i, k) \in DOMAIN mountains \ {k} /\ mountains'[i] = mountains[Old(i, k)]
      /\ \A i \in Nat : i + 1 < k /\ Apart(i) => Apart(i)'
      /\ \A i \in Nat : k <= i /\ Apart(i + 1) => Apart(i)'
      /\ Apart(k) \/ Apart(k - 1) => Apart(k - 1)'
  BY <1>1, <1>2, <1>4, Deleted
<1>6. DOMAIN mountains' = 1 .. Len(mountains) - 1
  <2>1. mountains' \in Seq([first : Nat, peak : Nat, last : Nat])
    BY <1>5 DEF PeaksInOrder
  <2> QED BY <1>5, <2>1, PlacesIn
<1>7. /\ loop'.first = loop.first /\ loop'.last = loop.last /\ loop'.to = loop.to - 1
      /\ LoopShape'
      /\ IF loop.to - 1 > loop.front
         THEN stage' = "delete" /\ loop'.front = loop.front
         ELSE /\ stage' = "secondary" /\ loop'.front = loop.to - 1
              /\ loop'.next = loop.to - 1 /\ loop'.more = 0
  <2>1. CASE loop.to - 1 > loop.front
    <3>1. loop' = [next |-> loop.next, front |-> loop.front, more |-> loop.more,
                   to |-> loop.to - 1, first |-> loop.first, last |-> loop.last]
      BY <2>1, LoopFields, Zenon DEF DeletePeak
    <3> QED BY <1>4, <2>1, <3>1, LoopFields DEF LoopShape, DeletePeak
  <2>2. CASE ~ (loop.to - 1 > loop.front)
    <3>1. loop' = [next |-> loop.to - 1, front |-> loop.to - 1, more |-> 0,
                   to |-> loop.to - 1, first |-> loop.first, last |-> loop.last]
      BY <2>2, LoopFields, Zenon DEF DeletePeak
    <3> QED BY <1>4, <2>2, <3>1, LoopFields DEF LoopShape, DeletePeak
  <2> QED BY <2>1, <2>2
<1>8. \A i \in DOMAIN mountains' : Of(i)' <=> Of(Old(i, k))
  BY <1>5, <1>7 DEF Of
<1> DEFINE f == loop.front
           t == loop.to - 1
<1>9. f \in DOMAIN mountains' /\ t \in DOMAIN mountains' /\ f \in Nat /\ t \in Nat /\ f <= t
  BY <1>4, <1>6
<1>10. CASE /\ \A i \in loop.front .. loop.to : Of(i)
            /\ Apart(loop.front - 1) /\ Apart(loop.to)
  <2>1. \A i \in f .. t : Of(i)'
    <3> TAKE i \in f .. t
    <3>1. Old(i, k) \in loop.front .. loop.to /\ i \in DOMAIN mountains'
      BY <1>4, <1>6, <1>9 DEF Old
    <3> QED BY <1>8, <1>10, <3>1
  <2>2. \A i : i = f - 1 => Apart(i)'
    <3>1. CASE k = f
      BY <1>5, <1>10, <3>1
    <3>2. CASE k # f
      <4>1. f - 1 \in Nat /\ (f - 1) + 1 < k
        BY <1>4, <3>2
      <4> QED BY <1>5, <1>10, <4>1
    <3> QED BY <3>1, <3>2
  <2>3. \A i : i = t => Apart(i)'
    <3>1. CASE k = loop.to
      BY <1>5, <1>10, <3>1
    <3>2. CASE k # loop.to
      <4>1. t \in Nat /\ k <= t /\ t + 1 = loop.to
        BY <1>4, <3>2
      <4> QED BY <1>5, <1>10, <4>1
    <3> QED BY <3>1, <3>2
  <2>4. CASE loop.to - 1 > loop.front
    <3>1. loop'.front = f /\ loop'.to = t /\ f < t /\ stage' = "delete"
      BY <1>7, <1>9, <2>4
    <3> HIDE DEF f, t
    <3>2. Deleting'
      BY <1>9, <2>1, <2>2, <2>3, <3>1 DEF Deleting
    <3> QED BY <1>5, <1>7, <3>1, <3>2
  <2>5. CASE ~ (loop.to - 1 > loop.front)
    <3>1. loop'.front = t /\ loop'.next = t /\ loop'.more = 0 /\ stage' = "secondary" /\ f = t
      BY <1>7, <1>9, <2>5
    <3> HIDE DEF f, t
    <3>2. Again'
      <4>1. t \in f .. t
        BY <1>9
      <4> QED BY <2>1, <2>3, <3>1, <4>1 DEF Again
    <3> QED BY <1>5, <1>7, <1>9, <3>1, <3>2 DEF Counting
  <2> QED BY <2>4, <2>5
<1>11. CASE loop.to = loop.front + 1 /\ Of(loop.front) /\ Apart(loop.front)
  <2>1. f = t /\ loop.front + 1 \in DOMAIN mountains
    BY <1>4, <1>11
  <2>2. /\ loop'.front = t /\ loop'.next = t /\ loop'.more = 0 /\ stage' = "secondary"
    BY <1>4, <1>7, <1>11
  <2>3. ~ Of(loop.front + 1)
    BY <1>4, <1>11, <2>1, OfApart
  <2>4. \A i : i = t => IF Of(i)' THEN Apart(i)' ELSE Apart(i - 1)'
    <3>1. CASE k = loop.front
      <4>1. Old(t, k) = loop.front + 1 /\ t = k
        BY <1>4, <2>1, <3>1 DEF Old
      <4>2. \A i : i = t => ~ Of(i)'
        BY <1>8, <1>9, <2>3, <4>1
      <4>3. Apart(k - 1)'
        BY <1>5, <1>11, <3>1
      <4> QED BY <4>1, <4>2, <4>3
    <3>2. CASE k # loop.front
      <4>1. Old(t, k) = loop.front /\ t = k - 1
        BY <1>4, <1>11, <2>1, <3>2 DEF Old
      <4>2. \A i : i = t => Of(i)'
        BY <1>8, <1>9, <1>11, <4>1
      <4>3. Apart(k - 1)'
        BY <1>5, <1>11, <2>1, <4>1
      <4> QED BY <4>1, <4>2, <4>3
    <3> QED BY <3>1, <3>2
  <2> HIDE DEF f, t
  <2>5. Again'
    BY <2>2, <2>4 DEF Again
  <2> QED BY <1>5, <1>7, <1>9, <2>2, <2>5 DEF Counting
<1> QED BY <1>10, <1>11 DEF Deleting

-----------------------------------------------------------------------------
(* Before the peaks are counted                                            *)

\* A function from 1 on is a sequence; and what a sequence holds.
\* A function on 1 .. m is a sequence, ...
LEMMA FromOneOn ==
    ASSUME NEW T, NEW m \in Nat, NEW g \in [1 .. m -> T]
    PROVE  g \in Seq(T)
OBVIOUS

\* ... and a sequence has its values in its set.
LEMMA ValueOf ==
    ASSUME NEW A, NEW s \in Seq(A), NEW k \in 1 .. Len(s)
    PROVE  s[k] \in A
OBVIOUS

\* The entries of a sequence at places in growing order.
LEMMA EntriesOf ==
    ASSUME NEW A, NEW s \in Seq(A), NEW S \in SUBSET DOMAIN s
    PROVE  /\ InOrder(S) \in Seq(S)
           /\ \A i, j \in DOMAIN InOrder(S) : i < j => InOrder(S)[i] < InOrder(S)[j]
           /\ Entries(s, S) \in Seq(A)
           /\ DOMAIN Entries(s, S) = DOMAIN InOrder(S)
           /\ \A k \in DOMAIN InOrder(S) : Entries(s, S)[k] = s[InOrder(S)[k]]
<1> DEFINE place == InOrder(S)
           f == [k \in DOMAIN place |-> s[place[k]]]
<1>1. /\ place \in Seq(S)
      /\ \A i, j \in DOMAIN place : i < j => place[i] < place[j]
  <2>1. Len(s) \in Nat /\ S \in SUBSET (0 .. Len(s))
    OBVIOUS
  <2> QED BY <2>1, InOrderSorted
<1> HIDE DEF place
<1>2. Len(place) \in Nat /\ DOMAIN place = 1 .. Len(place)
  BY <1>1
<1>3. \A k \in 1 .. Len(place) : s[place[k]] \in A
  <2> TAKE k \in 1 .. Len(place)
  <2>1. place[k] \in S
    BY <1>1, ValueOf
  <2>2. place[k] \in 1 .. Len(s)
    BY <2>1
  <2> QED BY <2>2, ValueOf
<1>4. f \in [1 .. Len(place) -> A]
  BY <1>2, <1>3
<1>5. \A k \in DOMAIN place : f[k] = s[place[k]]
  OBVIOUS
<1>6. Entries(s, S) = Samples(f)
  BY DEF Entries, place
<1> HIDE DEF f
<1>7. f \in Seq(A) /\ DOMAIN f = DOMAIN place
  BY <1>2, <1>4, FromOneOn
<1>8. Entries(s, S) = f
  BY <1>6, <1>7, SamplesOf
<1> QED BY <1>1, <1>5, <1>7, <1>8 DEF place

\* Thinning out leaves amplitudes.
LEMMA ResampleType ==
    ASSUME NEW d \in Seq(0 .. FullScale)
    PROVE  ResampleAudioData(d) \in Seq(0 .. FullScale)
<1> DEFINE S == {p \in DOMAIN d : p % 4 \in {1, 2}}
<1>1. S \in SUBSET DOMAIN d
  OBVIOUS
<1>2. ResampleAudioData(d) = Entries(d, S)
  BY DEF ResampleAudioData
<1> HIDE DEF S
<1> QED BY <1>1, <1>2, EntriesOf

\* So does clearing, whichever samples are cleared, ...
LEMMA PreprocessType ==
    ASSUME NEW d \in Seq(0 .. FullScale)
    PROVE  PreprocessAudioData(d) \in Seq(0 .. FullScale)
<1>1. PICK C : PreprocessAudioData(d) = Samples([q \in DOMAIN d |-> IF q \in C THEN 0 ELSE d[q]])
  BY Zenon DEF PreprocessAudioData
<1> DEFINE f == [q \in DOMAIN d |-> IF q \in C THEN 0 ELSE d[q]]
<1>2. f \in Seq(0 .. FullScale)
  <2>1. FullScale \in Nat
    BY PeakAssumption
  <2>2. f \in [1 .. Len(d) -> 0 .. FullScale] /\ Len(d) \in Nat
    BY <2>1
  <2> HIDE DEF f
  <2> DEFINE A == 0 .. FullScale
  <2>3. f \in [1 .. Len(d) -> A] /\ Len(d) \in Nat
    BY <2>2
  <2> HIDE DEF A
  <2>4. f \in Seq(A)
    BY <2>3, FromOneOn
  <2> QED BY <2>4 DEF A
<1> HIDE DEF f
<1> QED BY <1>1, <1>2, SamplesOf DEF f

\* The highest sample of a block is in it.
LEMMA BlockPeakOf ==
    ASSUME NEW d \in Seq(0 .. FullScale), NEW k \in 1 .. Len(d) \div EnvelopeHop
    PROVE  /\ BlockPeak(d, k) \in 1 .. Len(d)
           /\ (k - 1) * EnvelopeHop + 1 <= BlockPeak(d, k)
           /\ BlockPeak(d, k) <= k * EnvelopeHop
<1> DEFINE n == Len(d) \div EnvelopeHop
<1>1. EnvelopeHop \in Nat \ {0} /\ FullScale \in Nat /\ Len(d) \in Nat
  BY PeakAssumption
<1>2. n \in Nat /\ n * EnvelopeHop <= Len(d)
  BY <1>1
<1> DEFINE S == (k - 1) * EnvelopeHop + 1 .. k * EnvelopeHop
<1> HIDE DEF n
<1>3. k \in Nat /\ k >= 1 /\ k <= n /\ k - 1 \in Nat
  BY <1>2 DEF n
<1>4. k * EnvelopeHop = (k - 1) * EnvelopeHop + EnvelopeHop /\ (k - 1) * EnvelopeHop \in Nat
  BY <1>1, <1>3
<1>5. k * EnvelopeHop <= n * EnvelopeHop /\ n * EnvelopeHop \in Nat /\ k * EnvelopeHop \in Nat
  BY <1>1, <1>2, <1>3
<1>6. S \subseteq 1 .. Len(d) /\ S # {} /\ S \in SUBSET Nat
  <2> DEFINE a == (k - 1) * EnvelopeHop
  <2>1. a \in Nat /\ k * EnvelopeHop = a + EnvelopeHop
    BY <1>4
  <2>2. a + EnvelopeHop <= Len(d)
    <3> DEFINE x == k * EnvelopeHop
               y == n * EnvelopeHop
    <3>1. x \in Nat /\ y \in Nat /\ x <= y /\ y <= Len(d) /\ x = a + EnvelopeHop
      BY <1>2, <1>5, <2>1
    <3> HIDE DEF a, x, y
    <3> QED BY <1>1, <3>1
  <2> HIDE DEF a
  <2>3. S = a + 1 .. a + EnvelopeHop
    BY <2>1 DEF a
  <2>4. a + 1 \in a + 1 .. a + EnvelopeHop
    BY <1>1, <2>1
  <2>5. \A p \in a + 1 .. a + EnvelopeHop : p \in 1 .. Len(d) /\ p \in Nat
    <3>1. \A x, y, z \in Nat : x + y <= z => \A p \in x + 1 .. x + y : p \in 1 .. z /\ p \in Nat
      OBVIOUS
    <3>2. a \in Nat /\ EnvelopeHop \in Nat /\ Len(d) \in Nat
      BY <1>1, <2>1
    <3> QED BY <2>2, <3>1, <3>2
  <2> HIDE DEF S
  <2> QED BY <2>3, <2>4, <2>5
<1>7. \A p \in S : d[p] \in 0 .. FullScale
  <2> HIDE DEF S
  <2> QED BY <1>6, ValueOf
<1>8. BlockPeak(d, k) = Highest(d, S)
  BY DEF BlockPeak
<1>9. Highest(d, S) \in S
  <2> HIDE DEF S
  <2> QED BY <1>1, <1>6, <1>7, HighestOf
<1>10. \A p \in S : (k - 1) * EnvelopeHop + 1 <= p /\ p <= k * EnvelopeHop
  BY <1>4
<1> HIDE DEF S
<1> QED BY <1>6, <1>8, <1>9, <1>10

\* ... and taking the highest of each block.
LEMMA EnvelopeType ==
    ASSUME NEW d \in Seq(0 .. FullScale)
    PROVE  /\ Envelope(d) \in Seq(0 .. FullScale)
           /\ DOMAIN Envelope(d) = 1 .. Len(d) \div EnvelopeHop
<1> DEFINE n == Len(d) \div EnvelopeHop
           f == [k \in 1 .. n |-> d[BlockPeak(d, k)]]
<1>1. EnvelopeHop \in Nat \ {0} /\ FullScale \in Nat /\ Len(d) \in Nat
  BY PeakAssumption
<1>2. n \in Nat /\ n * EnvelopeHop <= Len(d)
  BY <1>1
<1>3. \A k \in 1 .. n : d[BlockPeak(d, k)] \in 0 .. FullScale
  BY BlockPeakOf, ValueOf
<1>4. f \in Seq(0 .. FullScale) /\ DOMAIN f = 1 .. n
  <2> HIDE DEF n
  <2>1. f \in [1 .. n -> 0 .. FullScale]
    BY <1>3
  <2> HIDE DEF f
  <2> DEFINE A == 0 .. FullScale
  <2>2. f \in [1 .. n -> A]
    BY <2>1
  <2> HIDE DEF A
  <2>3. f \in Seq(A)
    BY <1>2, <2>2, FromOneOn
  <2> QED BY <2>1, <2>3 DEF A
<1>5. Envelope(d) = Samples(f)
  BY DEF Envelope
<1> HIDE DEF f
<1> QED BY <1>4, <1>5, SamplesOf

\* The peaks that are found have their place in the amplitude, and in order.
LEMMA PeaksFound ==
    ASSUME NEW h \in Seq(0 .. FullScale), Turns(h) # {}
    PROVE  LET peaks == InOrder(FilterLowPeak(h, DetectPeak(h)))
           IN  /\ peaks \in Seq(DOMAIN h)
               /\ \A i, j \in DOMAIN peaks : i < j => peaks[i] < peaks[j]
<1> DEFINE S == FilterLowPeak(h, DetectPeak(h))
<1>1. Turns(h) \subseteq 1 .. Len(h) /\ 1 \in 1 .. Len(h) /\ Len(h) \in Nat
  BY DEF Turns
<1>2. Steep(h) \subseteq Turns(h)
  <2> DEFINE sharp == [k \in Turns(h) |-> Sharpness(h, k)]
  <2>1. DOMAIN sharp = Turns(h)
    OBVIOUS
  <2> HIDE DEF sharp
  <2> QED BY <2>1 DEF Steep, sharp
<1>3. S \in SUBSET (1 .. Len(h))
  BY <1>1, <1>2 DEF FilterLowPeak, DetectPeak
<1> HIDE DEF S
<1>4. /\ InOrder(S) \in Seq(S)
      /\ \A i, j \in DOMAIN InOrder(S) : i < j => InOrder(S)[i] < InOrder(S)[j]
  <2>1. S \in SUBSET (0 .. Len(h))
    BY <1>1, <1>3
  <2> QED BY <1>1, <2>1, InOrderSorted
<1>5. InOrder(S) \in Seq(DOMAIN h)
  <2>1. S \subseteq DOMAIN h
    BY <1>3
  <2> QED BY <1>4, <2>1
<1> QED BY <1>4, <1>5 DEF S

\* The count begins with every peak in its own stretch and standing for itself.
LEMMA EnvelopeCounts ==
    ASSUME data \in Seq(0 .. FullScale), GetPeakEnvelope
    PROVE  PeaksInOrder' /\ LoopShape' /\ Counting' /\ StoodFor'
<1> DEFINE h == Envelope(data)
           peaks == InOrder(FilterLowPeak(h, DetectPeak(h)))
           t == LowerAmp(h, peaks)
           ms == [i \in DOMAIN peaks |-> FindPeakBoundary(h, peaks[i], t)]
<1>1. /\ Turns(h) # {} /\ heights' = h /\ all' = peaks
      /\ mountains' = Samples(ms)
      /\ loop' = [next |-> 2, front |-> 1, more |-> 0, to |-> 0,
                  first |-> mountains'[1].first, last |-> mountains'[1].last]
  BY DEF GetPeakEnvelope, GetEachIndependentEnvelope
<1>2. h \in Seq(0 .. FullScale)
  BY EnvelopeType
<1> HIDE DEF h
<1>3. /\ peaks \in Seq(DOMAIN h)
      /\ \A i, j \in DOMAIN peaks : i < j => peaks[i] < peaks[j]
  BY <1>1, <1>2, PeaksFound
<1> HIDE DEF peaks
<1>4. h \in Seq(Nat) /\ (\A p \in DOMAIN h : h[p] \in Nat)
  <2>1. FullScale \in Nat
    BY PeakAssumption
  <2> QED BY <1>2, <2>1
<1>5. /\ \A i \in DOMAIN peaks : peaks[i] \in DOMAIN h /\ peaks[i] \in ToSet(peaks)
      /\ ToSet(peaks) \subseteq DOMAIN h
      /\ Len(peaks) \in Nat /\ DOMAIN peaks = 1 .. Len(peaks)
  BY <1>3 DEF ToSet
<1>6. DOMAIN peaks # {} => t \in Nat
  <2> SUFFICES ASSUME DOMAIN peaks # {} PROVE t \in Nat
    OBVIOUS
  <2>1. ToSet(peaks) # {} /\ \A p \in ToSet(peaks) : h[p] \in Nat
    BY <1>4, <1>5
  <2>2. \E p \in ToSet(peaks) : Least(h, ToSet(peaks)) = h[p]
    BY <2>1, LeastOf
  <2> QED BY <2>1, <2>2 DEF LowerAmp
<1> HIDE DEF t
<1> DEFINE A == [first : Nat, peak : Nat, last : Nat]
<1>7. \A i \in DOMAIN peaks :
        /\ FindPeakBoundary(h, peaks[i], t) \in A
        /\ FindPeakBoundary(h, peaks[i], t).peak = peaks[i]
        /\ peaks[i] \in FindPeakBoundary(h, peaks[i], t).first
                          .. FindPeakBoundary(h, peaks[i], t).last
  <2> TAKE i \in DOMAIN peaks
  <2> DEFINE b == FindPeakBoundary(h, peaks[i], t)
  <2>1. /\ b \in A /\ b.peak = peaks[i]
        /\ b.first \in 1 .. peaks[i] /\ b.last \in peaks[i] .. Len(h)
    BY <1>4, <1>5, <1>6, BoundaryOf
  <2>2. peaks[i] \in 1 .. Len(h) /\ Len(h) \in Nat
    BY <1>4, <1>5
  <2> HIDE DEF b
  <2>3. peaks[i] \in b.first .. b.last
    BY <2>1, <2>2
  <2> QED BY <2>1, <2>3 DEF b
<1>8. ms \in Seq(A) /\ DOMAIN ms = DOMAIN peaks
  <2> HIDE DEF A
  <2>1. ms \in [1 .. Len(peaks) -> A]
    BY <1>5, <1>7
  <2> HIDE DEF ms
  <2> QED BY <1>5, <2>1
<1>9. /\ mountains' = ms /\ mountains' \in Seq(A) /\ DOMAIN mountains' = DOMAIN peaks
      /\ \A i \in DOMAIN peaks : mountains'[i] = FindPeakBoundary(h, peaks[i], t)
  <2>1. \A i \in DOMAIN peaks : ms[i] = FindPeakBoundary(h, peaks[i], t)
    OBVIOUS
  <2> HIDE DEF ms, A
  <2> QED BY <1>1, <1>8, <2>1, SamplesOf
<1>10. Floor' = t
  BY <1>1 DEF Floor, t
<1> HIDE DEF ms
<1>11. \A i \in DOMAIN mountains' : Crest(i)' = peaks[i]
  BY <1>7, <1>9 DEF Crest
<1>12. PeaksInOrder'
  <2>1. \A i \in DOMAIN mountains' :
          /\ Crest(i)' \in ToSet(all)'
          /\ mountains'[i] = FindPeakBoundary(heights, Crest(i), Floor)'
    <3> TAKE i \in DOMAIN mountains'
    <3>1. FindPeakBoundary(heights, Crest(i), Floor)' = FindPeakBoundary(h, peaks[i], t)
      BY <1>1, <1>10, <1>11 DEF FindPeakBoundary
    <3>2. ToSet(all)' = ToSet(peaks)
      BY <1>1
    <3> QED BY <1>5, <1>9, <1>11, <3>1, <3>2
  <2>2. \A i, j \in DOMAIN mountains' : i < j => Crest(i)' < Crest(j)'
    BY <1>3, <1>9, <1>11
  <2>3. heights' \in Seq(0 .. FullScale) /\ ToSet(all)' \subseteq DOMAIN heights'
    BY <1>1, <1>2, <1>5
  <2> QED BY <1>9, <2>1, <2>2, <2>3 DEF PeaksInOrder
<1>13. LoopShape'
  BY <1>1 DEF LoopShape
<1>14. Counting'
  <2> SUFFICES ASSUME mountains' # <<>> PROVE loop'.front \in DOMAIN mountains' /\ AllOf'
    BY DEF Counting
  <2>1. 1 \in DOMAIN mountains'
    BY <1>9
  <2>2. /\ loop'.next = 2 /\ loop'.front = 1 /\ loop'.more = 0
        /\ loop'.first = mountains'[1].first /\ loop'.last = mountains'[1].last
    BY <1>1
  <2>3. \A k : k = 1 => Of(k)'
    BY <2>2 DEF Of
  <2>4. \A k : k = 0 => Apart(k)'
    <3>1. 0 \notin DOMAIN mountains'
      BY <1>5, <1>9
    <3> QED BY <3>1 DEF Apart
  <2>5. AllOf'
    BY <2>1, <2>2, <2>3, <2>4 DEF AllOf
  <2> QED BY <2>1, <2>2, <2>5
<1>15. StoodFor'
  <2>1. \A p \in ToSet(all)' : \E i \in DOMAIN mountains' : StandsFor(i, p)'
    <3> TAKE p \in ToSet(all)'
    <3>1. PICK i \in DOMAIN peaks : p = peaks[i]
      BY <1>1 DEF ToSet
    <3>2. Crest(i)' = p /\ p \in DOMAIN h /\ h[p] \in Nat
      BY <1>4, <1>5, <1>9, <1>11, <3>1
    <3>3. p \in FindPeakBoundary(h, p, t).first .. FindPeakBoundary(h, p, t).last
      BY <1>7, <3>1
    <3>4. h[p] <= h[p]
      BY <3>2
    <3>5. StandsFor(i, p)'
      BY <1>1, <1>10, <3>2, <3>3, <3>4 DEF StandsFor, FindPeakBoundary
    <3> QED BY <1>9, <3>1, <3>5
  <2> QED BY <2>1 DEF StoodFor
<1> QED BY <1>12, <1>13, <1>14, <1>15

-----------------------------------------------------------------------------
(* Every step of a conversion                                              *)

\* The invariant holds of every recording a conversion begins with, ...
LEMMA ConvertStart == ConvertInit => ConvertInv
BY ConvertAssumption DEF ConvertInit, ConvertInv

\* ... and every step keeps it.
LEMMA ConvertStep == ConvertInv /\ [ConvertNext]_convertVars => ConvertInv'
<1> SUFFICES ASSUME ConvertInv, [ConvertNext]_convertVars PROVE ConvertInv'
  OBVIOUS
<1>1. CASE PreprocessParameter
  <2>1. stage' = "peaks" /\ stage = "recorded"
    BY <1>1 DEF PreprocessParameter
  <2>2. data' = PreprocessAudioData(ResampleAudioData(data))
    BY <1>1 DEF PreprocessParameter
  <2>3. data' \in Seq(0 .. FullScale)
    BY <2>1, <2>2, ResampleType, PreprocessType DEF ConvertInv
  <2> QED BY <2>1, <2>3 DEF ConvertInv
<1>2. CASE NoTurn
  BY <1>2 DEF NoTurn, ConvertInv
<1>3. CASE GetPeakEnvelope
  <2>1. stage = "peaks" /\ stage' = "secondary"
    BY <1>3 DEF GetPeakEnvelope
  <2>2. data \in Seq(0 .. FullScale)
    BY <2>1 DEF ConvertInv
  <2> QED BY <1>3, <2>1, <2>2, EnvelopeCounts DEF ConvertInv
<1>4. CASE OneMore
  <2>1. /\ stage = "secondary" /\ stage' = "secondary"
        /\ UNCHANGED <<heights, all, mountains>>
    BY <1>4 DEF OneMore
  <2> QED BY <1>4, <2>1, OneMoreCounts, SamePeaks DEF ConvertInv
<1>5. CASE NextStretch
  <2>1. /\ stage = "secondary" /\ stage' = "secondary"
        /\ UNCHANGED <<heights, all, mountains>>
    BY <1>5 DEF NextStretch
  <2> QED BY <1>5, <2>1, NextStretchCounts, SamePeaks DEF ConvertInv
<1>6. CASE StretchEnds
  <2>1. /\ stage = "secondary" /\ stage' = "delete"
        /\ UNCHANGED <<heights, all, mountains>>
    BY <1>6 DEF StretchEnds
  <2> QED BY <1>6, <2>1, StretchEndsCounts, SamePeaks DEF ConvertInv
<1>7. CASE Filtered
  <2>1. /\ stage = "secondary" /\ stage' = "isolate"
        /\ UNCHANGED <<heights, all, mountains>>
    BY <1>7 DEF Filtered
  <2> QED BY <2>1, SamePeaks DEF ConvertInv
<1>8. CASE DeletePeak
  <2>1. stage = "delete"
    BY <1>8 DEF DeletePeak
  <2>2. PeaksInOrder /\ LoopShape /\ Deleting /\ StoodFor
    BY <2>1 DEF ConvertInv
  <2>3. stage' \in {"secondary", "delete"}
    BY <1>8 DEF DeletePeak
  <2> QED BY <1>8, <2>2, <2>3, DeleteKeeps, DeleteCounts DEF ConvertInv
<1>9. CASE NothingToDelete
  <2>1. /\ stage = "delete" /\ stage' = "secondary"
        /\ UNCHANGED <<heights, all, mountains>>
    BY <1>9 DEF NothingToDelete
  <2> QED BY <1>9, <2>1, NothingToDeleteCounts, SamePeaks DEF ConvertInv
<1>10. CASE ObtainTransientByAmplitude
  <2>1. stage' = "found"
    BY <1>10 DEF ObtainTransientByAmplitude
  <2> QED BY <2>1 DEF ConvertInv
<1>11. CASE ConvertTransientEvent \/ DetectRmsIntensity
  <2>1. stage' \in {"merged", "failed", "measured"}
    BY <1>11 DEF ConvertTransientEvent, DetectRmsIntensity
  <2> QED BY <2>1 DEF ConvertInv
<1>12. CASE OutputTransientEvents \/ OutputAllContinuousEvent \/ StoreHapticEvent
  <2>1. stage' \in {"transients", "continuous", "stored"}
    BY <1>12 DEF OutputTransientEvents, OutputAllContinuousEvent, StoreHapticEvent
  <2> QED BY <2>1 DEF ConvertInv
<1>13. CASE UNCHANGED convertVars
  <2>1. /\ stage' = stage /\ data' = data /\ loop' = loop
        /\ UNCHANGED <<heights, all, mountains>>
    BY <1>13 DEF convertVars, peakVars
  <2>2. /\ LoopShape' <=> LoopShape
        /\ Counting' <=> Counting
        /\ Deleting' <=> Deleting
    BY <2>1, SamePeaks, SameStretch
       DEF LoopShape, Counting, Deleting, AllOf, Again, OnePast, Of, Apart, Crest, Soft, Floor
  <2> QED BY <2>1, <2>2, SamePeaks DEF ConvertInv
<1> QED BY <1>1, <1>2, <1>3, <1>4, <1>5, <1>6, <1>7, <1>8, <1>9, <1>10, <1>11, <1>12, <1>13
        DEF ConvertNext, FindPeaks, FilterSecondaryPeak, Finished

\* Throughout a conversion the peaks are in order, each in its own stretch, what is
\* deleted belongs to one stretch, and every peak there was is stood for.
THEOREM ConvertInvariance == ConvertSpec => []ConvertInv
BY ConvertStart, ConvertStep, PTL DEF ConvertSpec

\* In a recording that begins and ends quietly, and in which no peak drops by exactly
\* 30 %, every stretch keeps a peak at least as high as each that was there, whichever
\* are deleted (FilterSecondaryPeak, DeletePeaks).
THEOREM AlwaysKept == ConvertSpec => []StretchKept
<1>1. ConvertInv => StretchKept
  BY DEF ConvertInv, StretchKept, StoodFor, Quiets, StandsFor, Crest, Soft, Floor, ToSet
<1> QED BY <1>1, ConvertInvariance, PTL

-----------------------------------------------------------------------------
(* Loops over a sequence                                                   *)

\* Whatever holds at 0, and of each number up to n if of the one before, holds up to n.
LEMMA UpTo ==
    ASSUME NEW n \in Nat, NEW K, 0 \in K, \A k \in 1 .. n : k - 1 \in K => k \in K
    PROVE  \A k \in 0 .. n : k \in K
<1> DEFINE B == {k \in 0 .. n : k \notin K}
<1>1. ASSUME B # {} PROVE FALSE
  <2>1. B \in SUBSET Nat
    OBVIOUS
  <2>2. PICK k \in B : \A j \in B : k <= j
    <3> HIDE DEF B
    <3> QED BY <1>1, <2>1, MinOfNats
  <2>3. k \in 1 .. n /\ k - 1 \in 0 .. n /\ ~ (k <= k - 1)
    BY <2>2
  <2> QED BY <2>2, <2>3
<1> QED BY <1>1

\* What n turns of a loop go through.
Runs(g, n, A, base, T) ==
    /\ g \in [0 .. n -> A]
    /\ g[0] = base /\ \A k \in 1 .. n : g[k] = T[<<g[k - 1], k>>]

\* A loop whose turn stays in a set goes through to its end.
LEMMA LoopRuns ==
    ASSUME NEW n \in Nat, NEW A, NEW base \in A, NEW T \in [A \X (1 .. n) -> A]
    PROVE  \E g : Runs(g, n, A, base, T)
<1> DEFINE K == {m \in 0 .. n : \E g : Runs(g, m, A, base, T)}
<1>1. 0 \in K
  <2> DEFINE f == [k \in 0 .. 0 |-> base]
  <2>1. f \in [0 .. 0 -> A] /\ f[0] = base
    OBVIOUS
  <2> HIDE DEF f
  <2>2. Runs(f, 0, A, base, T)
    BY <2>1 DEF Runs
  <2> QED BY <2>2
<1>2. ASSUME NEW m \in 1 .. n, m - 1 \in K PROVE m \in K
  <2>1. PICK g : Runs(g, m - 1, A, base, T)
    BY <1>2
  <2> DEFINE f == [k \in 0 .. m |-> IF k = m THEN T[<<g[m - 1], m>>] ELSE g[k]]
  <2>2. g[m - 1] \in A /\ T[<<g[m - 1], m>>] \in A
    BY <2>1 DEF Runs
  <2>3. f \in [0 .. m -> A]
    BY <2>1, <2>2 DEF Runs
  <2>4. f[0] = base
    BY <2>1 DEF Runs
  <2>5. \A k \in 1 .. m : f[k] = T[<<f[k - 1], k>>]
    <3> TAKE k \in 1 .. m
    <3>0. k - 1 \in 0 .. m /\ k - 1 # m /\ k \in 0 .. m
      OBVIOUS
    <3>1. f[k - 1] = g[k - 1]
      BY <3>0
    <3>2. CASE k = m
      <4>1. f[k] = T[<<g[m - 1], m>>]
        BY <3>0, <3>2
      <4> HIDE DEF f
      <4> QED BY <3>1, <3>2, <4>1
    <3>3. CASE k # m
      <4>1. f[k] = g[k] /\ k \in 1 .. m - 1
        BY <3>0, <3>3
      <4> HIDE DEF f
      <4> QED BY <2>1, <3>1, <4>1 DEF Runs
    <3> QED BY <3>2, <3>3
  <2> HIDE DEF f
  <2>6. Runs(f, m, A, base, T)
    BY <2>3, <2>4, <2>5 DEF Runs
  <2> QED BY <2>6
<1>3. n \in K
  <2> HIDE DEF K
  <2> QED BY <1>1, <1>2, UpTo
<1> QED BY <1>3

\* Each turn T of a loop of n keeps K, and g goes from base by these turns.
Keeps(K, T, n, A) == \A k \in 1 .. n, x \in A : <<x, k - 1>> \in K => <<T[<<x, k>>], k>> \in K
Follows(g, T, n, A, base) ==
    g[0] = base /\ \A k \in 1 .. n : g[k - 1] \in A => g[k] = T[<<g[k - 1], k>>]

\* What each turn of a loop keeps holds of what the loop leaves.
LEMMA LoopKeeps ==
    ASSUME NEW n \in Nat, NEW A, NEW base \in A, NEW T \in [A \X (1 .. n) -> A], NEW K,
           <<base, 0>> \in K, Keeps(K, T, n, A), NEW g, Follows(g, T, n, A, base)
    PROVE  g[n] \in A /\ <<g[n], n>> \in K
<1> DEFINE J == {k \in 0 .. n : g[k] \in A /\ <<g[k], k>> \in K}
<1>1. 0 \in J
  BY DEF Follows
<1>2. ASSUME NEW k \in 1 .. n, k - 1 \in J PROVE k \in J
  <2>1. g[k - 1] \in A /\ <<g[k - 1], k - 1>> \in K /\ k \in 0 .. n
    BY <1>2
  <2>2. g[k] = T[<<g[k - 1], k>>] /\ T[<<g[k - 1], k>>] \in A
    BY <2>1 DEF Follows
  <2>3. <<g[k], k>> \in K
    BY <2>1, <2>2 DEF Keeps
  <2> QED BY <2>1, <2>2, <2>3
<1>3. \A k \in 0 .. n : k \in J
  <2> HIDE DEF J
  <2> QED BY <1>1, <1>2, UpTo
<1>4. n \in J
  BY <1>3
<1> QED BY <1>4

-----------------------------------------------------------------------------
(* The peaks of a recording, in order                                      *)

\* A sequence of numbers that grow.
Grows(s) == \A i, j \in DOMAIN s : i < j => s[i] < s[j]

\* Something greater than all of them can be added.
LEMMA AppendGrows ==
    ASSUME NEW s \in Seq(Nat), NEW p \in Nat, Grows(s), \A i \in DOMAIN s : s[i] < p
    PROVE  Grows(Append(s, p))
<1>1. \A i \in DOMAIN Append(s, p) :
        IF i \in DOMAIN s THEN Append(s, p)[i] = s[i]
        ELSE i = Len(s) + 1 /\ Append(s, p)[i] = p
  OBVIOUS
<1>2. \A i \in DOMAIN s : i < Len(s) + 1
  OBVIOUS
<1>3. \A i \in DOMAIN s : ~ (Len(s) + 1 < i) /\ ~ (Len(s) + 1 < Len(s) + 1)
  OBVIOUS
<1> QED BY <1>1, <1>2, <1>3 DEF Grows

\* Of peaks that are too close the higher one stays, and those that stay are in order.
LEMMA MinRangeGrows ==
    ASSUME NEW d, NEW m \in Nat, NEW s \in Seq(1 .. m), Grows(s)
    PROVE  /\ PeakFilterMinRange(d, s) \in Seq(1 .. m)
           /\ Grows(PeakFilterMinRange(d, s))
<1> DEFINE A == Seq(1 .. m)
           n == Len(s)
           turn(kept, p) == IF kept = <<>> \/ p - Last(kept) >= MinSampleCount
                            THEN Append(kept, p)
                            ELSE IF d[Last(kept)] >= d[p] THEN kept
                            ELSE Append(Front(kept), p)
           T == [z \in A \X (1 .. n) |-> turn(z[1], s[z[2]])]
           Is(g) == g = [k \in 0 .. n |->
                           IF k = 0 THEN <<>>
                           ELSE CHOOSE y \in {turn(x, s[k]) : x \in {g[k - 1]}} : TRUE]
           after == CHOOSE g : Is(g)
<1>0. PeakFilterMinRange(d, s) = after[n]
  BY DEF PeakFilterMinRange, Loop
<1>1. n \in Nat /\ <<>> \in A /\ MinSampleCount \in Nat \ {0}
  BY PeakAssumption
<1>2. \A k \in 1 .. n : s[k] \in 1 .. m
  BY ValueOf
<1>3. \A x \in A, p \in 1 .. m : turn(x, p) \in A
  <2> TAKE x \in A, p \in 1 .. m
  <2>1. Append(x, p) \in A
    OBVIOUS
  <2>2. x # <<>> => Append(Front(x), p) \in A
    BY DEF Front
  <2> QED BY <2>1, <2>2
<1> HIDE DEF turn, A
<1>4. T \in [A \X (1 .. n) -> A]
  BY <1>2, <1>3
<1>5. \E g : Is(g)
  <2>2. PICK g : Runs(g, n, A, <<>>, T)
    <3> HIDE DEF T, n
    <3> QED BY <1>1, <1>4, LoopRuns
  <2>3. \A k \in 1 .. n : g[k] = turn(g[k - 1], s[k])
    <3> TAKE k \in 1 .. n
    <3>1. g[k - 1] \in A
      BY <1>1, <2>2 DEF Runs
    <3>2. T[<<g[k - 1], k>>] = turn(g[k - 1], s[k])
      BY <3>1
    <3> HIDE DEF T
    <3> QED BY <2>2, <3>2 DEF Runs
  <2>4. Is(g)
    <3> HIDE DEF T
    <3> QED BY <2>2, <2>3 DEF Runs
  <2> QED BY <2>4
<1>6. Is(after)
  <2> HIDE DEF Is
  <2> QED BY <1>5
<1>7. /\ after[0] = <<>>
      /\ \A k \in 1 .. n : after[k] = turn(after[k - 1], s[k])
  <2> HIDE DEF after
  <2>1. after[0] = <<>>
    BY <1>1, <1>6
  <2>2. ASSUME NEW k \in 1 .. n PROVE after[k] = turn(after[k - 1], s[k])
    <3>1. after[k] = CHOOSE y \in {turn(x, s[k]) : x \in {after[k - 1]}} : TRUE
      <4>1. k \in 0 .. n /\ k # 0
        BY <1>1
      <4> QED BY <1>6, <4>1
    <3>2. {turn(x, s[k]) : x \in {after[k - 1]}} = {turn(after[k - 1], s[k])}
      OBVIOUS
    <3> QED BY <3>1, <3>2
  <2> QED BY <2>1, <2>2
<1> HIDE DEF after, Is
<1> DEFINE Good(kept, k) == /\ Grows(kept)
                            /\ \A i \in DOMAIN kept : k # 0 /\ kept[i] <= s[k]
           K == {z \in A \X (0 .. n) : Good(z[1], z[2])}
<1>8. <<<<>>, 0>> \in K
  BY <1>1 DEF Grows
<1>9. ASSUME NEW k \in 1 .. n, NEW x \in A, Good(x, k - 1)
      PROVE  Good(turn(x, s[k]), k)
  <2> DEFINE p == s[k]
             y == turn(x, p)
  <2>1. p \in Nat /\ x \in Seq(Nat)
    <3>1. p \in 1 .. m /\ 1 .. m \subseteq Nat
      BY <1>2
    <3> QED BY <3>1, <1>9 DEF A
  <2>2. \A i \in DOMAIN x : x[i] < p
    <3> TAKE i \in DOMAIN x
    <3>1. k - 1 # 0 /\ x[i] <= s[k - 1] /\ x[i] \in Nat
      BY <1>9, <2>1
    <3>2. k - 1 \in DOMAIN s /\ k \in DOMAIN s /\ k - 1 < k
      BY <3>1
    <3>3. s[k - 1] < p /\ s[k - 1] \in 1 .. m
      BY <1>2, <3>2 DEF Grows
    <3>4. x[i] \in Nat /\ x[i] <= s[k - 1] /\ s[k - 1] < p /\ s[k - 1] \in Nat /\ p \in Nat
      BY <2>1, <3>1, <3>3
    <3>5. \A v, w, z \in Nat : v <= w /\ w < z => v < z
      OBVIOUS
    <3> HIDE DEF p
    <3> QED BY <3>4, <3>5
  <2>3. Grows(x)
    BY <1>9
  <2>4. y = Append(x, p) \/ (x # <<>> /\ y \in {x, Append(Front(x), p)})
    BY DEF turn
  <2> HIDE DEF y, p
  <2>5. CASE y = Append(x, p)
    <3>1. \A i \in DOMAIN y : y[i] <= p
      <4> TAKE i \in DOMAIN y
      <4>1. IF i \in DOMAIN x THEN y[i] = x[i] ELSE y[i] = p
        BY <2>1, <2>5
      <4>2. i \in DOMAIN x => x[i] \in Nat
        BY <2>1
      <4> QED BY <2>1, <2>2, <4>1, <4>2
    <3>2. x \in Seq(Nat) /\ p \in Nat
      BY <2>1
    <3>3. Grows(y)
      BY <2>2, <2>3, <2>5, <3>2, AppendGrows
    <3>4. k # 0
      OBVIOUS
    <3> QED BY <3>1, <3>3, <3>4 DEF y, p
  <2>6. CASE y = x
    <3>1. \A i \in DOMAIN y : y[i] <= p
      <4> TAKE i \in DOMAIN y
      <4>1. y[i] \in Nat /\ y[i] < p
        BY <2>1, <2>2, <2>6
      <4> QED BY <2>1, <4>1
    <3> QED BY <2>3, <2>6, <3>1 DEF y, p
  <2>7. CASE x # <<>> /\ y = Append(Front(x), p)
    <3> DEFINE f == Front(x)
    <3>1. /\ f \in Seq(Nat) /\ \A i \in DOMAIN f : f[i] = x[i] /\ i \in DOMAIN x
      <4>1. Len(x) \in Nat /\ Len(x) # 0 /\ DOMAIN x = 1 .. Len(x)
        BY <2>1, <2>7
      <4>2. \A i \in 1 .. Len(x) - 1 : i \in 1 .. Len(x) /\ x[i] \in Nat
        BY <2>1, <4>1
      <4>3. f = [i \in 1 .. Len(x) - 1 |-> x[i]]
        BY <2>1, <4>1 DEF Front
      <4>4. f \in [1 .. Len(x) - 1 -> Nat] /\ Len(x) - 1 \in Nat
        BY <4>1, <4>2, <4>3
      <4> HIDE DEF f
      <4> QED BY <4>1, <4>2, <4>3, <4>4, FromOneOn
    <3> HIDE DEF f
    <3>2. Grows(f) /\ \A i \in DOMAIN f : f[i] < p
      BY <2>2, <2>3, <3>1 DEF Grows
    <3>3. y = Append(f, p)
      BY <2>7 DEF f
    <3>4. \A i \in DOMAIN y : y[i] <= p
      <4> TAKE i \in DOMAIN y
      <4>1. IF i \in DOMAIN f THEN y[i] = f[i] ELSE y[i] = p
        BY <3>1, <3>3
      <4>2. i \in DOMAIN f => f[i] \in Nat
        BY <3>1
      <4> QED BY <2>1, <3>2, <4>1, <4>2
    <3>5. Grows(y)
      BY <2>1, <3>1, <3>2, <3>3, AppendGrows
    <3> QED BY <3>4, <3>5 DEF y, p
  <2> QED BY <2>4, <2>5, <2>6, <2>7
<1> HIDE DEF Good
<1>10. Keeps(K, T, n, A)
  <2> SUFFICES ASSUME NEW k \in 1 .. n, NEW x \in A, <<x, k - 1>> \in K
               PROVE  <<T[<<x, k>>], k>> \in K
    BY DEF Keeps
  <2>1. T[<<x, k>>] = turn(x, s[k])
    OBVIOUS
  <2>2. T[<<x, k>>] \in A
    BY <1>4
  <2> QED BY <1>9, <2>1, <2>2
<1>11. Follows(after, T, n, A, <<>>)
  BY <1>7 DEF Follows
<1> HIDE DEF K, T, n
<1>12. after[n] \in A /\ <<after[n], n>> \in K
  BY <1>1, <1>4, <1>8, <1>10, <1>11, LoopKeeps
<1> QED BY <1>0, <1>12 DEF K, Good, A

\* The peaks that were found, in order and each a sample of the recording.
PeaksHeld ==
    /\ data \in Seq(0 .. FullScale)
    /\ frames = (Len(data) + EnergyHop) \div EnergyHop
    /\ \E s \in Seq(1 .. Len(data)) :
         /\ Grows(s)
         /\ DOMAIN found.mountains = DOMAIN s
         /\ \A i \in DOMAIN s : found.mountains[i].peak = s[i] /\ found.transient[i] \in BOOLEAN

\* The frames that are measured cover the recording.
LEMMA FramesCover ==
    ASSUME NEW n \in Nat, NEW m, m = (n + EnergyHop) \div EnergyHop
    PROVE  m \in Nat \ {0} /\ n < m * EnergyHop
<1>1. EnergyHop \in Nat \ {0}
  BY ConvertAssumption
<1>2. m \in Nat /\ n + EnergyHop < m * EnergyHop + EnergyHop /\ m * EnergyHop \in Nat
  BY <1>1
<1>3. m # 0
  BY <1>1, <1>2
<1> QED BY <1>1, <1>2, <1>3

\* The peaks of a recording are found in order.
LEMMA IsolateHolds ==
    ASSUME data \in Seq(0 .. FullScale), frames = (Len(data) + EnergyHop) \div EnergyHop,
           heights = Envelope(data), PeaksInOrder,
           ObtainTransientByAmplitude, frames' = frames
    PROVE  PeaksHeld'
<1> DEFINE near == [i \in DOMAIN mountains |-> BlockPeak(data, mountains[i].peak)]
           peaks == PeakFilterMinRange(data, near)
           N == Len(data)
<1>1. PICK iso, t, v : 
        found' = GetIsolatedEnvelope(GetEachIndependentEnvelope(iso, peaks, t), v)
  <2>1. PICK ps \in {peaks} :
          \E amp \in {GetLowestPeakValue(heights, all)}, loud \in {VoiceAmp(data, ps)} :
          \E iso \in {TriangularEnvelope(data, amp, Len(data) - MaxN + 1)},
             voiced \in {TriangularEnvelope(data, loud, Len(data) - MaxN)} :
          \E ms \in {GetEachIndependentEnvelope(iso, ps, amp)},
             vs \in {GetEachIndependentEnvelope(voiced, ps, loud)} :
            found' = GetIsolatedEnvelope(ms, SplitVoiceSlienceRange(data, vs))
    BY Zenon DEF ObtainTransientByAmplitude
  <2>2. ps = peaks
    BY <2>1, Zenon
  <2>3. PICK amp \in {GetLowestPeakValue(heights, all)}, loud \in {VoiceAmp(data, ps)} :
          \E iso \in {TriangularEnvelope(data, amp, Len(data) - MaxN + 1)},
             voiced \in {TriangularEnvelope(data, loud, Len(data) - MaxN)} :
          \E ms \in {GetEachIndependentEnvelope(iso, ps, amp)},
             vs \in {GetEachIndependentEnvelope(voiced, ps, loud)} :
            found' = GetIsolatedEnvelope(ms, SplitVoiceSlienceRange(data, vs))
    BY <2>1, Zenon
  <2>4. PICK iso \in {TriangularEnvelope(data, amp, Len(data) - MaxN + 1)},
             voiced \in {TriangularEnvelope(data, loud, Len(data) - MaxN)} :
          \E ms \in {GetEachIndependentEnvelope(iso, ps, amp)},
             vs \in {GetEachIndependentEnvelope(voiced, ps, loud)} :
            found' = GetIsolatedEnvelope(ms, SplitVoiceSlienceRange(data, vs))
    BY <2>3, Zenon
  <2>5. PICK ms \in {GetEachIndependentEnvelope(iso, ps, amp)},
             vs \in {GetEachIndependentEnvelope(voiced, ps, loud)} :
            found' = GetIsolatedEnvelope(ms, SplitVoiceSlienceRange(data, vs))
    BY <2>4, Zenon
  <2>6. ms = GetEachIndependentEnvelope(iso, ps, amp)
    BY <2>5, Zenon
  <2> HIDE DEF peaks
  <2> QED BY <2>2, <2>5, <2>6, Zenon
<1>2. N \in Nat /\ EnvelopeHop \in Nat \ {0} /\ N \div EnvelopeHop \in Nat
  <2>1. N \in Nat
    BY PlacesIn
  <2>2. EnvelopeHop \in Nat \ {0}
    BY PeakAssumption
  <2> HIDE DEF N
  <2>3. \A x \in Nat, y \in Nat \ {0} : x \div y \in Nat
    OBVIOUS
  <2> QED BY <2>1, <2>2, <2>3
<1>3. DOMAIN heights = 1 .. N \div EnvelopeHop
  BY EnvelopeType
<1>4. /\ Len(mountains) \in Nat /\ DOMAIN mountains = 1 .. Len(mountains)
      /\ \A i \in DOMAIN mountains : mountains[i].peak \in 1 .. N \div EnvelopeHop
      /\ \A i, j \in DOMAIN mountains : i < j => mountains[i].peak < mountains[j].peak
  BY <1>3 DEF PeaksInOrder, Crest
<1>5. \A i \in DOMAIN mountains :
        /\ near[i] \in 1 .. N
        /\ (mountains[i].peak - 1) * EnvelopeHop + 1 <= near[i]
        /\ near[i] <= mountains[i].peak * EnvelopeHop
  BY <1>4, BlockPeakOf
<1>6. near \in Seq(1 .. N) /\ DOMAIN near = DOMAIN mountains
  <2> DEFINE A == 1 .. N
  <2>1. near \in [1 .. Len(mountains) -> A] /\ DOMAIN near = DOMAIN mountains
    BY <1>4, <1>5
  <2> HIDE DEF A, near
  <2>2. near \in Seq(A)
    BY <1>4, <2>1, FromOneOn
  <2> QED BY <2>1, <2>2 DEF A
<1>7. Grows(near)
  <2> SUFFICES ASSUME NEW i \in DOMAIN mountains, NEW j \in DOMAIN mountains, i < j
               PROVE  near[i] < near[j]
    BY <1>6 DEF Grows
  <2> DEFINE a == mountains[i].peak
             b == mountains[j].peak
             x == near[i]
             y == near[j]
  <2>1. a \in Nat /\ b \in Nat /\ a <= b - 1
    BY <1>2, <1>4
  <2>2. x \in Nat /\ y \in Nat /\ x <= a * EnvelopeHop /\ (b - 1) * EnvelopeHop + 1 <= y
    BY <1>2, <1>5
  <2> HIDE DEF a, b, x, y
  <2>3. a * EnvelopeHop <= (b - 1) * EnvelopeHop
        /\ a * EnvelopeHop \in Int /\ (b - 1) * EnvelopeHop \in Int
    BY <1>2, <2>1
  <2>4. x < y
    BY <2>2, <2>3
  <2> QED BY <2>4 DEF x, y
<1> HIDE DEF near
<1>8. peaks \in Seq(1 .. N) /\ Grows(peaks)
  <2> HIDE DEF N
  <2> QED BY <1>2, <1>6, <1>7, MinRangeGrows
<1> HIDE DEF peaks
<1> DEFINE ms == GetEachIndependentEnvelope(iso, peaks, t)
<1>9. DOMAIN ms = DOMAIN peaks /\ \A i \in DOMAIN peaks : ms[i].peak = peaks[i]
  <2> DEFINE f == [i \in DOMAIN peaks |-> FindPeakBoundary(iso, peaks[i], t)]
             A == {FindPeakBoundary(iso, peaks[i], t) : i \in DOMAIN peaks}
  <2>1. Len(peaks) \in Nat /\ DOMAIN peaks = 1 .. Len(peaks)
    BY <1>8
  <2>2. f \in [1 .. Len(peaks) -> A]
    BY <2>1
  <2>3. \A i \in DOMAIN peaks : f[i].peak = peaks[i]
    BY DEF FindPeakBoundary
  <2>4. ms = Samples(f) /\ DOMAIN f = DOMAIN peaks
    BY DEF GetEachIndependentEnvelope
  <2> HIDE DEF f, A, ms
  <2>5. f \in Seq(A)
    BY <2>1, <2>2, FromOneOn
  <2> QED BY <2>3, <2>4, <2>5, SamplesOf
<1> HIDE DEF ms
<1>10. /\ found'.mountains = ms
       /\ \A i \in DOMAIN ms : found'.transient[i] \in BOOLEAN
  <2>1. found' = GetIsolatedEnvelope(ms, v)
    BY <1>1 DEF ms
  <2>2. found'.transient = [i \in DOMAIN ms |-> Span(ms[i]) < HopLength]
    BY <2>1 DEF GetIsolatedEnvelope
  <2> QED BY <2>1, <2>2 DEF GetIsolatedEnvelope
<1>11. data' = data
  BY DEF ObtainTransientByAmplitude
<1> QED BY <1>8, <1>9, <1>10, <1>11 DEF PeaksHeld

-----------------------------------------------------------------------------
(* Onsets and peaks, by frame                                              *)

\* What an onset or a peak is recorded as.
Onsets == [idx : Nat, time : Nat, transient : BOOLEAN]

\* Onsets and peaks in the order of time, each in one of the frames.
InTime(us) ==
    /\ us \in Seq(Onsets)
    /\ \A i \in DOMAIN us : us[i].time < frames * EnergyHop
    /\ \A i, j \in DOMAIN us : i < j => us[i].time < us[j].time

\* The frame of an onset or peak is the one whose boundary is nearest.
Centred(u) ==
    /\ u \in Onsets
    /\ u.time < frames * EnergyHop
    /\ (2 * u.idx - 1) * EnergyHop <= 2 * u.time
    /\ 2 * u.time < (2 * u.idx + 1) * EnergyHop

\* Onsets and peaks by frame, one in each.
ByFrame(us) ==
    /\ us \in Seq(Onsets)
    /\ \A i \in DOMAIN us : Centred(us[i])
    /\ \A i, j \in DOMAIN us : i < j => us[i].idx < us[j].idx

\* What is ordered by frame is ordered by time.
LEMMA ByFrameInTime ==
    ASSUME frames \in Nat, NEW us, ByFrame(us)
    PROVE  InTime(us)
<1>1. EnergyHop \in Nat \ {0}
  BY ConvertAssumption
<1>2. us \in Seq(Onsets) /\ \A i \in DOMAIN us : us[i].idx \in Nat /\ us[i].time \in Nat
  <2>1. us \in Seq(Onsets)
    BY DEF ByFrame
  <2>2. \A i \in DOMAIN us : us[i] \in Onsets
    BY <2>1
  <2> QED BY <2>1, <2>2 DEF Onsets
<1>3. \A a, b \in Nat : a < b => (2 * a + 1) * EnergyHop <= (2 * b - 1) * EnergyHop
  <2> TAKE a \in Nat, b \in Nat
  <2> HAVE a < b
  <2>1. 2 * a + 1 <= 2 * b - 1
    OBVIOUS
  <2>2. \A x, y \in Int : x <= y => x * EnergyHop <= y * EnergyHop
    BY <1>1
  <2> QED BY <2>1, <2>2
<1>4. ASSUME NEW i \in DOMAIN us, NEW j \in DOMAIN us, i < j
      PROVE  us[i].time < us[j].time
  <2> DEFINE a == us[i].idx
             b == us[j].idx
             s == us[i].time
             t == us[j].time
  <2>1. a \in Nat /\ b \in Nat /\ s \in Nat /\ t \in Nat /\ a < b
    BY <1>2, <1>4 DEF ByFrame
  <2>2. 2 * s < (2 * a + 1) * EnergyHop /\ (2 * b - 1) * EnergyHop <= 2 * t
    BY DEF ByFrame, Centred
  <2>3. (2 * a + 1) * EnergyHop <= (2 * b - 1) * EnergyHop
    BY <1>3, <2>1
  <2> HIDE DEF a, b, s, t
  <2>4. (2 * a + 1) * EnergyHop \in Int /\ (2 * b - 1) * EnergyHop \in Int
    BY <1>1, <2>1
  <2>5. 2 * s < 2 * t
    BY <2>1, <2>2, <2>3, <2>4
  <2>6. s < t
    BY <2>1, <2>5
  <2> QED BY <2>6 DEF s, t
<1> QED BY <1>2, <1>4 DEF InTime, ByFrame, Centred

\* Some of them are by frame like all of them, ...
LEMMA EntriesByFrame ==
    ASSUME NEW us, ByFrame(us), NEW S \in SUBSET DOMAIN us
    PROVE  /\ ByFrame(Entries(us, S))
           /\ \A k \in DOMAIN Entries(us, S) : \E i \in S : Entries(us, S)[k] = us[i]
<1> DEFINE place == InOrder(S)
           e == Entries(us, S)
<1>1. us \in Seq(Onsets)
  BY DEF ByFrame
<1>2. /\ place \in Seq(S) /\ e \in Seq(Onsets) /\ DOMAIN e = DOMAIN place
      /\ \A i, j \in DOMAIN place : i < j => place[i] < place[j]
      /\ \A k \in DOMAIN place : e[k] = us[place[k]]
  BY <1>1, EntriesOf
<1> HIDE DEF place, e
<1>3. \A k \in DOMAIN place : place[k] \in S /\ place[k] \in DOMAIN us
  <2>1. \A k \in DOMAIN place : place[k] \in S
    BY <1>2
  <2> QED BY <2>1
<1>4. ByFrame(e)
  BY <1>2, <1>3 DEF ByFrame
<1>5. \A k \in DOMAIN e : \E i \in S : e[k] = us[i]
  BY <1>2, <1>3
<1> QED BY <1>4, <1>5 DEF e

\* ... and so are two lists of which one ends before the other begins.
LEMMA JoinByFrame ==
    ASSUME NEW a, NEW b, ByFrame(a), ByFrame(b),
           \A i \in DOMAIN a, j \in DOMAIN b : a[i].idx < b[j].idx
    PROVE  ByFrame(a \o b)
<1> DEFINE c == a \o b
<1>1. /\ a \in Seq(Onsets) /\ b \in Seq(Onsets)
      /\ Len(a) \in Nat /\ DOMAIN a = 1 .. Len(a)
      /\ Len(b) \in Nat /\ DOMAIN b = 1 .. Len(b)
  BY DEF ByFrame
<1>2. /\ c \in Seq(Onsets) /\ DOMAIN c = 1 .. Len(a) + Len(b)
      /\ \A i \in 1 .. Len(a) + Len(b) : c[i] = IF i <= Len(a) THEN a[i] ELSE b[i - Len(a)]
  BY <1>1
<1> HIDE DEF c
<1>3. \A i \in DOMAIN c : IF i <= Len(a) THEN i \in DOMAIN a ELSE i - Len(a) \in DOMAIN b
  BY <1>1, <1>2
<1>4. \A i \in DOMAIN c : Centred(c[i])
  <2> TAKE i \in DOMAIN c
  <2>1. CASE i <= Len(a)
    BY <1>2, <1>3, <2>1 DEF ByFrame
  <2>2. CASE ~ (i <= Len(a))
    BY <1>2, <1>3, <2>2 DEF ByFrame
  <2> QED BY <2>1, <2>2
<1>5. ASSUME NEW i \in DOMAIN c, NEW j \in DOMAIN c, i < j PROVE c[i].idx < c[j].idx
  <2>0. i \in Nat /\ j \in Nat
    BY <1>1, <1>2
  <2>1. CASE j <= Len(a)
    <3>1. i <= Len(a) /\ c[i] = a[i] /\ c[j] = a[j]
      BY <1>1, <1>2, <1>5, <2>0, <2>1
    <3> QED BY <1>3, <1>5, <2>1, <3>1 DEF ByFrame
  <2>2. CASE ~ (j <= Len(a)) /\ i <= Len(a)
    <3>1. c[i] = a[i] /\ c[j] = b[j - Len(a)]
      BY <1>2, <2>2
    <3> QED BY <1>3, <2>2, <3>1
  <2>3. CASE ~ (j <= Len(a)) /\ ~ (i <= Len(a))
    <3>1. c[i] = b[i - Len(a)] /\ c[j] = b[j - Len(a)] /\ i - Len(a) < j - Len(a)
      BY <1>1, <1>2, <1>5, <2>0, <2>3
    <3> QED BY <1>3, <2>3, <3>1 DEF ByFrame
  <2> QED BY <2>1, <2>2, <2>3
<1>6. ByFrame(c)
  BY <1>2, <1>4, <1>5 DEF ByFrame
<1> QED BY <1>6 DEF c

\* A peak that is merged replaces the onset in its frame or goes to its place.
LEMMA MergeByFrame ==
    ASSUME NEW us, ByFrame(us), NEW u, Centred(u)
    PROVE  ByFrame(Merge(us, u))
<1>1. /\ us \in Seq(Onsets) /\ Len(us) \in Nat /\ DOMAIN us = 1 .. Len(us)
      /\ u \in Onsets /\ u.idx \in Nat
      /\ \A i \in DOMAIN us : us[i] \in Onsets /\ us[i].idx \in Nat
  <2>1. us \in Seq(Onsets) /\ u \in Onsets
    BY DEF ByFrame, Centred
  <2>2. \A i \in DOMAIN us : us[i] \in Onsets
    BY <2>1
  <2> QED BY <2>1, <2>2 DEF Onsets
<1>2. CASE \E v \in ToSet(us) : v.idx = u.idx
  <2> DEFINE m == [i \in DOMAIN us |-> IF us[i].idx = u.idx THEN u ELSE us[i]]
  <2>1. Merge(us, u) = m
    BY <1>2 DEF Merge
  <2>2. \A i \in DOMAIN us : m[i] \in Onsets /\ m[i].idx = us[i].idx /\ Centred(m[i])
    BY <1>1 DEF ByFrame
  <2>3. m \in [1 .. Len(us) -> Onsets] /\ DOMAIN m = DOMAIN us
    BY <1>1, <2>2
  <2> HIDE DEF m
  <2>4. m \in Seq(Onsets)
    BY <1>1, <2>3, FromOneOn
  <2> QED BY <2>1, <2>2, <2>3, <2>4 DEF ByFrame
<1>3. CASE ~ \E v \in ToSet(us) : v.idx = u.idx
  <2>1. CASE us = <<>>
    BY <1>3, <2>1 DEF Merge, EmplaceOnsetTime
  <2>2. CASE us # <<>>
    <3> DEFINE L == {i \in DOMAIN us : us[i].idx < u.idx}
               H == {i \in DOMAIN us : us[i].idx > u.idx}
               lo == Entries(us, L)
               hi == Entries(us, H)
               mid == <<u>>
    <3>1. Merge(us, u) = lo \o mid \o hi
      BY <1>3, <2>2 DEF Merge, EmplaceOnsetTime
    <3>2. L \in SUBSET DOMAIN us /\ H \in SUBSET DOMAIN us
      OBVIOUS
    <3>3. /\ \A i \in L : us[i].idx < u.idx /\ us[i].idx \in Nat
          /\ \A i \in H : u.idx < us[i].idx /\ us[i].idx \in Nat
      BY <1>1
    <3> HIDE DEF L, H
    <3>4. ByFrame(lo) /\ \A k \in DOMAIN lo : \E i \in L : lo[k] = us[i]
      BY <3>2, EntriesByFrame
    <3>5. ByFrame(hi) /\ \A k \in DOMAIN hi : \E i \in H : hi[k] = us[i]
      BY <3>2, EntriesByFrame
    <3>6. ByFrame(mid) /\ DOMAIN mid = {1} /\ mid[1] = u
      <4>1. mid \in Seq(Onsets) /\ DOMAIN mid = {1} /\ mid[1] = u
        BY <1>1
      <4> HIDE DEF mid
      <4> QED BY <4>1 DEF ByFrame
    <3> HIDE DEF lo, hi, mid
    <3> DEFINE front == lo \o mid
    <3>7. ByFrame(front)
      BY <3>3, <3>4, <3>6, JoinByFrame
    <3>8. \A i \in DOMAIN front : front[i].idx <= u.idx /\ front[i].idx \in Nat
      <4>1. /\ lo \in Seq(Onsets) /\ mid \in Seq(Onsets)
        BY <3>4, <3>6 DEF ByFrame
      <4>2. \A i \in DOMAIN front : IF i \in DOMAIN lo THEN front[i] = lo[i] ELSE front[i] = u
        <5>1. Len(mid) = 1 /\ Len(lo) \in Nat /\ DOMAIN lo = 1 .. Len(lo)
          BY <3>6, <4>1
        <5>2. /\ DOMAIN front = 1 .. Len(lo) + Len(mid)
              /\ \A i \in 1 .. Len(lo) + Len(mid) :
                   front[i] = IF i <= Len(lo) THEN lo[i] ELSE mid[i - Len(lo)]
          BY <4>1
        <5>4. \A i \in 1 .. Len(lo) + 1 : ~ (i <= Len(lo)) => i - Len(lo) = 1
          BY <5>1
        <5> HIDE DEF front
        <5> QED BY <3>6, <5>1, <5>2, <5>4
      <4> HIDE DEF front
      <4> TAKE i \in DOMAIN front
      <4>3. CASE i \in DOMAIN lo
        <5>1. PICK j \in L : front[i] = us[j]
          BY <3>4, <4>2, <4>3
        <5>2. us[j].idx < u.idx /\ us[j].idx \in Nat
          BY <3>3
        <5> QED BY <1>1, <5>1, <5>2
      <4>4. CASE i \notin DOMAIN lo
        BY <1>1, <4>2, <4>4
      <4> QED BY <4>3, <4>4
    <3> HIDE DEF front
    <3>9. \A i \in DOMAIN front, j \in DOMAIN hi : front[i].idx < hi[j].idx
      <4> TAKE i \in DOMAIN front, j \in DOMAIN hi
      <4>1. PICK x \in H : hi[j] = us[x]
        BY <3>5
      <4>2. u.idx < hi[j].idx /\ hi[j].idx \in Nat
        BY <3>3, <4>1
      <4> QED BY <1>1, <3>8, <4>2
    <3>10. ByFrame(front \o hi)
      BY <3>5, <3>7, <3>9, JoinByFrame
    <3> QED BY <3>1, <3>10 DEF front
  <2> QED BY <2>1, <2>2
<1> QED BY <1>2, <1>3

\* Peaks merged into the onsets one after the other.
LEMMA MergedByFrame ==
    ASSUME NEW us, ByFrame(us), NEW s \in Seq(Onsets), \A k \in DOMAIN s : Centred(s[k])
    PROVE  ByFrame(Loop(Merge, us, s))
<1> DEFINE A == {x \in Seq(Onsets) : ByFrame(x)}
           n == Len(s)
           turn(x, u) == Merge(x, u)
           T == [z \in A \X (1 .. n) |-> turn(z[1], s[z[2]])]
           Is(g) == g = [k \in 0 .. n |->
                           IF k = 0 THEN us
                           ELSE CHOOSE y \in {turn(x, s[k]) : x \in {g[k - 1]}} : TRUE]
           after == CHOOSE g : Is(g)
<1>0. Loop(Merge, us, s) = after[n]
  BY DEF Loop
<1>1. n \in Nat /\ us \in A
  BY DEF ByFrame
<1>2. \A x \in A, k \in 1 .. n : turn(x, s[k]) \in A
  <2> TAKE x \in A, k \in 1 .. n
  <2>1. ByFrame(Merge(x, s[k]))
    BY MergeByFrame
  <2> QED BY <2>1 DEF ByFrame
<1> HIDE DEF A, turn
<1>6. T \in [A \X (1 .. n) -> A]
  BY <1>2
<1>7. \E g : Is(g)
  <2>2. PICK g : Runs(g, n, A, us, T)
    <3> HIDE DEF T, n
    <3> QED BY <1>1, <1>6, LoopRuns
  <2>3. \A k \in 1 .. n : g[k] = turn(g[k - 1], s[k])
    <3> TAKE k \in 1 .. n
    <3>1. g[k - 1] \in A
      BY <1>1, <2>2 DEF Runs
    <3>2. T[<<g[k - 1], k>>] = turn(g[k - 1], s[k])
      BY <3>1
    <3> HIDE DEF T
    <3> QED BY <2>2, <3>2 DEF Runs
  <2>4. Is(g)
    <3> HIDE DEF T
    <3> QED BY <2>2, <2>3 DEF Runs
  <2> QED BY <2>4
<1>8. Is(after)
  <2> HIDE DEF Is
  <2> QED BY <1>7
<1>9. /\ after[0] = us
      /\ \A k \in 1 .. n : after[k] = turn(after[k - 1], s[k])
  <2> HIDE DEF after
  <2>1. after[0] = us
    BY <1>1, <1>8
  <2>2. ASSUME NEW k \in 1 .. n PROVE after[k] = turn(after[k - 1], s[k])
    <3>1. after[k] = CHOOSE y \in {turn(x, s[k]) : x \in {after[k - 1]}} : TRUE
      <4>1. k \in 0 .. n /\ k # 0
        BY <1>1
      <4> QED BY <1>8, <4>1
    <3>2. {turn(x, s[k]) : x \in {after[k - 1]}} = {turn(after[k - 1], s[k])}
      OBVIOUS
    <3> QED BY <3>1, <3>2
  <2> QED BY <2>1, <2>2
<1> HIDE DEF after, Is
<1> DEFINE K == A \X (0 .. n)
<1>10. <<us, 0>> \in K
  BY <1>1
<1>12. Keeps(K, T, n, A)
  <2> SUFFICES ASSUME NEW k \in 1 .. n, NEW x \in A, <<x, k - 1>> \in K
               PROVE  <<T[<<x, k>>], k>> \in K
    BY DEF Keeps
  <2>1. T[<<x, k>>] \in A /\ k \in 0 .. n
    <3>1. k \in 0 .. n
      BY <1>1
    <3> HIDE DEF T
    <3> QED BY <1>6, <3>1
  <2> HIDE DEF T
  <2> QED BY <2>1
<1>13. Follows(after, T, n, A, us)
  BY <1>9 DEF Follows
<1> HIDE DEF K, T, n
<1>14. after[n] \in A
  BY <1>1, <1>6, <1>10, <1>12, <1>13, LoopKeeps
<1> QED BY <1>0, <1>14 DEF A

\* An onset in half frames is at most half a frame before the boundary it is rounded to.
LEMMA OnsetAt ==
    ASSUME NEW h \in Nat, frames \in Nat, h <= 2 * (frames - 1)
    PROVE  Centred(AtFrame(Rounded(h, 2), Rounded(h * EnergyHop, 2), FALSE))
<1> DEFINE E == EnergyHop
           i == Rounded(h, 2)
           t == Rounded(h * E, 2)
           m == h * E
<1>1. E \in Nat \ {0}
  BY ConvertAssumption
<1>2. i \in Nat /\ 2 * i - 1 <= h /\ h <= 2 * i
  BY DEF Rounded
<1>3. m \in Nat
  BY <1>1
<1>4. t = (2 * m + 2) \div (2 * 2)
  BY DEF Rounded
<1> HIDE DEF i, t, m, E
<1>5. t \in Nat /\ m <= 2 * t /\ 2 * t <= m + 1
  BY <1>3, <1>4
<1>6. \A x, y \in Int : x <= y => x * E <= y * E
  BY <1>1
<1>7. (2 * i - 1) * E <= m /\ m <= (2 * i) * E
  BY <1>2, <1>6 DEF m
<1>8. (2 * i) * E = 2 * (i * E) /\ (2 * i - 1) * E = 2 * (i * E) - E
      /\ (2 * i + 1) * E = 2 * (i * E) + E /\ i * E \in Nat
  BY <1>1, <1>2
<1>9. 2 * t <= 2 * (i * E)
  BY <1>3, <1>5, <1>7, <1>8
<1>10. t < frames * E
  <2>1. m <= (2 * (frames - 1)) * E
    BY <1>6 DEF m
  <2>2. (2 * (frames - 1)) * E = 2 * (frames * E) - 2 * E /\ frames * E \in Nat
    BY <1>1
  <2>3. 2 * t <= 2 * (frames * E) - 2 * E + 1
    BY <1>1, <1>3, <1>5, <2>1, <2>2
  <2> QED BY <1>1, <1>5, <2>2, <2>3
<1>11. (2 * i - 1) * E <= 2 * t /\ 2 * t < (2 * i + 1) * E
  BY <1>1, <1>3, <1>5, <1>7, <1>8, <1>9
<1> DEFINE u == [idx |-> i, time |-> t, transient |-> FALSE]
<1>12. u \in Onsets /\ u.idx = i /\ u.time = t
  BY <1>2, <1>5 DEF Onsets
<1> HIDE DEF u
<1>13. Centred(u)
  BY <1>10, <1>11, <1>12 DEF Centred, E
<1> QED BY <1>13 DEF u, i, t, E, AtFrame

\* So is a peak.
LEMMA PeakInFrame ==
    ASSUME NEW p \in Nat \ {0}, NEW flag \in BOOLEAN, frames \in Nat,
           p - 1 < frames * EnergyHop
    PROVE  /\ Centred(TranslateAnchorPoint(p, flag))
           /\ TranslateAnchorPoint(p, flag).time = p - 1
<1> DEFINE E == EnergyHop
           t == p - 1
           i == Rounded(t, E)
<1>1. E \in Nat \ {0} /\ t \in Nat
  BY ConvertAssumption
<1>2. i = (2 * t + E) \div (2 * E)
  BY DEF Rounded
<1> HIDE DEF t, E, i
<1>3. i \in Nat /\ (2 * E) * i <= 2 * t + E /\ 2 * t + E < (2 * E) * i + 2 * E
  <2>1. 2 * t + E \in Nat /\ 2 * E \in Nat \ {0}
    BY <1>1
  <2> DEFINE a == 2 * t + E
             b == 2 * E
  <2>2. a \in Nat /\ b \in Nat \ {0} /\ i = a \div b
    BY <1>2, <2>1
  <2> HIDE DEF a, b
  <2>3. i \in Nat /\ b * i <= a /\ a < b * i + b
    BY <2>2
  <2> QED BY <2>3 DEF a, b
<1>4. (2 * E) * i = 2 * (i * E) /\ i * E \in Nat
      /\ (2 * i - 1) * E = 2 * (i * E) - E /\ (2 * i + 1) * E = 2 * (i * E) + E
  BY <1>1, <1>3
<1>5. (2 * i - 1) * E <= 2 * t /\ 2 * t < (2 * i + 1) * E
  BY <1>1, <1>3, <1>4
<1> DEFINE u == [idx |-> i, time |-> t, transient |-> flag]
<1>6. u \in Onsets /\ u.idx = i /\ u.time = t
  BY <1>1, <1>3 DEF Onsets
<1>7. TranslateAnchorPoint(p, flag) = u
  BY DEF TranslateAnchorPoint, AtFrame, t, i, E
<1> HIDE DEF u
<1>8. Centred(u)
  BY <1>5, <1>6 DEF Centred, E, t
<1> QED BY <1>6, <1>7, <1>8 DEF t

\* The onsets are in the order of their frames, one in each.
LEMMA OnsetsByFrame ==
    ASSUME frames \in Nat \ {0}, NEW onsets \in SUBSET (0 .. 2 * (frames - 1))
    PROVE  ByFrame(DetectOnset(onsets))
<1> DEFINE half == InOrder(onsets)
           frame(k) == Rounded(half[k], 2)
           firsts == {k \in DOMAIN half : k = 1 \/ frame(k) # frame(k - 1)}
           onset == [k \in DOMAIN half |->
                       AtFrame(frame(k), Rounded(half[k] * EnergyHop, 2), FALSE)]
           e == Entries(onset, firsts)
           place == InOrder(firsts)
<1>0. DetectOnset(onsets) = e
  BY DEF DetectOnset
<1>1. /\ half \in Seq(onsets) /\ Len(half) \in Nat /\ DOMAIN half = 1 .. Len(half)
      /\ \A i, j \in DOMAIN half : i < j => half[i] < half[j]
  <2> DEFINE n == 2 * (frames - 1)
  <2>1. n \in Nat /\ onsets \in SUBSET (0 .. n)
    OBVIOUS
  <2> HIDE DEF n
  <2>2. /\ half \in Seq(onsets)
        /\ \A i, j \in DOMAIN half : i < j => half[i] < half[j]
    BY <2>1, InOrderSorted
  <2> HIDE DEF half
  <2> QED BY <2>2
<1> HIDE DEF half
<1>2. \A k \in DOMAIN half : half[k] \in Nat /\ half[k] <= 2 * (frames - 1)
  <2> TAKE k \in DOMAIN half
  <2>1. half[k] \in onsets
    BY <1>1
  <2>2. \A x \in onsets : x \in 0 .. 2 * (frames - 1)
    OBVIOUS
  <2>3. half[k] \in 0 .. 2 * (frames - 1)
    BY <2>1, <2>2
  <2> QED BY <2>3
<1>3. \A k \in DOMAIN half : frame(k) \in Nat
  BY <1>2 DEF Rounded
<1>4. \A i, j \in DOMAIN half : i <= j => frame(i) <= frame(j)
  <2> TAKE i \in DOMAIN half, j \in DOMAIN half
  <2> HAVE i <= j
  <2>1. half[i] <= half[j]
    BY <1>1, <1>2
  <2> QED BY <1>2, <2>1 DEF Rounded
<1>5. \A k \in DOMAIN half : Centred(onset[k]) /\ onset[k].idx = frame(k)
  <2> TAKE k \in DOMAIN half
  <2>1. onset[k] = AtFrame(Rounded(half[k], 2), Rounded(half[k] * EnergyHop, 2), FALSE)
    OBVIOUS
  <2> HIDE DEF onset
  <2>2. Centred(onset[k])
    BY <1>2, <2>1, OnsetAt
  <2> QED BY <2>1, <2>2 DEF AtFrame
<1>6. onset \in Seq(Onsets) /\ DOMAIN onset = DOMAIN half
  <2>1. DOMAIN onset = 1 .. Len(half)
    BY <1>1
  <2>2. \A k \in 1 .. Len(half) : onset[k] \in Onsets
    BY <1>1, <1>5 DEF Centred
  <2>3. onset = [k \in 1 .. Len(half) |-> onset[k]]
    BY <1>1
  <2> HIDE DEF onset
  <2>4. onset \in [1 .. Len(half) -> Onsets]
    BY <2>1, <2>2, <2>3
  <2> QED BY <1>1, <2>1, <2>4, FromOneOn
<1>7. \A p, q \in firsts : p < q => frame(p) < frame(q)
  <2> TAKE p \in firsts, q \in firsts
  <2> HAVE p < q
  <2>1. q # 1 /\ q - 1 \in DOMAIN half /\ p <= q - 1 /\ q - 1 <= q
    BY <1>1
  <2>2. frame(q) # frame(q - 1) /\ frame(p) <= frame(q - 1) /\ frame(q - 1) <= frame(q)
    BY <1>4, <2>1
  <2> QED BY <1>3, <2>1, <2>2
<1>8. firsts \in SUBSET DOMAIN half
  OBVIOUS
<1> HIDE DEF firsts, onset, frame
<1>9. /\ place \in Seq(firsts) /\ e \in Seq(Onsets) /\ DOMAIN e = DOMAIN place
      /\ \A i, j \in DOMAIN place : i < j => place[i] < place[j]
      /\ \A k \in DOMAIN place : e[k] = onset[place[k]]
  BY <1>6, <1>8, EntriesOf
<1> HIDE DEF place, e
<1>10. \A k \in DOMAIN place : place[k] \in firsts /\ place[k] \in DOMAIN half
  <2>1. \A k \in DOMAIN place : place[k] \in firsts
    BY <1>9
  <2> QED BY <1>8, <2>1
<1>11. \A k \in DOMAIN e : Centred(e[k]) /\ e[k].idx = frame(place[k])
  BY <1>5, <1>9, <1>10
<1>12. ByFrame(e)
  BY <1>7, <1>9, <1>10, <1>11 DEF ByFrame
<1> QED BY <1>0, <1>12

\* Whether they are transient makes no difference to that.
LEMMA FlaggedByFrame ==
    ASSUME NEW us, ByFrame(us), NEW d
    PROVE  ByFrame(IsTransientEvent(d, us))
<1> DEFINE flag(i) == IsTransientEventFlag(LocalDatas(d, us, i))
           f == [i \in DOMAIN us |-> [us[i] EXCEPT !.transient = flag(i)]]
<1>1. IsTransientEvent(d, us) = Samples(f)
  BY DEF IsTransientEvent
<1>2. \A i \in DOMAIN us : flag(i) \in BOOLEAN
  BY DEF IsTransientEventFlag
<1> HIDE DEF flag
<1>3. us \in Seq(Onsets) /\ Len(us) \in Nat /\ DOMAIN us = 1 .. Len(us)
  BY DEF ByFrame
<1>4. \A i \in DOMAIN us :
        f[i] \in Onsets /\ f[i].idx = us[i].idx /\ f[i].time = us[i].time
  <2> TAKE i \in DOMAIN us
  <2>1. us[i] \in Onsets /\ f[i] = [us[i] EXCEPT !.transient = flag(i)]
    BY <1>3
  <2> HIDE DEF f
  <2> QED BY <1>2, <2>1 DEF Onsets
<1>5. f \in [1 .. Len(us) -> Onsets] /\ DOMAIN f = DOMAIN us
  BY <1>3, <1>4
<1> HIDE DEF f
<1>6. f \in Seq(Onsets)
  BY <1>3, <1>5, FromOneOn
<1>7. ByFrame(f)
  BY <1>4, <1>5, <1>6 DEF ByFrame, Centred
<1> QED BY <1>1, <1>6, <1>7, SamplesOf

\* What becomes of them and of the onsets are events in the order of time.
LEMMA UnionsInTime ==
    ASSUME PeaksHeld, ConvertTransientEvent
    PROVE  InTime(unions)' /\ frames' \in Nat \ {0}
<1> DEFINE N == Len(data)
           peaks == [i \in DOMAIN found.mountains |->
                       TranslateAnchorPoint(found.mountains[i].peak, found.transient[i])]
<1>1. N \in Nat /\ frames \in Nat \ {0} /\ N < frames * EnergyHop
  BY FramesCover DEF PeaksHeld
<1>2. PICK s \in Seq(1 .. N) :
         /\ Grows(s)
         /\ DOMAIN found.mountains = DOMAIN s
         /\ \A i \in DOMAIN s : found.mountains[i].peak = s[i] /\ found.transient[i] \in BOOLEAN
  BY DEF PeaksHeld
<1>3. Len(s) \in Nat /\ DOMAIN s = 1 .. Len(s) /\ \A i \in DOMAIN s : s[i] \in 1 .. N
  BY <1>2
<1>4. \A i \in DOMAIN s : Centred(peaks[i]) /\ peaks[i].time = s[i] - 1
  <2> TAKE i \in DOMAIN s
  <2>1. peaks[i] = TranslateAnchorPoint(s[i], found.transient[i]) /\ found.transient[i] \in BOOLEAN
    BY <1>2
  <2>2. s[i] \in Nat \ {0} /\ s[i] - 1 < frames * EnergyHop
    <3>1. s[i] \in Nat \ {0} /\ s[i] <= N
      BY <1>1, <1>3
    <3>2. EnergyHop \in Nat
      BY ConvertAssumption
    <3>3. frames * EnergyHop \in Nat
      BY <1>1, <3>2
    <3> QED BY <1>1, <3>1, <3>3
  <2> HIDE DEF peaks
  <2> QED BY <1>1, <2>1, <2>2, PeakInFrame
<1>5. peaks \in Seq(Onsets) /\ DOMAIN peaks = DOMAIN s
  <2>1. peaks \in [1 .. Len(s) -> Onsets] /\ DOMAIN peaks = DOMAIN s
    <3>1. DOMAIN peaks = DOMAIN s /\ peaks = [i \in DOMAIN s |-> peaks[i]]
      BY <1>2
    <3> HIDE DEF peaks
    <3> QED BY <1>3, <1>4, <3>1 DEF Centred
  <2> HIDE DEF peaks
  <2> QED BY <1>3, <2>1, FromOneOn
<1>6. PICK onsets \in SUBSET (0 .. 2 * (frames - 1)) :
        unions' = IF found.isHaveContinuousEvent
                  THEN Loop(Merge, IsTransientEvent(data, DetectOnset(onsets)),
                            Entries(peaks, {i \in DOMAIN peaks : peaks[i].transient}))
                  ELSE peaks
  BY Zenon DEF ConvertTransientEvent
<1> HIDE DEF peaks
<1>7. InTime(peaks)
  <2>1. \A i \in DOMAIN peaks : peaks[i].time < frames * EnergyHop
    BY <1>4, <1>5 DEF Centred
  <2>2. \A i, j \in DOMAIN peaks : i < j => peaks[i].time < peaks[j].time
    <3> TAKE i \in DOMAIN peaks, j \in DOMAIN peaks
    <3> HAVE i < j
    <3>1. s[i] < s[j] /\ s[i] \in Nat /\ s[j] \in Nat
      BY <1>2, <1>3, <1>5 DEF Grows
    <3> QED BY <1>4, <1>5, <3>1
  <2> QED BY <1>5, <2>1, <2>2 DEF InTime
<1> DEFINE S == {i \in DOMAIN peaks : peaks[i].transient}
           e == Entries(peaks, S)
           us == Loop(Merge, IsTransientEvent(data, DetectOnset(onsets)), e)
<1>8. InTime(us)
  <2>1. S \in SUBSET DOMAIN peaks
    OBVIOUS
  <2> HIDE DEF S
  <2>2. /\ e \in Seq(Onsets)
        /\ DOMAIN e = DOMAIN InOrder(S) /\ InOrder(S) \in Seq(S)
        /\ \A k \in DOMAIN InOrder(S) : e[k] = peaks[InOrder(S)[k]]
    BY <1>5, <2>1, EntriesOf
  <2> HIDE DEF e
  <2>3. \A k \in DOMAIN e : Centred(e[k])
    <3> TAKE k \in DOMAIN e
    <3>1. InOrder(S)[k] \in S
      BY <2>2
    <3>2. InOrder(S)[k] \in DOMAIN s
      BY <1>5, <2>1, <3>1
    <3> QED BY <1>4, <2>2, <3>2
  <2>4. ByFrame(IsTransientEvent(data, DetectOnset(onsets)))
    BY <1>1, OnsetsByFrame, FlaggedByFrame
  <2>5. ByFrame(us)
    BY <2>2, <2>3, <2>4, MergedByFrame
  <2> HIDE DEF us
  <2> QED BY <1>1, <2>5, ByFrameInTime
<1>9. unions' = us \/ unions' = peaks
  BY <1>6
<1> HIDE DEF us
<1>10. frames' = frames
  BY DEF ConvertTransientEvent
<1>11. InTime(unions')
  BY <1>7, <1>8, <1>9
<1>12. InTime(unions)'
  BY <1>10, <1>11 DEF InTime
<1> QED BY <1>1, <1>10, <1>12

-----------------------------------------------------------------------------
(* The transient events                                                    *)

\* Transient events in the order of time, each taken for a frame its time falls into.
Ordered(ts) ==
    /\ \A i, j \in DOMAIN ts : i < j => ts[i].time < ts[j].time
    /\ \A i \in DOMAIN ts : ts[i].idx \in FramesAt(ts[i].time)

\* The frames follow one another without a gap, so that a time before the end of the
\* last one falls into some.
LEMMA FrameOf ==
    ASSUME frames \in Nat \ {0}, NEW t \in Nat, t < FramesEnd
    PROVE  FramesAt(t) # {}
<1> DEFINE S == {j \in Nat : t < j * FrameDuration + EnergyHop}
           j == Min(S)
<1>1. /\ EnergyHop \in Nat \ {0} /\ FrameDuration \in Nat \ {0}
      /\ FrameDuration <= EnergyHop
  BY ConvertAssumption
<1>2. frames - 1 \in S
  BY DEF FramesEnd
<1>3. j \in S /\ \A i \in S : j <= i
  <2> HIDE DEF j
  <2>1. S \in SUBSET Nat /\ S # {}
    BY <1>2
  <2> HIDE DEF S
  <2> QED BY <2>1, MinOfNats DEF j
<1> HIDE DEF j
<1>4. j \in Nat /\ j <= frames - 1 /\ t < j * FrameDuration + EnergyHop
  BY <1>2, <1>3
<1>5. CASE j = 0
  <2>1. j * FrameDuration = 0
    BY <1>1, <1>5
  <2>2. j \in 0 .. frames - 1 /\ j * FrameDuration <= t
    BY <1>4, <2>1
  <2> QED BY <1>4, <2>2 DEF FramesAt
<1>6. CASE j # 0
  <2>1. j - 1 \in Nat /\ j - 1 \notin S
    BY <1>3, <1>4, <1>6
  <2>2. (j - 1) * FrameDuration \in Nat /\ t >= (j - 1) * FrameDuration + EnergyHop
    BY <1>1, <2>1
  <2>3. j * FrameDuration = (j - 1) * FrameDuration + FrameDuration
    BY <1>1, <1>4
  <2>4. j * FrameDuration <= t
    BY <1>1, <2>2, <2>3
  <2> QED BY <1>4, <2>4 DEF FramesAt
<1> QED BY <1>5, <1>6

\* The first of the frames a time falls into.
First(t) == Min(FramesAt(t))

\* It is one of them.
LEMMA FirstFrame ==
    ASSUME frames \in Nat, NEW t, FramesAt(t) # {}
    PROVE  First(t) \in FramesAt(t) /\ First(t) \in Nat
<1>1. FramesAt(t) \in SUBSET Nat
  BY DEF FramesAt
<1> QED BY <1>1, MinOfNats DEF First

\* The transient events of a recording without continuous ones are in the order of time,
\* and no onset or peak before the end of the last frame goes unheard.
LEMMA ByInsertTimeHears ==
    ASSUME frames \in Nat \ {0}, NEW us, InTime(us)
    PROVE  LET ts == Loop(ByInsertTime, <<>>, us)
           IN  /\ ts \in Seq([idx : Nat, time : Nat,
                              intensity : {Max({Loudest(i), IntensityMin}) : i \in Nat}])
               /\ Ordered(ts)
               /\ \A i \in DOMAIN us : us[i].time < FramesEnd =>
                    \E e \in DOMAIN ts : ts[e].idx \in FramesAt(us[i].time)
<1> DEFINE R == [idx : Nat, time : Nat,
                 intensity : {Max({Loudest(i), IntensityMin}) : i \in Nat}]
           A == Seq(R)
           n == Len(us)
           turn(x, u) == ByInsertTime(x, u)
           T == [z \in A \X (1 .. n) |-> turn(z[1], us[z[2]])]
           Is(g) == g = [k \in 0 .. n |->
                           IF k = 0 THEN <<>>
                           ELSE CHOOSE y \in {turn(x, us[k]) : x \in {g[k - 1]}} : TRUE]
           after == CHOOSE g : Is(g)
<1>0. Loop(ByInsertTime, <<>>, us) = after[n]
  BY DEF Loop
<1>1. n \in Nat /\ <<>> \in A
  BY DEF InTime
<1>2. \A k \in 1 .. n : us[k] \in Onsets /\ us[k].time \in Nat
  <2> TAKE k \in 1 .. n
  <2>1. us[k] \in Onsets
    BY ValueOf DEF InTime
  <2> QED BY <2>1 DEF Onsets
<1> DEFINE new(t) == [idx |-> First(t), time |-> t,
                      intensity |-> Max({Loudest(First(t)), IntensityMin})]
           Skips(x, t) == FramesAt(t) = {} \/ \E e \in DOMAIN x : x[e].idx = First(t)
<1>3. \A x \in A, k \in 1 .. n :
        turn(x, us[k]) = IF Skips(x, us[k].time) THEN x ELSE Append(x, new(us[k].time))
  <2> TAKE x \in A, k \in 1 .. n
  <2>1. Out(x, First(us[k].time)) <=> \E e \in DOMAIN x : x[e].idx = First(us[k].time)
    BY DEF Out, ToSet
  <2> QED BY <2>1 DEF ByInsertTime, AddTransientEventData, First
<1>4. \A k \in 1 .. n : FramesAt(us[k].time) # {} => new(us[k].time) \in R
  <2> TAKE k \in 1 .. n
  <2> HAVE FramesAt(us[k].time) # {}
  <2> DEFINE i == First(us[k].time)
  <2>1. i \in Nat /\ us[k].time \in Nat
    BY <1>2, FirstFrame
  <2> HIDE DEF i
  <2>2. Max({Loudest(i), IntensityMin}) \in {Max({Loudest(j), IntensityMin}) : j \in Nat}
    BY <2>1
  <2>3. [idx |-> i, time |-> us[k].time, intensity |-> Max({Loudest(i), IntensityMin})] \in R
    BY <2>1, <2>2
  <2> QED BY <2>3 DEF i
<1> HIDE DEF turn, new, R
<1>5. \A x \in A, k \in 1 .. n : turn(x, us[k]) \in A
  <2> TAKE x \in A, k \in 1 .. n
  <2> DEFINE e == new(us[k].time)
  <2>1. CASE Skips(x, us[k].time)
    BY <1>3, <2>1
  <2>2. CASE ~ Skips(x, us[k].time)
    <3>1. e \in R
      BY <1>4, <2>2
    <3>2. turn(x, us[k]) = Append(x, e)
      BY <1>3, <2>2
    <3> HIDE DEF e
    <3> QED BY <3>1, <3>2
  <2> QED BY <2>1, <2>2
<1> HIDE DEF A
<1>6. T \in [A \X (1 .. n) -> A]
  BY <1>5
<1>7. \E g : Is(g)
  <2>2. PICK g : Runs(g, n, A, <<>>, T)
    <3> HIDE DEF T, n
    <3> QED BY <1>1, <1>6, LoopRuns
  <2>3. \A k \in 1 .. n : g[k] = turn(g[k - 1], us[k])
    <3> TAKE k \in 1 .. n
    <3>1. g[k - 1] \in A
      BY <1>1, <2>2 DEF Runs
    <3>2. T[<<g[k - 1], k>>] = turn(g[k - 1], us[k])
      BY <3>1
    <3> HIDE DEF T
    <3> QED BY <2>2, <3>2 DEF Runs
  <2>4. Is(g)
    <3> HIDE DEF T
    <3> QED BY <2>2, <2>3 DEF Runs
  <2> QED BY <2>4
<1>8. Is(after)
  <2> HIDE DEF Is
  <2> QED BY <1>7
<1>9. /\ after[0] = <<>>
      /\ \A k \in 1 .. n : after[k] = turn(after[k - 1], us[k])
  <2> HIDE DEF after
  <2>1. after[0] = <<>>
    BY <1>1, <1>8
  <2>2. ASSUME NEW k \in 1 .. n PROVE after[k] = turn(after[k - 1], us[k])
    <3>1. after[k] = CHOOSE y \in {turn(x, us[k]) : x \in {after[k - 1]}} : TRUE
      <4>1. k \in 0 .. n /\ k # 0
        BY <1>1
      <4> QED BY <1>8, <4>1
    <3>2. {turn(x, us[k]) : x \in {after[k - 1]}} = {turn(after[k - 1], us[k])}
      OBVIOUS
    <3> QED BY <3>1, <3>2
  <2> QED BY <2>1, <2>2
<1> HIDE DEF after, Is
<1> DEFINE Good(x, k) ==
             /\ Ordered(x)
             /\ \A e \in DOMAIN x : k # 0 /\ x[e].time <= us[k].time
             /\ \A i \in 1 .. k : us[i].time < FramesEnd =>
                  \E e \in DOMAIN x : x[e].idx \in FramesAt(us[i].time)
           K == {z \in A \X (0 .. n) : Good(z[1], z[2])}
<1>10. <<<<>>, 0>> \in K
  BY <1>1 DEF Ordered
<1>11. ASSUME NEW k \in 1 .. n, NEW x \in A, Good(x, k - 1)
       PROVE  Good(turn(x, us[k]), k)
  <2> DEFINE t == us[k].time
             y == turn(x, us[k])
  <2>1. t \in Nat /\ k \in Nat
    BY <1>1, <1>2
  <2>2. /\ x \in Seq(R) /\ Len(x) \in Nat /\ DOMAIN x = 1 .. Len(x)
        /\ \A e \in DOMAIN x : x[e].time \in Nat
    <3>1. x \in Seq(R)
      BY DEF A
    <3>2. \A z \in R : z.time \in Nat
      BY DEF R
    <3> HIDE DEF R
    <3>3. Len(x) \in Nat /\ DOMAIN x = 1 .. Len(x)
      BY <3>1, PlacesIn
    <3>4. \A e \in DOMAIN x : x[e] \in R
      BY <3>1, ValueOf
    <3> QED BY <3>1, <3>2, <3>3, <3>4
  <2>3. \A e \in DOMAIN x : x[e].time < t
    <3> TAKE e \in DOMAIN x
    <3>1. k - 1 # 0 /\ x[e].time <= us[k - 1].time
      BY <1>11
    <3>2. k - 1 \in 1 .. n /\ k \in 1 .. n /\ k - 1 < k
      BY <2>1, <3>1
    <3>3. us[k - 1].time < t /\ us[k - 1].time \in Nat
      BY <1>2, <3>2 DEF InTime
    <3> QED BY <2>1, <2>2, <3>1, <3>3
  <2>4. y = IF Skips(x, t) THEN x ELSE Append(x, new(t))
    BY <1>3
  <2>5. \A i \in 1 .. k : i = k \/ i \in 1 .. k - 1
    BY <2>1
  <2> HIDE DEF y
  <2>6. CASE Skips(x, t)
    <3>1. y = x
      BY <2>4, <2>6
    <3>2. \A e \in DOMAIN y : k # 0 /\ y[e].time <= us[k].time
      BY <2>1, <2>2, <2>3, <3>1
    <3>3. t < FramesEnd => \E e \in DOMAIN y : y[e].idx \in FramesAt(t)
      <4> HAVE t < FramesEnd
      <4>1. First(t) \in FramesAt(t)
        BY <2>1, FrameOf, FirstFrame
      <4> QED BY <2>6, <3>1, <4>1
    <3>4. \A i \in 1 .. k : us[i].time < FramesEnd =>
            \E e \in DOMAIN y : y[e].idx \in FramesAt(us[i].time)
      BY <1>11, <2>5, <3>1, <3>3 DEF t
    <3> QED BY <1>11, <3>1, <3>2, <3>4 DEF y
  <2>7. CASE ~ Skips(x, t)
    <3>1. y = Append(x, new(t))
      BY <2>4, <2>7
    <3>2. new(t).idx \in FramesAt(t) /\ new(t).time = t /\ new(t) \in R
      BY <1>4, <2>7, FirstFrame DEF new
    <3>3. /\ DOMAIN y = 1 .. Len(x) + 1
          /\ \A e \in DOMAIN x : e \in DOMAIN y /\ y[e] = x[e] /\ e < Len(x) + 1
          /\ y[Len(x) + 1] = new(t)
          /\ \A e \in DOMAIN y : e \in DOMAIN x \/ e = Len(x) + 1
          /\ ~ (Len(x) + 1 < Len(x) + 1)
          /\ \A e \in DOMAIN x : ~ (Len(x) + 1 < e)
      <4> HIDE DEF new, t
      <4> QED BY <2>2, <3>1, <3>2
    <3> HIDE DEF new, t
    <3>4. \A e \in DOMAIN y : k # 0 /\ y[e].time <= t
      BY <2>1, <2>2, <2>3, <3>2, <3>3
    <3>5. Ordered(y)
      BY <1>11, <2>3, <3>2, <3>3 DEF Ordered
    <3>6. \A i \in 1 .. k : us[i].time < FramesEnd =>
            \E e \in DOMAIN y : y[e].idx \in FramesAt(us[i].time)
      <4> TAKE i \in 1 .. k
      <4>1. CASE i = k
        <5>1. Len(x) + 1 \in DOMAIN y
          BY <2>2, <3>3
        <5> QED BY <3>2, <3>3, <4>1, <5>1 DEF t
      <4>2. CASE i \in 1 .. k - 1
        BY <1>11, <3>3, <4>2
      <4> QED BY <2>5, <4>1, <4>2
    <3> QED BY <3>4, <3>5, <3>6 DEF y, t
  <2> QED BY <2>6, <2>7
<1> HIDE DEF Good
<1>12. Keeps(K, T, n, A)
  <2> SUFFICES ASSUME NEW k \in 1 .. n, NEW x \in A, <<x, k - 1>> \in K
               PROVE  <<T[<<x, k>>], k>> \in K
    BY DEF Keeps
  <2>1. T[<<x, k>>] = turn(x, us[k])
    OBVIOUS
  <2>2. T[<<x, k>>] \in A
    BY <1>6
  <2> QED BY <1>11, <2>1, <2>2
<1>13. Follows(after, T, n, A, <<>>)
  BY <1>9 DEF Follows
<1>15. DOMAIN us = 1 .. n
  BY DEF InTime
<1> HIDE DEF K, T, n
<1>14. after[n] \in A /\ <<after[n], n>> \in K
  BY <1>1, <1>6, <1>10, <1>12, <1>13, LoopKeeps
<1> QED BY <1>0, <1>14, <1>15 DEF K, Good, A, R

-----------------------------------------------------------------------------
(* What is heard                                                           *)

\* The transient events are in the order of time, and every union before the end of the
\* last frame is heard in a frame it falls into.
Heard ==
    /\ Ordered(transients)
    /\ \A i \in DOMAIN unions : unions[i].time < FramesEnd =>
         \E e \in DOMAIN transients : transients[e].idx \in FramesAt(unions[i].time)

\* What each stage leaves for the ones that follow.
HeardInv ==
    /\ stage \in {"peaks", "secondary", "delete", "isolate"} =>
         /\ data \in Seq(0 .. FullScale)
         /\ frames = (Len(data) + EnergyHop) \div EnergyHop
    /\ stage \in {"secondary", "delete", "isolate"} => heights = Envelope(data)
    /\ stage = "isolate" => PeaksInOrder
    /\ stage = "found" => PeaksHeld
    /\ stage \in {"merged", "measured", "transients", "continuous", "stored"} =>
         InTime(unions) /\ frames \in Nat \ {0}
    /\ stage \in {"transients", "continuous", "stored"} /\ ~ exists => Heard
    /\ stage \in {"continuous", "stored"} /\ ~ exists => continuous = <<>>
    /\ stage = "stored" /\ ~ exists =>
         events = [k \in DOMAIN transients |-> Stored("transient", transients[k], Transient)]

\* The invariant holds of every recording a conversion begins with, ...
LEMMA HeardStart == ConvertInit => HeardInv
BY DEF ConvertInit, HeardInv

\* ... and every step keeps it.
LEMMA HeardStep == ConvertInv /\ HeardInv /\ [ConvertNext]_convertVars => HeardInv'
<1> SUFFICES ASSUME ConvertInv, HeardInv, [ConvertNext]_convertVars PROVE HeardInv'
  OBVIOUS
<1>1. CASE PreprocessParameter
  <2>1. stage' = "peaks" /\ stage = "recorded"
    BY <1>1 DEF PreprocessParameter
  <2>2. /\ data' = PreprocessAudioData(ResampleAudioData(data))
        /\ frames' = (Len(data') + EnergyHop) \div EnergyHop
    BY <1>1 DEF PreprocessParameter
  <2>3. data' \in Seq(0 .. FullScale)
    BY <2>1, <2>2, ResampleType, PreprocessType DEF ConvertInv
  <2> QED BY <2>1, <2>2, <2>3 DEF HeardInv
<1> DEFINE Rest == UNCHANGED <<exists, frames, unions, rms, transients, continuous, events>>
<1>2. CASE NoTurn
  BY <1>2 DEF NoTurn, HeardInv
<1>3. CASE GetPeakEnvelope /\ Rest
  <2>1. stage = "peaks" /\ stage' = "secondary" /\ data' = data /\ heights' = Envelope(data)
    BY <1>3 DEF GetPeakEnvelope
  <2> QED BY <1>3, <2>1 DEF HeardInv
<1>4. CASE (OneMore \/ NextStretch \/ StretchEnds \/ DeletePeak \/ NothingToDelete) /\ Rest
  <2>1. /\ stage \in {"secondary", "delete"} /\ stage' \in {"secondary", "delete"}
        /\ UNCHANGED <<data, heights>>
    BY <1>4 DEF OneMore, NextStretch, StretchEnds, DeletePeak, NothingToDelete
  <2> QED BY <1>4, <2>1 DEF HeardInv
<1>5. CASE Filtered /\ Rest
  <2>1. /\ stage = "secondary" /\ stage' = "isolate"
        /\ UNCHANGED <<data, heights, all, mountains>>
    BY <1>5 DEF Filtered
  <2>2. PeaksInOrder'
    BY <2>1, SamePeaks DEF ConvertInv
  <2> QED BY <1>5, <2>1, <2>2 DEF HeardInv
<1>6. CASE ObtainTransientByAmplitude /\ Rest
  <2>1. stage = "isolate" /\ stage' = "found"
    BY <1>6 DEF ObtainTransientByAmplitude
  <2>2. PeaksHeld'
    BY <1>6, <2>1, IsolateHolds DEF HeardInv
  <2> QED BY <2>1, <2>2 DEF HeardInv
<1>7. CASE ConvertTransientEvent
  <2>1. stage = "found" /\ stage' = "merged"
    BY <1>7 DEF ConvertTransientEvent
  <2>2. InTime(unions)' /\ frames' \in Nat \ {0}
    BY <1>7, <2>1, UnionsInTime DEF HeardInv
  <2> QED BY <2>1, <2>2 DEF HeardInv
<1>8. CASE DetectRmsIntensity
  <2>1. /\ stage = "merged" /\ stage' \in {"failed", "measured"}
        /\ UNCHANGED <<unions, frames>>
    BY <1>8 DEF DetectRmsIntensity
  <2>2. InTime(unions)' /\ frames' \in Nat \ {0}
    BY <2>1 DEF HeardInv, InTime
  <2> QED BY <2>1, <2>2 DEF HeardInv
<1>9. CASE OutputTransientEvents
  <2>1. /\ stage = "measured" /\ stage' = "transients"
        /\ UNCHANGED <<unions, frames, exists, rms>>
        /\ ~ exists => transients' = Loop(ByInsertTime, <<>>, unions)
    BY <1>9 DEF OutputTransientEvents
  <2>2. InTime(unions) /\ frames \in Nat \ {0}
    BY <2>1 DEF HeardInv
  <2>3. InTime(unions)' /\ frames' \in Nat \ {0}
    BY <2>1, <2>2 DEF InTime
  <2>4. ~ exists => Heard'
    <3> SUFFICES ASSUME ~ exists PROVE Heard'
      OBVIOUS
    <3> DEFINE ts == Loop(ByInsertTime, <<>>, unions)
    <3>1. /\ Ordered(ts)
          /\ \A i \in DOMAIN unions : unions[i].time < FramesEnd =>
               \E e \in DOMAIN ts : ts[e].idx \in FramesAt(unions[i].time)
      BY <2>2, ByInsertTimeHears
    <3> HIDE DEF ts
    <3>2. transients' = ts
      BY <2>1 DEF ts
    <3> QED BY <2>1, <3>1, <3>2 DEF Heard, Ordered, FramesAt, FramesEnd
  <2> QED BY <2>1, <2>3, <2>4 DEF HeardInv
<1>10. CASE OutputAllContinuousEvent
  <2>1. /\ stage = "transients" /\ stage' = "continuous"
        /\ UNCHANGED <<unions, frames, exists, transients>>
        /\ ~ exists => continuous' = <<>>
    BY <1>10, Zenon DEF OutputAllContinuousEvent
  <2>2. InTime(unions)' /\ frames' \in Nat \ {0}
    BY <2>1 DEF HeardInv, InTime
  <2>3. ~ exists => Heard'
    BY <2>1 DEF HeardInv, Heard, Ordered, FramesAt, FramesEnd
  <2> QED BY <2>1, <2>2, <2>3 DEF HeardInv
<1>11. CASE StoreHapticEvent
  <2>1. /\ stage = "continuous" /\ stage' = "stored"
        /\ UNCHANGED <<unions, frames, exists, transients, continuous>>
        /\ events' = StoreEventSequence
    BY <1>11 DEF StoreHapticEvent
  <2>2. InTime(unions)' /\ frames' \in Nat \ {0}
    BY <2>1 DEF HeardInv, InTime
  <2>3. ~ exists => Heard' /\ continuous = <<>>
    BY <2>1 DEF HeardInv, Heard, Ordered, FramesAt, FramesEnd
  <2>4. ~ exists => events' = [k \in DOMAIN transients |->
                                 Stored("transient", transients[k], Transient)]
    BY <2>1, <2>3, Zenon DEF StoreEventSequence
  <2> QED BY <2>1, <2>2, <2>3, <2>4 DEF HeardInv, Stored
<1>12. CASE UNCHANGED convertVars
  BY <1>12 DEF convertVars, peakVars, HeardInv, PeaksInOrder, PeaksHeld, InTime, Heard, Ordered,
               FramesAt, FramesEnd, Crest, Floor, Stored
<1> QED BY <1>1, <1>2, <1>3, <1>4, <1>5, <1>6, <1>7, <1>8, <1>9, <1>10, <1>11, <1>12
        DEF ConvertNext, FindPeaks, FilterSecondaryPeak, Finished

\* Throughout a conversion peaks, onsets and transient events are in the order of time,
\* and every onset and peak that is kept and lies before the end of the last frame has its
\* transient event in a frame it falls into.
THEOREM HeardInvariance == ConvertSpec => []HeardInv
BY HeardStart, HeardStep, ConvertInvariance, PTL DEF ConvertSpec

\* A recording without continuous events becomes transient ones in the order of time, and
\* every onset and peak in the list of both is heard in a frame of its own time, unless it
\* lies after the last frame (OutputTransientEventsByInsertTime, StoreEventSequence).
THEOREM AlwaysHeard == ConvertSpec => []EveryPeakHeard
<1>1. HeardInv => EveryPeakHeard
  <2> SUFFICES ASSUME HeardInv, stage = "stored", ~ exists
               PROVE  /\ \A i, j \in DOMAIN events : i < j => events[i].time < events[j].time
                      /\ \A u \in ToSet(unions) : u.time < FramesEnd =>
                           \E e \in ToSet(events) : FramesAt(e.time) \cap FramesAt(u.time) # {}
    BY DEF EveryPeakHeard
  <2>1. /\ Ordered(transients)
        /\ \A i \in DOMAIN unions : unions[i].time < FramesEnd =>
             \E e \in DOMAIN transients : transients[e].idx \in FramesAt(unions[i].time)
    BY DEF HeardInv, Heard
  <2>2. /\ DOMAIN events = DOMAIN transients
        /\ \A k \in DOMAIN transients : events[k].time = transients[k].time
    BY DEF HeardInv, Stored
  <2>3. \A u \in ToSet(unions) : u.time < FramesEnd =>
          \E e \in ToSet(events) : FramesAt(e.time) \cap FramesAt(u.time) # {}
    <3> TAKE u \in ToSet(unions)
    <3> HAVE u.time < FramesEnd
    <3>1. PICK i \in DOMAIN unions : u = unions[i]
      BY DEF ToSet
    <3>2. PICK k \in DOMAIN transients : transients[k].idx \in FramesAt(u.time)
      BY <2>1, <3>1
    <3>3. transients[k].idx \in FramesAt(events[k].time) /\ events[k] \in ToSet(events)
      BY <2>1, <2>2, <3>2 DEF Ordered, ToSet
    <3> QED BY <3>2, <3>3
  <2> QED BY <2>1, <2>2, <2>3 DEF Ordered
<1> QED BY <1>1, HeardInvariance, PTL

=============================================================================
