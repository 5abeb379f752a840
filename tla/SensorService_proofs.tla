------------------------ MODULE SensorService_proofs ------------------------
(***************************************************************************)
(* Proofs about SensorService for any number of processes, sensors and     *)
(* requests.  The handlers work on one sensor at a time, so the proof is   *)
(* about the operators on a slice first (what each keeps, and whose        *)
(* subscriptions it leaves alone), and about the actions only then.  The   *)
(* last part is about PlugEvents.                                          *)
(***************************************************************************)
EXTENDS SensorService, PlugEvents, LeastOfNats, SequenceTheorems

USE DEF Info, Slice

-----------------------------------------------------------------------------
(* The best rate of a slice                                                *)

\* GetBestSensorInfo is a pair of numbers no greater than any subscriber's.
LEMMA BestIsBest ==
    ASSUME NEW st \in Slice
    PROVE  /\ GetBestSensorInfo(st) \in Info
           /\ \A p \in Subscribers(st) :
                 /\ GetBestSensorInfo(st).period <= st.subs[p].period
                 /\ GetBestSensorInfo(st).delay <= st.subs[p].delay
           /\ Subscribers(st) # {} =>
                 \E p, q \in Subscribers(st) :
                    /\ GetBestSensorInfo(st).period = st.subs[p].period
                    /\ GetBestSensorInfo(st).delay = st.subs[q].delay
<1> DEFINE P == {NoLimit} \cup {st.subs[p].period : p \in Subscribers(st)}
           D == {NoLimit} \cup {st.subs[p].delay : p \in Subscribers(st)}
<1>1. \A p \in Subscribers(st) : st.subs[p] \in Info
  BY DEF Subscribers
<1>2. P \in SUBSET Nat /\ P # {} /\ D \in SUBSET Nat /\ D # {}
  BY <1>1, LimitsAssumption
<1>3. Min(P) \in P /\ \A n \in P : Min(P) <= n
  <2> HIDE DEF P
  <2> QED BY <1>2, MinOfNats
<1>4. Min(D) \in D /\ \A n \in D : Min(D) <= n
  <2> HIDE DEF D
  <2> QED BY <1>2, MinOfNats
<1>5. GetBestSensorInfo(st) = [period |-> Min(P), delay |-> Min(D)]
  BY DEF GetBestSensorInfo
<1> HIDE DEF GetBestSensorInfo
<1>6. Min(P) \in 0 .. NoLimit /\ Min(D) \in 0 .. NoLimit
  BY <1>2, <1>3, <1>4, LimitsAssumption
<1>7. ASSUME Subscribers(st) # {}
      PROVE  \E p, q \in Subscribers(st) :
                Min(P) = st.subs[p].period /\ Min(D) = st.subs[q].delay
  <2>1. PICK x \in Subscribers(st) : TRUE
    BY <1>7
  <2>2. \E p \in Subscribers(st) : Min(P) = st.subs[p].period
    <3>1. st.subs[x].period \in P /\ st.subs[x].period <= NoLimit
      BY <1>1, LimitsAssumption
    <3>2. Min(P) = NoLimit => Min(P) = st.subs[x].period
      BY <1>1, <1>3, <3>1, LimitsAssumption
    <3> QED BY <1>3, <3>2
  <2>3. \E q \in Subscribers(st) : Min(D) = st.subs[q].delay
    <3>1. st.subs[x].delay \in D /\ st.subs[x].delay <= NoLimit
      BY <1>1, LimitsAssumption
    <3>2. Min(D) = NoLimit => Min(D) = st.subs[x].delay
      BY <1>1, <1>4, <3>1, LimitsAssumption
    <3> QED BY <1>4, <3>2
  <2> QED BY <2>2, <2>3
<1> HIDE DEF P, D
<1>8. /\ GetBestSensorInfo(st).period = Min(P)
      /\ GetBestSensorInfo(st).delay = Min(D)
      /\ GetBestSensorInfo(st) \in Info
  BY <1>5, <1>6
<1>9. \A p \in Subscribers(st) :
         Min(P) <= st.subs[p].period /\ Min(D) <= st.subs[p].delay
  BY <1>3, <1>4 DEF P, D
<1> QED BY <1>7, <1>8, <1>9

\* What is stored for a request is within 64 bits again.
LEMMA StoredType ==
    ASSUME NEW s \in Sensors, NEW r \in Info
    PROVE  SensorInfo(s, r) \in Info
<1>1. MinPeriod[s] \in 0 .. NoLimit /\ FifoMax[s] \in Nat
  BY SensorsAssumption
<1>2. r.period * FifoMax[s] \in Nat
  BY <1>1, LimitsAssumption
<1>3. Max({r.period, MinPeriod[s]}) \in 0 .. NoLimit
  BY <1>1, LimitsAssumption DEF Max
<1>4. Min({r.delay, r.period * FifoMax[s]}) \in 0 .. NoLimit
  <2> DEFINE S == {r.delay, r.period * FifoMax[s]}
  <2>1. S \in SUBSET Nat /\ S # {} /\ r.delay \in S
    BY <1>2, LimitsAssumption
  <2>2. Min(S) \in S /\ \A n \in S : Min(S) <= n
    <3> HIDE DEF S
    <3> QED BY <2>1, MinOfNats
  <2> QED BY <2>1, <2>2, LimitsAssumption
<1> QED BY <1>3, <1>4 DEF SensorInfo, Rounded

-----------------------------------------------------------------------------
(* What is stored for a request can be asked for again                     *)

\* A quotient does not grow with a smaller dividend and a greater divisor.
LEMMA SmallerQuotient ==
    ASSUME NEW a \in Nat, NEW b \in Nat, NEW c \in Nat, NEW d \in Nat,
           a <= b, d <= c, d > 0
    PROVE  a \div c <= b \div d
OBVIOUS

\* What divides into a limit is what stays below it when multiplied.
LEMMA QuotientBound ==
    ASSUME NEW n \in Nat, NEW k \in Nat, NEW d \in Nat, d > 0
    PROVE  k <= n \div d <=> k * d <= n
OBVIOUS

\* The two periods, and the two delays, that SensorInfo chooses between for a
\* sensor that SensorManager knows.
LEMMA RoundedInfo ==
    ASSUME NEW s \in Known, NEW r \in Info
    PROVE  /\ SensorInfo(s, r).period \in {r.period, MinPeriod[s]}
           /\ SensorInfo(s, r).period >= r.period /\ SensorInfo(s, r).period >= MinPeriod[s]
           /\ SensorInfo(s, r).delay \in {r.delay, r.period * FifoMax[s]}
           /\ SensorInfo(s, r).delay <= r.delay
           /\ SensorInfo(s, r).delay <= r.period * FifoMax[s]
<1>1. /\ MinPeriod[s] \in Nat /\ FifoMax[s] \in Nat
      /\ r.period \in Nat /\ r.delay \in Nat /\ r.period * FifoMax[s] \in Nat
  BY SensorsAssumption, LimitsAssumption
<1>2. \A a, b \in Nat : Max({a, b}) \in {a, b} /\ Max({a, b}) >= a /\ Max({a, b}) >= b
  BY DEF Max
<1>3. \A a, b \in Nat : Min({a, b}) \in {a, b} /\ Min({a, b}) <= a /\ Min({a, b}) <= b
  BY MinOfNats
<1> QED BY <1>1, <1>2, <1>3 DEF SensorInfo, Rounded

\* No rounding of the period of s overflows: its slowest queue fits a 64-bit time.
Fits(s) == s \in Known => FifoMax[s] * MinPeriod[s] <= NoLimit

\* What can be stored for a sensor: what SensorInfo leaves as it is, and what is
\* accepted again.
Stored(s, i) ==
    i # NoInfo => /\ i \in Info /\ SensorInfo(s, i) = i
                  /\ Fits(s) => Accepts(s, i)
                  /\ s \in Known => i.period # 0

\* What is asked of a sensor that SensorManager does not know is stored as it is.
LEMMA AcceptedIsKept ==
    ASSUME NEW s \in Sensors \ Known, NEW r \in Info, Accepts(s, r)
    PROVE  Stored(s, SensorInfo(s, r))
BY DEF Stored, SensorInfo

\* An accepted request is stored as one that SensorInfo does not change, and that
\* is accepted when the queue of the sensor fits.
LEMMA AcceptedIsRounded ==
    ASSUME NEW s \in Known, NEW r \in Info, Accepts(s, r)
    PROVE  Stored(s, SensorInfo(s, r))
<1> DEFINE i == SensorInfo(s, r)
<1>1. s \in Sensors /\ i \in Info
  BY StoredType, SensorsAssumption
<1>2. /\ i.period \in {r.period, MinPeriod[s]}
      /\ i.period >= r.period /\ i.period >= MinPeriod[s]
      /\ i.delay <= r.delay /\ i.delay <= r.period * FifoMax[s]
  BY RoundedInfo
<1>3. /\ MinPeriod[s] \in Nat /\ FifoMax[s] \in Nat
      /\ r.period \in Nat /\ r.delay \in Nat /\ r.period > 0
      /\ i.period \in Nat /\ i.delay \in Nat /\ i.period > 0
      /\ NoLimit \in Nat /\ MaxEventCount \in Nat
  BY <1>1, <1>2, SensorsAssumption, LimitsAssumption DEF Accepts
<1> HIDE DEF i
<1>4. SensorInfo(s, i) = i
  <2> DEFINE j == SensorInfo(s, i)
  <2>1. /\ j \in Info /\ j.period \in {i.period, MinPeriod[s]} /\ j.period >= i.period
        /\ j.delay \in {i.delay, i.period * FifoMax[s]} /\ j.delay <= i.delay
    BY <1>1, RoundedInfo, StoredType
  <2>2. i.delay <= i.period * FifoMax[s]
    <3>1. r.period * FifoMax[s] <= i.period * FifoMax[s]
      BY <1>2, <1>3
    <3>2. r.period * FifoMax[s] \in Nat /\ i.period * FifoMax[s] \in Nat
      BY <1>3
    <3> QED BY <1>2, <1>3, <3>1, <3>2
  <2> HIDE DEF j
  <2>3. j.period = i.period
    BY <1>2, <1>3, <2>1
  <2>4. j.delay = i.delay
    <3>1. i.period * FifoMax[s] \in Nat
      BY <1>3
    <3> QED BY <1>3, <2>1, <2>2, <3>1
  <2> QED BY <1>1, <2>1, <2>3, <2>4 DEF j
<1>5. i.delay \div i.period <= MaxEventCount
  <2>1. i.delay \div i.period <= r.delay \div r.period
    BY <1>2, <1>3, SmallerQuotient
  <2>2. r.delay \div r.period <= MaxEventCount
    BY DEF Accepts
  <2>3. i.delay \div i.period \in Nat /\ r.delay \div r.period \in Nat
    BY <1>3
  <2> QED BY <1>3, <2>1, <2>2, <2>3
<1>6. ASSUME Fits(s) PROVE FifoMax[s] <= NoLimit \div i.period
  <2>1. CASE i.period = r.period
    BY <2>1 DEF Accepts
  <2>2. CASE i.period = MinPeriod[s]
    BY <1>3, <1>6, <2>2, QuotientBound DEF Fits
  <2> QED BY <1>2, <2>1, <2>2
<1>7. Fits(s) => Accepts(s, i)
  BY <1>3, <1>5, <1>6 DEF Accepts
<1> QED BY <1>1, <1>3, <1>4, <1>7 DEF Stored, i

\* What is accepted is stored as something that can be asked for again.
LEMMA AcceptedIsStored ==
    ASSUME NEW s \in Sensors, NEW r \in Info, Accepts(s, r)
    PROVE  Stored(s, SensorInfo(s, r))
BY AcceptedIsKept, AcceptedIsRounded

-----------------------------------------------------------------------------
(* What the handlers do to one slice                                       *)

\* What is to be kept of a slice.
Good(st) == st \in Slice /\ ServedBy(st) /\ IdleOff(st)

\* A subscription, new or changed, failed or not, keeps the slice good and is
\* the business of p alone.
LEMMA SubscribeKeeps ==
    ASSUME NEW st, Good(st), NEW p \in Pids, NEW info \in Info,
           NEW failing \in Failures
    PROVE  /\ Good(Subscribe(st, p, info, failing))
           /\ \A q \in Pids \ {p} :
                 Subscribe(st, p, info, failing).subs[q] = st.subs[q]
<1> DEFINE asked == UpdateSensorInfo(st, p, info)
           best == GetBestSensorInfo(asked)
           set == IF NeedsBatch(asked, p) /\ failing # "SetBatch"
                  THEN SetBatch(asked, best) ELSE asked
           new == Subscribe(st, p, info, failing)
<1>1. /\ asked \in Slice
      /\ asked.on = st.on /\ asked.period = st.period /\ asked.delay = st.delay
      /\ asked.fault = st.fault
      /\ asked.subs[p] = info
      /\ \A q \in Pids \ {p} : asked.subs[q] = st.subs[q]
  BY DEF UpdateSensorInfo, Good
<1>2. p \in Subscribers(asked)
  BY <1>1, NoInfoAssumption DEF Subscribers
<1>3. /\ best \in Info
      /\ \A q \in Subscribers(asked) : /\ best.period <= asked.subs[q].period
                                       /\ best.delay <= asked.subs[q].delay
      /\ \E a, b \in Subscribers(asked) : /\ best.period = asked.subs[a].period
                                          /\ best.delay = asked.subs[b].delay
  BY <1>1, <1>2, BestIsBest
<1> HIDE DEF asked, best
<1>4. /\ set \in Slice /\ set.subs = asked.subs
      /\ set.on = st.on /\ set.fault = st.fault
      /\ set = asked \/ (set.period = best.period /\ set.delay = best.delay)
  BY <1>1, <1>3 DEF SetBatch
<1> HIDE DEF set
<1>5. CASE Subscribed(st, p, info, failing)
  <2>1. new = [set EXCEPT !.on = @ \/ Subscribers(st) = {}, !.fault = FALSE]
    BY <1>5 DEF Subscribe, asked, best, set
  <2>2. new \in Slice /\ new.subs = asked.subs /\ new.period = set.period
           /\ new.delay = set.delay /\ new.on = (st.on \/ Subscribers(st) = {})
    BY <1>4, <2>1
  <2>3. Subscribers(new) = Subscribers(asked)
    BY <2>2 DEF Subscribers
  <2>4. new.on
    BY <2>2 DEF Good, ServedBy
  <2>5. ASSUME NEW q \in Subscribers(new)
        PROVE  new.period <= new.subs[q].period /\ new.delay <= new.subs[q].delay
    <3>1. CASE set.period = best.period /\ set.delay = best.delay
      BY <1>3, <2>2, <2>3, <3>1
    <3>2. CASE set = asked
      <4>1. CASE NeedsBatch(asked, p)
        BY <1>3, <1>5, <2>2, <2>3, <3>2, <4>1
        DEF set, SetBatch, Subscribed, asked
      <4>2. CASE ~NeedsBatch(asked, p)
        <5>1. info.period > best.period /\ info.delay > best.delay
          BY <4>2, <1>1 DEF NeedsBatch, best
        <5>2. PICK a, b \in Subscribers(asked) :
                 best.period = asked.subs[a].period /\ best.delay = asked.subs[b].delay
          BY <1>2, <1>3
        <5>3. a # p /\ b # p
          BY <1>1, <1>3, <5>1, <5>2, LimitsAssumption
        <5>4. /\ a \in Subscribers(st) /\ asked.subs[a] = st.subs[a]
              /\ b \in Subscribers(st) /\ asked.subs[b] = st.subs[b]
          BY <1>1, <5>2, <5>3 DEF Subscribers
        <5>5. st.period <= best.period /\ st.delay <= best.delay
          BY <5>2, <5>4 DEF Good, ServedBy
        <5>6. CASE q = p
          BY <1>1, <1>3, <2>2, <3>2, <5>1, <5>5, <5>6, LimitsAssumption DEF Good
        <5>7. CASE q # p
          BY <1>1, <2>2, <2>3, <3>2, <5>7 DEF Good, ServedBy, Subscribers
        <5> QED BY <5>6, <5>7
      <4> QED BY <4>1, <4>2
    <3> QED BY <1>4, <3>1, <3>2
  <2> QED BY <1>1, <2>2, <2>3, <2>4, <2>5, <1>2 DEF Good, ServedBy, IdleOff
<1>6. CASE ~Subscribed(st, p, info, failing)
  <2>1. new = [RemoveSubscriber(set, p) EXCEPT
                 !.fault = @ \/ Subscribers(st) \subseteq {p}]
    BY <1>6 DEF Subscribe, asked, best, set
  <2>2. /\ new \in Slice /\ new.period = set.period /\ new.delay = set.delay
        /\ new.on = st.on /\ new.fault = (st.fault \/ Subscribers(st) \subseteq {p})
        /\ new.subs[p] = NoInfo
        /\ \A q \in Pids \ {p} : new.subs[q] = st.subs[q]
    <3> DEFINE less == RemoveSubscriber(set, p)
    <3>1. /\ less \in Slice /\ less.period = set.period /\ less.delay = set.delay
          /\ less.on = set.on /\ less.fault = set.fault
          /\ less.subs[p] = NoInfo
          /\ \A q \in Pids \ {p} : less.subs[q] = set.subs[q]
      BY <1>4 DEF RemoveSubscriber
    <3> HIDE DEF less, new
    <3>2. new = [less EXCEPT !.fault = @ \/ Subscribers(st) \subseteq {p}]
      BY <2>1 DEF less
    <3> QED BY <1>1, <1>4, <3>1, <3>2
  <2>3. Subscribers(new) = Subscribers(st) \ {p}
    BY <2>2 DEF Subscribers
  <2>4. ASSUME NEW q \in Subscribers(new)
        PROVE  /\ new.on
               /\ new.period <= new.subs[q].period /\ new.delay <= new.subs[q].delay
    <3>1. /\ q \in Subscribers(st) /\ new.subs[q] = st.subs[q]
          /\ q \in Subscribers(asked) /\ asked.subs[q] = st.subs[q]
      BY <1>1, <2>2, <2>3 DEF Subscribers
    <3> QED BY <1>1, <1>3, <1>4, <2>2, <3>1 DEF Good, ServedBy
  <2>5. IdleOff(new)
    BY <2>2, <2>3 DEF IdleOff
  <2> QED BY <2>2, <2>4, <2>5 DEF Good, ServedBy
<1> QED BY <1>5, <1>6

\* Losing one entry of clientMap_[s], with the driver untouched or set to a
\* rate that serves the rest.
LEMMA RemoveKeeps ==
    ASSUME NEW st, Good(st), NEW p \in Pids
    PROVE  /\ RemoveSubscriber(st, p) \in Slice
           /\ ServedBy(RemoveSubscriber(st, p))
           /\ Subscribers(RemoveSubscriber(st, p)) = Subscribers(st) \ {p}
           /\ RemoveSubscriber(st, p).on = st.on
           /\ RemoveSubscriber(st, p).fault = st.fault
           /\ RemoveSubscriber(st, p).subs[p] = NoInfo
           /\ \A q \in Pids \ {p} : RemoveSubscriber(st, p).subs[q] = st.subs[q]
<1> DEFINE new == RemoveSubscriber(st, p)
<1>1. /\ new \in Slice /\ new.on = st.on /\ new.fault = st.fault
      /\ new.period = st.period /\ new.delay = st.delay
      /\ new.subs[p] = NoInfo
      /\ \A q \in Pids \ {p} : new.subs[q] = st.subs[q]
  BY DEF RemoveSubscriber, Good
<1> HIDE DEF new
<1>2. Subscribers(new) = Subscribers(st) \ {p}
  BY <1>1 DEF Subscribers
<1>3. ServedBy(new)
  BY <1>1, <1>2 DEF ServedBy, Good, Subscribers
<1> QED BY <1>1, <1>2, <1>3 DEF new

\* A subscriber that leaves among others, or a process that was none, leaves
\* the rest served by what ResetBestSensorParams sets.
LEMMA LeaveKeeps ==
    ASSUME NEW st, Good(st), NEW p \in Pids, ~OnlyCurPidSensorEnabled(st, p),
           NEW batched \in BOOLEAN
    PROVE  /\ Good(Leave(st, p, batched))
           /\ Leave(st, p, batched).subs[p] = NoInfo
           /\ \A q \in Pids \ {p} : Leave(st, p, batched).subs[q] = st.subs[q]
<1> DEFINE left == RemoveSubscriber(st, p)
           best == GetBestSensorInfo(left)
           new == Leave(st, p, batched)
<1>1. /\ left \in Slice /\ ServedBy(left)
      /\ Subscribers(left) = Subscribers(st) \ {p}
      /\ left.on = st.on /\ left.fault = st.fault
      /\ left.subs[p] = NoInfo
      /\ \A q \in Pids \ {p} : left.subs[q] = st.subs[q]
  BY RemoveKeeps
<1>2. Subscribers(left) = {} => Subscribers(st) = {}
  BY <1>1 DEF OnlyCurPidSensorEnabled
<1>3. /\ best \in Info
      /\ \A q \in Subscribers(left) : /\ best.period <= left.subs[q].period
                                      /\ best.delay <= left.subs[q].delay
  <2> HIDE DEF left
  <2> QED BY <1>1, BestIsBest
<1>4. new = IF batched THEN SetBatch(left, best) ELSE left
  BY DEF Leave
<1> HIDE DEF left, best, new
<1>5. CASE ~batched
  <2>1. new = left
    BY <1>4, <1>5
  <2> QED BY <1>1, <1>2, <2>1 DEF Good, IdleOff, new
<1>6. CASE batched
  <2>1. /\ new \in Slice /\ new.subs = left.subs
        /\ new.period = best.period /\ new.delay = best.delay
        /\ new.on = left.on /\ new.fault = left.fault
    BY <1>1, <1>3, <1>4, <1>6 DEF SetBatch
  <2>2. Subscribers(new) = Subscribers(left)
    BY <2>1 DEF Subscribers
  <2>3. ServedBy(new)
    BY <1>1, <1>3, <2>1, <2>2 DEF ServedBy
  <2>4. IdleOff(new)
    BY <1>1, <1>2, <2>1, <2>2 DEF IdleOff, Good
  <2> QED BY <1>1, <2>1, <2>3, <2>4 DEF Good, new
<1> QED BY <1>5, <1>6

\* The driver is stopped and clientMap_[s] erased: nobody but p was in it.
LEMMA StopKeeps ==
    ASSUME NEW st, Good(st), NEW p \in Pids, OnlyCurPidSensorEnabled(st, p),
           NEW answer \in Answers
    PROVE  /\ Good(ClearSensorInfo(StopDriver(st, answer)))
           /\ ClearSensorInfo(StopDriver(st, answer)).subs[p] = NoInfo
           /\ \A q \in Pids \ {p} :
                 ClearSensorInfo(StopDriver(st, answer)).subs[q] = st.subs[q]
<1> DEFINE stopped == StopDriver(st, answer)
           new == ClearSensorInfo(stopped)
<1>1. /\ stopped \in Slice
      /\ stopped.on = (st.on /\ answer # "ok") /\ stopped.fault = (answer # "ok")
  BY DEF StopDriver, Good
<1> HIDE DEF stopped
<1>2. /\ new \in Slice /\ \A q \in Pids : new.subs[q] = NoInfo
      /\ new.on = stopped.on /\ new.fault = stopped.fault
  BY <1>1 DEF ClearSensorInfo
<1> HIDE DEF new
<1>3. \A q \in Pids \ {p} : st.subs[q] = NoInfo
  BY DEF OnlyCurPidSensorEnabled, Subscribers
<1>4. ServedBy(new) /\ IdleOff(new)
  BY <1>1, <1>2 DEF ServedBy, IdleOff, Subscribers
<1> QED BY <1>2, <1>3, <1>4 DEF Good, new, stopped

\* DisableSensor keeps the slice good, whatever the driver answers.
LEMMA DisableKeeps ==
    ASSUME NEW st, Good(st), NEW p \in Pids, NEW answer \in Answers
    PROVE  /\ Good(Disable(st, p, answer))
           /\ Disabled(st, p, answer) => Disable(st, p, answer).subs[p] = NoInfo
           /\ Disable(st, p, answer).subs[p] \in {NoInfo, st.subs[p]}
           /\ \A q \in Pids \ {p} : Disable(st, p, answer).subs[q] = st.subs[q]
<1> DEFINE new == Disable(st, p, answer)
<1>1. CASE ~OnlyCurPidSensorEnabled(st, p)
  <2> DEFINE ok == answer = "ok"
             left == Leave(st, p, ok)
  <2>1. new = left
    BY <1>1 DEF Disable
  <2>2. ok \in BOOLEAN
    OBVIOUS
  <2> HIDE DEF ok
  <2>3. /\ Good(left) /\ left.subs[p] = NoInfo
        /\ \A q \in Pids \ {p} : left.subs[q] = st.subs[q]
    BY <1>1, <2>2, LeaveKeeps
  <2> HIDE DEF left
  <2> QED BY <2>1, <2>3
<1>2. CASE OnlyCurPidSensorEnabled(st, p) /\ answer # "fail"
  <2>1. new = ClearSensorInfo(StopDriver(st, answer))
    BY <1>2 DEF Disable
  <2>2. /\ Good(ClearSensorInfo(StopDriver(st, answer)))
        /\ ClearSensorInfo(StopDriver(st, answer)).subs[p] = NoInfo
        /\ \A q \in Pids \ {p} :
              ClearSensorInfo(StopDriver(st, answer)).subs[q] = st.subs[q]
    BY <1>2, StopKeeps
  <2> QED BY <2>1, <2>2
<1>3. CASE OnlyCurPidSensorEnabled(st, p) /\ answer = "fail"
  <2>1. new = StopDriver(st, answer)
    BY <1>3 DEF Disable
  <2>2. /\ new \in Slice /\ new.subs = st.subs /\ new.on = st.on /\ new.fault
        /\ new.period = st.period /\ new.delay = st.delay
    BY <1>3, <2>1 DEF StopDriver, Good
  <2> HIDE DEF new
  <2>3. Subscribers(new) = Subscribers(st)
    BY <2>2 DEF Subscribers
  <2>4. ServedBy(new) /\ IdleOff(new)
    BY <2>2, <2>3 DEF ServedBy, IdleOff, Good
  <2> QED BY <1>3, <2>2, <2>4 DEF Good, Disabled, new
<1> QED BY <1>1, <1>2, <1>3

\* Suspend keeps the slice good, whatever the driver answers.
LEMMA SuspendKeeps ==
    ASSUME NEW st, Good(st), NEW p \in Pids, NEW answer \in Answers
    PROVE  /\ Good(Suspend(st, p, answer))
           /\ Suspend(st, p, answer).subs[p] = NoInfo
           /\ \A q \in Pids \ {p} : Suspend(st, p, answer).subs[q] = st.subs[q]
<1>1. CASE ~OnlyCurPidSensorEnabled(st, p)
  <2> DEFINE ok == answer = "ok"
             left == Leave(st, p, ok)
  <2>1. Suspend(st, p, answer) = left
    BY <1>1 DEF Suspend
  <2>2. ok \in BOOLEAN
    OBVIOUS
  <2> HIDE DEF ok
  <2>3. /\ Good(left) /\ left.subs[p] = NoInfo
        /\ \A q \in Pids \ {p} : left.subs[q] = st.subs[q]
    BY <1>1, <2>2, LeaveKeeps
  <2> HIDE DEF left
  <2> QED BY <2>1, <2>3
<1>2. CASE OnlyCurPidSensorEnabled(st, p)
  <2>1. Suspend(st, p, answer) = ClearSensorInfo(StopDriver(st, answer))
    BY <1>2 DEF Suspend
  <2>2. /\ Good(ClearSensorInfo(StopDriver(st, answer)))
        /\ ClearSensorInfo(StopDriver(st, answer)).subs[p] = NoInfo
        /\ \A q \in Pids \ {p} :
              ClearSensorInfo(StopDriver(st, answer)).subs[q] = st.subs[q]
    BY <1>2, StopKeeps
  <2> QED BY <2>1, <2>2
<1> QED BY <1>1, <1>2

\* DestroySensorChannel keeps the slice good: the driver may be left on, and
\* fault then says so.
LEMMA DropKeeps ==
    ASSUME NEW st, Good(st), NEW p \in Pids
    PROVE  /\ Good(Drop(st, p))
           /\ Drop(st, p).subs[p] = NoInfo
           /\ \A q \in Pids \ {p} : Drop(st, p).subs[q] = st.subs[q]
<1> DEFINE less == RemoveSubscriber(st, p)
           new == Drop(st, p)
<1>1. /\ less \in Slice /\ ServedBy(less)
      /\ Subscribers(less) = Subscribers(st) \ {p}
      /\ less.on = st.on /\ less.fault = st.fault
      /\ less.subs[p] = NoInfo
      /\ \A q \in Pids \ {p} : less.subs[q] = st.subs[q]
  BY RemoveKeeps
<1>2. new = [less EXCEPT !.fault = @ \/ OnlyCurPidSensorEnabled(st, p)]
  BY DEF Drop
<1> HIDE DEF less, new
<1>3. /\ new \in Slice /\ new.subs = less.subs /\ new.on = less.on
      /\ new.period = less.period /\ new.delay = less.delay
      /\ new.fault = (less.fault \/ OnlyCurPidSensorEnabled(st, p))
  BY <1>1, <1>2
<1>4. Subscribers(new) = Subscribers(less)
  BY <1>3 DEF Subscribers
<1>5. ServedBy(new)
  BY <1>1, <1>3, <1>4 DEF ServedBy
<1>6. IdleOff(new)
  BY <1>1, <1>3, <1>4 DEF IdleOff, Good, OnlyCurPidSensorEnabled
<1> QED BY <1>1, <1>3, <1>5, <1>6 DEF Good, new

-----------------------------------------------------------------------------
(* What the handlers do to the whole state                                 *)

IInv == TypeOK /\ Served /\ OffWhenIdle /\ StillAsked

\* The reg half of the invariant, slice by slice.
LEMMA AllGood ==
    (reg \in [Sensors -> Slice] /\ Served /\ OffWhenIdle)
        <=> (reg \in [Sensors -> Slice] /\ \A s \in Sensors : Good(reg[s]))
BY DEF Served, OffWhenIdle, Good

\* The step of process p leaves every slice good, and the entries of the other
\* processes as they are.
RegStep(p) ==
    /\ reg' \in [Sensors -> Slice]
    /\ \A s \in Sensors : Good(reg'[s])
    /\ \A q \in Pids \ {p}, s \in Sensors : reg'[s].subs[q] = reg[s].subs[q]

\* EnableSensor changes the subscription of p to one sensor, and nothing else.
LEMMA EnableReg ==
    ASSUME IInv, NEW p \in Pids, NEW s \in Sensors, NEW r \in Requests,
           NEW failing \in Failures, EnableSensor(p, s, r, failing)
    PROVE  RegStep(p)
<1> DEFINE new == Subscribe(reg[s], p, SensorInfo(s, r), failing)
<1>1. /\ reg \in [Sensors -> Slice] /\ \A t \in Sensors : Good(reg[t])
  BY AllGood DEF IInv, TypeOK
<1>2. SensorInfo(s, r) \in Info
  BY StoredType, RequestsAssumption
<1>3. Good(new) /\ \A q \in Pids \ {p} : new.subs[q] = reg[s].subs[q]
  BY <1>1, <1>2, SubscribeKeeps
<1>4. reg' = [reg EXCEPT ![s] = new]
  BY DEF EnableSensor
<1> HIDE DEF new
<1>5. new \in Slice
  BY <1>3 DEF Good
<1> QED BY <1>1, <1>3, <1>4, <1>5 DEF RegStep

\* DisableSensor changes the subscription of p to one sensor, and nothing else.
LEMMA DisableReg ==
    ASSUME IInv, NEW p \in Pids, NEW s \in Sensors, NEW answer \in Answers,
           DisableSensor(p, s, answer)
    PROVE  RegStep(p)
<1> DEFINE new == Disable(reg[s], p, answer)
<1>1. /\ reg \in [Sensors -> Slice] /\ \A t \in Sensors : Good(reg[t])
  BY AllGood DEF IInv, TypeOK
<1>2. Good(new) /\ \A q \in Pids \ {p} : new.subs[q] = reg[s].subs[q]
  BY <1>1, DisableKeeps
<1>3. reg' = [reg EXCEPT ![s] = new]
  BY DEF DisableSensor
<1> HIDE DEF new
<1>4. new \in Slice
  BY <1>2 DEF Good
<1> QED BY <1>1, <1>2, <1>3, <1>4 DEF RegStep

\* DestroySensorChannel ends the subscriptions of p, and no others.
LEMMA DestroyReg ==
    ASSUME IInv, NEW p \in Pids, DestroySensorChannel(p)
    PROVE  RegStep(p) /\ \A s \in Sensors : reg'[s].subs[p] = NoInfo
<1>1. /\ reg \in [Sensors -> Slice] /\ \A t \in Sensors : Good(reg[t])
  BY AllGood DEF IInv, TypeOK
<1>2. \A s \in Sensors :
         /\ Good(Drop(reg[s], p)) /\ Drop(reg[s], p).subs[p] = NoInfo
         /\ \A q \in Pids \ {p} : Drop(reg[s], p).subs[q] = reg[s].subs[q]
  BY <1>1, DropKeeps
<1>3. reg' = [s \in Sensors |-> Drop(reg[s], p)]
  BY DEF DestroySensorChannel
<1>4. \A s \in Sensors : Drop(reg[s], p) \in Slice
  BY <1>2 DEF Good
<1> QED BY <1>2, <1>3, <1>4 DEF RegStep

\* The death of p ends its subscriptions, and no others.
LEMMA DeathReg ==
    ASSUME IInv, NEW p \in Pids, NEW answer \in [Sensors -> Answers],
           ProcessDeathObserver(p, answer)
    PROVE  RegStep(p) /\ \A s \in Sensors : reg'[s].subs[p] = NoInfo
<1>1. /\ reg \in [Sensors -> Slice] /\ \A t \in Sensors : Good(reg[t])
  BY AllGood DEF IInv, TypeOK
<1>2. ASSUME NEW s \in Sensors
      PROVE  /\ Good(reg'[s]) /\ reg'[s].subs[p] = NoInfo
             /\ \A q \in Pids \ {p} : reg'[s].subs[q] = reg[s].subs[q]
  <2> DEFINE off == Disable(reg[s], p, answer[s])
  <2>1. CASE s \in ActiveSensors(p)
    <3>1. answer[s] \in Answers
      OBVIOUS
    <3>2. Good(off) /\ \A q \in Pids \ {p} : off.subs[q] = reg[s].subs[q]
      BY <1>1, <3>1, DisableKeeps
    <3>3. reg'[s] = Drop(off, p)
      BY <2>1 DEF ProcessDeathObserver
    <3> HIDE DEF off
    <3>4. /\ Good(Drop(off, p)) /\ Drop(off, p).subs[p] = NoInfo
          /\ \A q \in Pids \ {p} : Drop(off, p).subs[q] = off.subs[q]
      BY <3>2, DropKeeps
    <3> QED BY <3>2, <3>3, <3>4
  <2>2. CASE s \notin ActiveSensors(p)
    <3>1. reg'[s] = reg[s] /\ reg[s].subs[p] = NoInfo
      BY <2>2 DEF ProcessDeathObserver, ActiveSensors
    <3> QED BY <1>1, <3>1
  <2> QED BY <2>1, <2>2
<1>3. reg' \in [Sensors -> Slice]
  <2>1. \A s \in Sensors : reg'[s] \in Slice
    BY <1>2 DEF Good
  <2> QED BY <2>1 DEF ProcessDeathObserver
<1> QED BY <1>2, <1>3 DEF RegStep

\* SuspendSensors ends subscriptions of p, and no others.
LEMMA SuspendReg ==
    ASSUME IInv, NEW p \in Pids, NEW answer \in [Sensors -> Answers],
           SuspendSensors(p, answer)
    PROVE  /\ RegStep(p)
           /\ \A s \in Sensors : reg'[s].subs[p] \in {NoInfo, reg[s].subs[p]}
<1>1. /\ reg \in [Sensors -> Slice] /\ \A t \in Sensors : Good(reg[t])
  BY AllGood DEF IInv, TypeOK
<1>2. ASSUME NEW s \in Sensors
      PROVE  /\ Good(reg'[s]) /\ reg'[s].subs[p] \in {NoInfo, reg[s].subs[p]}
             /\ \A q \in Pids \ {p} : reg'[s].subs[q] = reg[s].subs[q]
  <2> DEFINE off == Suspend(reg[s], p, answer[s])
  <2>1. CASE s \in Suspended(p)
    <3>1. answer[s] \in Answers
      OBVIOUS
    <3>2. /\ Good(off) /\ off.subs[p] = NoInfo
          /\ \A q \in Pids \ {p} : off.subs[q] = reg[s].subs[q]
      BY <1>1, <3>1, SuspendKeeps
    <3>3. reg'[s] = off
      BY <2>1 DEF SuspendSensors
    <3> HIDE DEF off
    <3> QED BY <3>2, <3>3
  <2>2. CASE s \notin Suspended(p)
    <3>1. reg'[s] = reg[s]
      BY <2>2 DEF SuspendSensors
    <3> QED BY <1>1, <3>1
  <2> QED BY <2>1, <2>2
<1>3. reg' \in [Sensors -> Slice]
  <2>1. \A s \in Sensors : reg'[s] \in Slice
    BY <1>2 DEF Good
  <2> QED BY <2>1 DEF SuspendSensors
<1> QED BY <1>2, <1>3 DEF RegStep

\* ResumeSensors changes subscriptions of p, and no others.
LEMMA ResumeReg ==
    ASSUME IInv, NEW p \in Pids, NEW failing \in [Sensors -> Failures],
           ResumeSensors(p, failing)
    PROVE  /\ RegStep(p)
           /\ \A s \in Sensors \ SavedSensors(p) : reg'[s] = reg[s]
<1>1. /\ reg \in [Sensors -> Slice] /\ \A t \in Sensors : Good(reg[t])
  BY AllGood DEF IInv, TypeOK
<1>2. \A s \in Sensors : saved[p][s] \in Info \cup {NoInfo}
  BY DEF IInv, TypeOK
<1>3. ASSUME NEW s \in Sensors
      PROVE  /\ Good(reg'[s])
             /\ \A q \in Pids \ {p} : reg'[s].subs[q] = reg[s].subs[q]
  <2> DEFINE info == SensorInfo(s, saved[p][s])
             back == Subscribe(reg[s], p, info, failing[s])
  <2>1. CASE s \in SavedSensors(p) /\ CanResume(s, saved[p][s])
    <3>1. saved[p][s] \in Info
      BY <1>2, <2>1 DEF SavedSensors
    <3>2. info \in Info /\ failing[s] \in Failures
      BY <3>1, StoredType
    <3> HIDE DEF info
    <3>3. Good(back) /\ \A q \in Pids \ {p} : back.subs[q] = reg[s].subs[q]
      BY <1>1, <3>2, SubscribeKeeps
    <3>4. reg'[s] = back
      BY <2>1 DEF ResumeSensors, info
    <3> HIDE DEF back
    <3> QED BY <3>3, <3>4
  <2>2. CASE ~(s \in SavedSensors(p) /\ CanResume(s, saved[p][s]))
    <3>1. reg'[s] = reg[s]
      BY <2>2 DEF ResumeSensors
    <3> QED BY <1>1, <3>1
  <2> QED BY <2>1, <2>2
<1>4. reg' \in [Sensors -> Slice]
  <2>1. \A s \in Sensors : reg'[s] \in Slice
    BY <1>3 DEF Good
  <2> QED BY <2>1 DEF ResumeSensors
<1>5. \A s \in Sensors \ SavedSensors(p) : reg'[s] = reg[s]
  BY DEF ResumeSensors
<1> QED BY <1>3, <1>4, <1>5 DEF RegStep

\* Every step is the step of one process.
LEMMA NextReg ==
    ASSUME IInv, Next
    PROVE  \E p \in Pids : RegStep(p)
<1>1. PICK p \in Pids :
        \/ TransferDataChannel(p)
        \/ \E s \in Sensors, r \in Requests, failing \in Failures :
              EnableSensor(p, s, r, failing)
        \/ \E s \in Sensors, answer \in Answers : DisableSensor(p, s, answer)
        \/ DestroySensorChannel(p)
        \/ \E answer \in [Sensors -> Answers] : ProcessDeathObserver(p, answer)
        \/ \E answer \in [Sensors -> Answers] : SuspendSensors(p, answer)
        \/ \E failing \in [Sensors -> Failures] : ResumeSensors(p, failing)
  BY DEF Next
<1>2. CASE TransferDataChannel(p)
  <2>1. reg' = reg
    BY <1>2 DEF TransferDataChannel
  <2> QED BY <2>1, AllGood DEF IInv, TypeOK, RegStep
<1> QED
  BY <1>1, <1>2, EnableReg, DisableReg, DestroyReg, DeathReg, SuspendReg, ResumeReg

\* Slices that a step keeps good serve their subscribers and are off when idle.
LEMMA RegStepKeeps ==
    ASSUME NEW p \in Pids, RegStep(p)
    PROVE  Served' /\ OffWhenIdle'
BY DEF RegStep, Good, Served, OffWhenIdle

\* Having nothing saved is having a map of the declared type.
LEMMA SavedEmpty ==
    ASSUME TypeOK
    PROVE  NothingSaved \in [Sensors -> Info \cup {NoInfo}]
BY DEF NothingSaved

\* The number of channels after one more, or one less.
LEMMA ChannelStep ==
    ASSUME TypeOK, NEW p \in Pids
    PROVE  /\ HasRoom(p) => /\ IsFiniteSet(channels \cup {p})
                            /\ Cardinality(channels \cup {p}) <= MaxChannels
           /\ IsFiniteSet(channels \ {p})
           /\ Cardinality(channels \ {p}) <= MaxChannels
<1>1. IsFiniteSet(channels) /\ Cardinality(channels) <= MaxChannels
  BY DEF TypeOK
<1>2. Cardinality(channels) \in Nat
  BY <1>1, FS_CardinalityType
<1>3. CASE p \in channels
  <2>1. channels \cup {p} = channels
    BY <1>3
  <2>2. /\ IsFiniteSet(channels \ {p})
        /\ Cardinality(channels \ {p}) = Cardinality(channels) - 1
    BY <1>1, <1>3, FS_RemoveElement
  <2> QED BY <1>1, <1>2, <2>1, <2>2, LimitsAssumption
<1>4. CASE p \notin channels
  <2>1. channels \ {p} = channels
    BY <1>4
  <2>2. /\ IsFiniteSet(channels \cup {p})
        /\ Cardinality(channels \cup {p}) = Cardinality(channels) + 1
    BY <1>1, <1>4, FS_AddElement
  <2>3. HasRoom(p) => Cardinality(channels) # MaxChannels
    BY <1>4 DEF HasRoom
  <2> QED BY <1>1, <1>2, <2>1, <2>2, <2>3, LimitsAssumption
<1> QED BY <1>3, <1>4

\* Types are kept by every step, given that the slices keep theirs.
LEMMA NextType ==
    ASSUME IInv, [Next]_vars
    PROVE  TypeOK'
<1> USE DEF TypeOK, IInv
<1>1. CASE UNCHANGED vars
  BY <1>1 DEF vars
<1>2. ASSUME Next PROVE reg' \in [Sensors -> Slice]
  BY <1>2, NextReg DEF RegStep
<1>3. ASSUME NEW p \in Pids, Next, TransferDataChannel(p)
      PROVE  TypeOK'
  BY <1>2, <1>3, ChannelStep DEF TransferDataChannel
<1>4. ASSUME NEW p \in Pids, NEW s \in Sensors, NEW r \in Requests,
             NEW failing \in Failures, Next, EnableSensor(p, s, r, failing)
      PROVE  TypeOK'
  BY <1>2, <1>4 DEF EnableSensor
<1>5. ASSUME NEW p \in Pids, NEW s \in Sensors, NEW answer \in Answers,
             Next, DisableSensor(p, s, answer)
      PROVE  TypeOK'
  <2>1. /\ saved' = [saved EXCEPT ![p][s] = NoInfo]
        /\ frozen' = IF saved'[p] = NothingSaved THEN frozen \ {p} ELSE frozen
        /\ channels' = channels
        /\ held' = [held EXCEPT ![p] = @ \ {s}] \/ held' = held
    BY <1>5 DEF DisableSensor, DeleteDisablePidSensorInfo
  <2>2. /\ saved' \in [Pids -> [Sensors -> Info \cup {NoInfo}]]
        /\ \A q \in Pids \ {p} : saved'[q] = saved[q]
        /\ saved[p] = NothingSaved => saved'[p] = NothingSaved
    BY <2>1 DEF NothingSaved
  <2>3. \A q \in Pids \ frozen' : saved'[q] = NothingSaved
    BY <2>1, <2>2
  <2>4. held' \in [Pids -> SUBSET Sensors]
    BY <2>1
  <2> QED BY <1>2, <1>5, <2>1, <2>2, <2>3, <2>4
<1>6. ASSUME NEW p \in Pids, Next, DestroySensorChannel(p)
      PROVE  TypeOK'
  BY <1>2, <1>6, ChannelStep DEF DestroySensorChannel
<1>7. ASSUME NEW p \in Pids, NEW answer \in [Sensors -> Answers], Next,
             ProcessDeathObserver(p, answer)
      PROVE  TypeOK'
  BY <1>2, <1>7, ChannelStep, SavedEmpty DEF ProcessDeathObserver
<1>8. ASSUME NEW p \in Pids, NEW answer \in [Sensors -> Answers], Next,
             SuspendSensors(p, answer)
      PROVE  TypeOK'
  <2> DEFINE now == [s \in Sensors |->
                       IF s \in Suspended(p) THEN reg[s].subs[p] ELSE NoInfo]
  <2>1. now \in [Sensors -> Info \cup {NoInfo}]
    OBVIOUS
  <2>2. /\ saved' = IF p \in frozen THEN saved ELSE [saved EXCEPT ![p] = now]
        /\ frozen' = frozen \cup {p} /\ channels' = channels /\ held' = held
    BY <1>8 DEF SuspendSensors
  <2> HIDE DEF now
  <2> QED BY <1>2, <1>8, <2>1, <2>2
<1>9. ASSUME NEW p \in Pids, NEW failing \in [Sensors -> Failures], Next,
             ResumeSensors(p, failing)
      PROVE  TypeOK'
  <2>1. /\ channels' = channels /\ held' = held
        /\ \/ /\ saved' = [saved EXCEPT ![p] = NothingSaved]
              /\ frozen' = frozen \ {p}
           \/ saved' = saved /\ frozen' = frozen
    BY <1>9 DEF ResumeSensors
  <2> QED BY <1>2, <1>9, <2>1, SavedEmpty
<1> QED
  BY <1>1, <1>3, <1>4, <1>5, <1>6, <1>7, <1>8, <1>9 DEF Next

\* A sensor that is subscribed to or saved was asked for, after every step.
LEMMA NextAsked ==
    ASSUME IInv, [Next]_vars
    PROVE  StillAsked'
<1>1. /\ reg \in [Sensors -> Slice] /\ \A t \in Sensors : Good(reg[t])
      /\ held \in [Pids -> SUBSET Sensors]
      /\ saved \in [Pids -> [Sensors -> Info \cup {NoInfo}]]
  BY AllGood DEF IInv, TypeOK
<1>2. \A q \in Pids, t \in Sensors :
         reg[t].subs[q] # NoInfo \/ saved[q][t] # NoInfo => t \in held[q]
  BY DEF IInv, StillAsked
<1> SUFFICES ASSUME NEW q \in Pids, NEW t \in Sensors,
                    reg'[t].subs[q] # NoInfo \/ saved'[q][t] # NoInfo
             PROVE  t \in held'[q]
  BY DEF StillAsked
<1>3. CASE UNCHANGED vars
  BY <1>2, <1>3 DEF vars
<1>4. ASSUME NEW p \in Pids, TransferDataChannel(p)
      PROVE  t \in held'[q]
  BY <1>2, <1>4 DEF TransferDataChannel
<1>5. ASSUME NEW p \in Pids, NEW s \in Sensors, NEW r \in Requests,
             NEW failing \in Failures, EnableSensor(p, s, r, failing)
      PROVE  t \in held'[q]
  <2>1. /\ saved' = saved /\ held' = [held EXCEPT ![p] = @ \cup {s}]
        /\ \E new : reg' = [reg EXCEPT ![s] = new]
    BY <1>5 DEF EnableSensor
  <2>2. \A u \in Pids \ {p} : reg'[t].subs[u] = reg[t].subs[u]
    BY <1>5, EnableReg DEF RegStep
  <2> QED BY <1>1, <1>2, <2>1, <2>2
<1>6. ASSUME NEW p \in Pids, NEW s \in Sensors, NEW answer \in Answers,
             DisableSensor(p, s, answer)
      PROVE  t \in held'[q]
  <2> DEFINE new == Disable(reg[s], p, answer)
  <2>1. /\ saved' = [saved EXCEPT ![p][s] = NoInfo]
        /\ reg' = [reg EXCEPT ![s] = new]
        /\ held' = IF Disabled(reg[s], p, answer)
                   THEN [held EXCEPT ![p] = @ \ {s}] ELSE held
    BY <1>6 DEF DisableSensor, DeleteDisablePidSensorInfo
  <2>2. /\ Disabled(reg[s], p, answer) => new.subs[p] = NoInfo
        /\ new.subs[p] \in {NoInfo, reg[s].subs[p]}
        /\ \A u \in Pids \ {p} : new.subs[u] = reg[s].subs[u]
    BY <1>1, DisableKeeps
  <2> HIDE DEF new
  <2>3. CASE q = p /\ t = s
    <3>1. reg'[t].subs[q] = new.subs[p] /\ saved'[q][t] = NoInfo
      BY <1>1, <2>1, <2>3
    <3> QED BY <1>1, <1>2, <2>1, <2>2, <2>3, <3>1
  <2>4. CASE ~(q = p /\ t = s)
    <3>1. reg'[t].subs[q] = reg[t].subs[q] /\ saved'[q][t] = saved[q][t]
      BY <1>1, <2>1, <2>2, <2>4
    <3> QED BY <1>1, <1>2, <2>1, <2>4, <3>1
  <2> QED BY <2>3, <2>4
<1>7. ASSUME NEW p \in Pids, DestroySensorChannel(p)
      PROVE  t \in held'[q]
  <2>1. saved' = saved /\ held' = held
    BY <1>7 DEF DestroySensorChannel
  <2>2. /\ reg'[t].subs[p] = NoInfo
        /\ \A u \in Pids \ {p} : reg'[t].subs[u] = reg[t].subs[u]
    BY <1>7, DestroyReg DEF RegStep
  <2> QED BY <1>2, <2>1, <2>2
<1>8. ASSUME NEW p \in Pids, NEW answer \in [Sensors -> Answers],
             ProcessDeathObserver(p, answer)
      PROVE  t \in held'[q]
  <2>1. /\ saved' = [saved EXCEPT ![p] = NothingSaved]
        /\ held' = [held EXCEPT ![p] = {}]
    BY <1>8 DEF ProcessDeathObserver
  <2>2. /\ reg'[t].subs[p] = NoInfo
        /\ \A u \in Pids \ {p} : reg'[t].subs[u] = reg[t].subs[u]
    BY <1>8, DeathReg DEF RegStep
  <2> QED BY <1>1, <1>2, <2>1, <2>2 DEF NothingSaved
<1>9. ASSUME NEW p \in Pids, NEW answer \in [Sensors -> Answers],
             SuspendSensors(p, answer)
      PROVE  t \in held'[q]
  <2>1. /\ held' = held
        /\ saved'[q][t] \in {NoInfo, saved[q][t], reg[t].subs[q]}
    BY <1>1, <1>9 DEF SuspendSensors
  <2>2. /\ reg'[t].subs[p] \in {NoInfo, reg[t].subs[p]}
        /\ \A u \in Pids \ {p} : reg'[t].subs[u] = reg[t].subs[u]
    BY <1>9, SuspendReg DEF RegStep
  <2> QED BY <1>2, <2>1, <2>2
<1>10. ASSUME NEW p \in Pids, NEW failing \in [Sensors -> Failures],
              ResumeSensors(p, failing)
       PROVE  t \in held'[q]
  <2>1. held' = held /\ saved'[q][t] \in {NoInfo, saved[q][t]}
    <3>1. held' = held /\ (saved' = [saved EXCEPT ![p] = NothingSaved] \/ saved' = saved)
      BY <1>10 DEF ResumeSensors
    <3> QED BY <1>1, <3>1 DEF NothingSaved
  <2>2. /\ t \notin SavedSensors(p) => reg'[t] = reg[t]
        /\ \A u \in Pids \ {p} : reg'[t].subs[u] = reg[t].subs[u]
    BY <1>10, ResumeReg DEF RegStep
  <2> QED BY <1>2, <2>1, <2>2 DEF SavedSensors
<1> QED
  BY <1>3, <1>4, <1>5, <1>6, <1>7, <1>8, <1>9, <1>10 DEF Next

\* A subscription that is taken is stored as it is given, any other is none.
LEMMA SubscribeStores ==
    ASSUME NEW st, Good(st), NEW p \in Pids, NEW info \in Info, NEW failing \in Failures
    PROVE  Subscribe(st, p, info, failing).subs[p] =
              IF Subscribed(st, p, info, failing) THEN info ELSE NoInfo
<1> DEFINE asked == UpdateSensorInfo(st, p, info)
           set == IF NeedsBatch(asked, p) /\ failing # "SetBatch"
                  THEN SetBatch(asked, GetBestSensorInfo(asked)) ELSE asked
           new == Subscribe(st, p, info, failing)
<1>1. asked \in Slice /\ asked.subs[p] = info
  BY DEF UpdateSensorInfo, Good
<1> HIDE DEF asked
<1>2. set.subs = asked.subs /\ DOMAIN set = DOMAIN asked
  BY <1>1 DEF SetBatch
<1> HIDE DEF set
<1>3. CASE Subscribed(st, p, info, failing)
  <2>1. new = [set EXCEPT !.on = @ \/ Subscribers(st) = {}, !.fault = FALSE]
    BY <1>3 DEF Subscribe, asked, set
  <2>2. new.subs = set.subs
    BY <1>1, <1>2, <2>1
  <2> QED BY <1>1, <1>2, <1>3, <2>2
<1>4. CASE ~Subscribed(st, p, info, failing)
  <2> DEFINE less == RemoveSubscriber(set, p)
  <2>1. new = [less EXCEPT !.fault = @ \/ Subscribers(st) \subseteq {p}]
    BY <1>4 DEF Subscribe, asked, set
  <2>2. /\ less = [set EXCEPT !.subs = [set.subs EXCEPT ![p] = NoInfo]]
        /\ set.subs \in [Pids -> Info \cup {NoInfo}]
    BY <1>1, <1>2 DEF RemoveSubscriber
  <2>3. less.subs[p] = NoInfo /\ DOMAIN less = DOMAIN asked
    BY <1>1, <1>2, <2>2
  <2> HIDE DEF less
  <2>4. new.subs = less.subs
    BY <1>1, <2>1, <2>3
  <2> QED BY <1>4, <2>3, <2>4
<1> QED BY <1>3, <1>4

\* What the maps hold of requests, in use and saved.
Recalled ==
    \A p \in Pids, s \in Sensors : Stored(s, reg[s].subs[p]) /\ Stored(s, saved[p][s])

\* Nothing is stored as it was not checked and rounded, after every step.
LEMMA NextRecalled ==
    ASSUME IInv, Recalled, [Next]_vars
    PROVE  Recalled'
<1>1. /\ reg \in [Sensors -> Slice] /\ \A t \in Sensors : Good(reg[t])
      /\ saved \in [Pids -> [Sensors -> Info \cup {NoInfo}]]
  BY AllGood DEF IInv, TypeOK
<1>2. \A t \in Sensors : Stored(t, NoInfo)
  BY DEF Stored
<1> SUFFICES ASSUME NEW q \in Pids, NEW t \in Sensors
             PROVE  Stored(t, reg'[t].subs[q]) /\ Stored(t, saved'[q][t])
  BY DEF Recalled, Stored, Fits, Accepts, SensorInfo, Rounded
<1>3. Stored(t, reg[t].subs[q]) /\ Stored(t, saved[q][t])
  BY DEF Recalled
<1>4. CASE UNCHANGED vars
  BY <1>3, <1>4 DEF vars
<1>5. ASSUME NEW p \in Pids, TransferDataChannel(p)
      PROVE  Stored(t, reg'[t].subs[q]) /\ Stored(t, saved'[q][t])
  BY <1>3, <1>5 DEF TransferDataChannel
<1>6. ASSUME NEW p \in Pids, NEW s \in Sensors, NEW r \in Requests,
             NEW failing \in Failures, EnableSensor(p, s, r, failing)
      PROVE  Stored(t, reg'[t].subs[q]) /\ Stored(t, saved'[q][t])
  <2> DEFINE info == SensorInfo(s, r)
             new == Subscribe(reg[s], p, info, failing)
  <2>1. saved' = saved /\ reg' = [reg EXCEPT ![s] = new] /\ Accepts(s, r)
    BY <1>6 DEF EnableSensor
  <2>2. info \in Info /\ Stored(s, info)
    BY <2>1, RequestsAssumption, StoredType, AcceptedIsStored
  <2> HIDE DEF info
  <2>3. new.subs[p] \in {info, NoInfo} /\ \A u \in Pids \ {p} : new.subs[u] = reg[s].subs[u]
    BY <1>1, <2>2, SubscribeStores, SubscribeKeeps
  <2> HIDE DEF new
  <2> QED BY <1>1, <1>2, <1>3, <2>1, <2>2, <2>3
<1>7. ASSUME NEW p \in Pids, NEW s \in Sensors, NEW answer \in Answers,
             DisableSensor(p, s, answer)
      PROVE  Stored(t, reg'[t].subs[q]) /\ Stored(t, saved'[q][t])
  <2> DEFINE new == Disable(reg[s], p, answer)
  <2>1. saved' = [saved EXCEPT ![p][s] = NoInfo] /\ reg' = [reg EXCEPT ![s] = new]
    BY <1>7 DEF DisableSensor, DeleteDisablePidSensorInfo
  <2>2. /\ new.subs[p] \in {NoInfo, reg[s].subs[p]}
        /\ \A u \in Pids \ {p} : new.subs[u] = reg[s].subs[u]
    BY <1>1, DisableKeeps
  <2> HIDE DEF new
  <2> QED BY <1>1, <1>2, <1>3, <2>1, <2>2
<1>8. ASSUME NEW p \in Pids, DestroySensorChannel(p)
      PROVE  Stored(t, reg'[t].subs[q]) /\ Stored(t, saved'[q][t])
  <2>1. /\ reg'[t].subs[p] = NoInfo
        /\ \A u \in Pids \ {p} : reg'[t].subs[u] = reg[t].subs[u]
    BY <1>8, DestroyReg DEF RegStep
  <2> QED BY <1>2, <1>3, <1>8, <2>1 DEF DestroySensorChannel
<1>9. ASSUME NEW p \in Pids, NEW answer \in [Sensors -> Answers],
             ProcessDeathObserver(p, answer)
      PROVE  Stored(t, reg'[t].subs[q]) /\ Stored(t, saved'[q][t])
  <2>1. saved' = [saved EXCEPT ![p] = NothingSaved]
    BY <1>9 DEF ProcessDeathObserver
  <2>2. /\ reg'[t].subs[p] = NoInfo
        /\ \A u \in Pids \ {p} : reg'[t].subs[u] = reg[t].subs[u]
    BY <1>9, DeathReg DEF RegStep
  <2> QED BY <1>1, <1>2, <1>3, <2>1, <2>2 DEF NothingSaved
<1>10. ASSUME NEW p \in Pids, NEW answer \in [Sensors -> Answers],
              SuspendSensors(p, answer)
       PROVE  Stored(t, reg'[t].subs[q]) /\ Stored(t, saved'[q][t])
  <2>1. saved'[q][t] \in {NoInfo, saved[q][t], reg[t].subs[q]}
    BY <1>1, <1>10 DEF SuspendSensors
  <2>2. /\ reg'[t].subs[p] \in {NoInfo, reg[t].subs[p]}
        /\ \A u \in Pids \ {p} : reg'[t].subs[u] = reg[t].subs[u]
    BY <1>10, SuspendReg DEF RegStep
  <2> QED BY <1>2, <1>3, <2>1, <2>2
<1>11. ASSUME NEW p \in Pids, NEW failing \in [Sensors -> Failures],
              ResumeSensors(p, failing)
       PROVE  Stored(t, reg'[t].subs[q]) /\ Stored(t, saved'[q][t])
  <2>1. saved'[q][t] \in {NoInfo, saved[q][t]}
    <3>1. saved' = [saved EXCEPT ![p] = NothingSaved] \/ saved' = saved
      BY <1>11 DEF ResumeSensors
    <3> QED BY <1>1, <3>1 DEF NothingSaved
  <2>2. \A u \in Pids \ {p} : reg'[t].subs[u] = reg[t].subs[u]
    BY <1>11, ResumeReg DEF RegStep
  <2>3. Stored(t, reg'[t].subs[p])
    <3> DEFINE info == SensorInfo(t, saved[p][t])
               new == Subscribe(reg[t], p, info, failing[t])
    <3>1. CASE t \in SavedSensors(p) /\ CanResume(t, saved[p][t])
      <4>1. saved[p][t] \in Info /\ failing[t] \in Failures
        BY <1>1, <3>1 DEF SavedSensors
      <4>2. info \in Info /\ Stored(t, info)
        BY <3>1, <4>1, StoredType, AcceptedIsStored DEF CanResume
      <4>3. reg'[t] = new
        BY <1>11, <3>1 DEF ResumeSensors
      <4> HIDE DEF info
      <4>4. new.subs[p] \in {info, NoInfo}
        BY <1>1, <4>1, <4>2, SubscribeStores
      <4> HIDE DEF new
      <4> QED BY <1>2, <4>2, <4>3, <4>4
    <3>2. CASE ~(t \in SavedSensors(p) /\ CanResume(t, saved[p][t]))
      BY <1>11, <3>2 DEF ResumeSensors, Recalled
    <3> QED BY <3>1, <3>2
  <2> QED BY <1>2, <1>3, <2>1, <2>2, <2>3
<1> QED
  BY <1>4, <1>5, <1>6, <1>7, <1>8, <1>9, <1>10, <1>11 DEF Next

-----------------------------------------------------------------------------
(* The theorems                                                            *)

\* The invariant holds when the service starts.
LEMMA InitIInv == Init => IInv
<1> SUFFICES ASSUME Init PROVE IInv
  OBVIOUS
<1> DEFINE new == [subs |-> [p \in Pids |-> NoInfo], on |-> FALSE,
                   period |-> NoLimit, delay |-> NoLimit, fault |-> FALSE]
<1>1. new \in Slice
  BY LimitsAssumption
<1>2. reg \in [Sensors -> Slice] /\ \A s \in Sensors : reg[s] = new
  BY <1>1 DEF Init
<1>3. Served /\ OffWhenIdle
  BY <1>2 DEF Served, ServedBy, OffWhenIdle, IdleOff, Subscribers
<1>4. IsFiniteSet({}) /\ Cardinality({}) = 0
  BY FS_EmptySet
<1>5. TypeOK
  BY <1>2, <1>4, LimitsAssumption DEF Init, TypeOK, NothingSaved
<1>6. StillAsked
  BY <1>2 DEF Init, StillAsked, NothingSaved
<1> QED BY <1>3, <1>5, <1>6 DEF IInv

\* The invariant is inductive.
LEMMA NextIInv == IInv /\ [Next]_vars => IInv'
<1> SUFFICES ASSUME IInv, [Next]_vars PROVE IInv'
  OBVIOUS
<1>1. TypeOK' /\ StillAsked'
  BY NextType, NextAsked
<1>2. Served' /\ OffWhenIdle'
  <2>1. CASE UNCHANGED vars
    BY <2>1 DEF vars, IInv, Served, OffWhenIdle, ServedBy, IdleOff, Subscribers
  <2>2. CASE Next
    BY <2>2, NextReg, RegStepKeeps
  <2> QED BY <2>1, <2>2
<1> QED BY <1>1, <1>2 DEF IInv

\* The inductive invariant: types, who is served, what is off, what was asked.
THEOREM Invariance == Spec => []IInv
<1> QED BY InitIInv, NextIInv, PTL DEF Spec

\* Every map of the service has its type, however many processes and sensors.
THEOREM TypeCorrect == Spec => []TypeOK
<1>1. IInv => TypeOK
  BY DEF IInv
<1> QED BY <1>1, Invariance, PTL

\* A subscribed process always has a sensor that is on and fast enough for it.
THEOREM AlwaysServed == Spec => []Served
<1>1. IInv => Served
  BY DEF IInv
<1> QED BY <1>1, Invariance, PTL

\* A sensor nobody uses is off, unless the driver or a channel failed.
THEOREM AlwaysOffWhenIdle == Spec => []OffWhenIdle
<1>1. IInv => OffWhenIdle
  BY DEF IInv
<1> QED BY <1>1, Invariance, PTL

\* Neither a subscription nor a saved one outlives the process's giving it up.
THEOREM AlwaysStillAsked == Spec => []StillAsked
<1>1. IInv => StillAsked
  BY DEF IInv
<1> QED BY <1>1, Invariance, PTL

\* No step subscribes or unsubscribes two processes.
THEOREM AlwaysOneProcess == Spec => OneProcess
<1> DEFINE A == \A p, q \in Pids, s, t \in Sensors :
                  /\ (reg[s].subs[p] = NoInfo) # (reg'[s].subs[p] = NoInfo)
                  /\ (reg[t].subs[q] = NoInfo) # (reg'[t].subs[q] = NoInfo)
                  => p = q
<1>1. ASSUME IInv, [Next]_vars PROVE [A]_vars
  <2>1. CASE Next
    <3>1. PICK u \in Pids : RegStep(u)
      BY <1>1, <2>1, NextReg
    <3> QED BY <3>1 DEF RegStep
  <2> QED BY <1>1, <2>1
<1> QED BY <1>1, Invariance, PTL DEF Spec, OneProcess

\* What is in use, and what is saved, was checked and rounded: SensorInfo leaves
\* it as it is.
THEOREM AlwaysRecalled == Spec => []Recalled
<1>1. Init => Recalled
  BY DEF Init, Recalled, NothingSaved, Stored
<1>2. IInv /\ Recalled /\ [Next]_vars => Recalled'
  BY NextRecalled
<1> QED BY <1>1, <1>2, Invariance, PTL DEF Spec

\* SensorService!Resumable: what Suspend saved passes Resume's checks, but for a
\* period of zero, and is not rounded again, provided that the queue of no sensor,
\* at its fastest rate, spans more than 64 bits of nanoseconds.  The proviso is
\* needed: what GetSensorInfo raises to such a period, the overflow check of the
\* next GetSensorInfo refuses.
THEOREM AlwaysResumable ==
    ASSUME \A s \in Known : FifoMax[s] * MinPeriod[s] <= NoLimit
    PROVE  Spec => []Resumable
<1>1. Recalled => Resumable
  BY DEF Recalled, Resumable, Stored, Fits, CanResume
<1> QED BY <1>1, AlwaysRecalled, PTL

\* SensorService!ResumeRestores: a resumption that drops the entry of a process has
\* given it back every sensor in it, at the rate it had.  It needs no proviso:
\* an entry that is refused stays.
THEOREM AlwaysResumeRestores == Spec => ResumeRestores
<1> DEFINE A == \A p \in Pids, s \in Sensors :
                  /\ p \in frozen /\ p \notin frozen'
                  /\ saved[p][s] # NoInfo
                  /\ \E failing \in [Sensors -> Failures] : ResumeSensors(p, failing)
                  => reg'[s].subs[p] = saved[p][s]
<1>1. ASSUME IInv, Recalled PROVE A
  <2> SUFFICES ASSUME NEW p \in Pids, NEW s \in Sensors,
                      p \in frozen, p \notin frozen', saved[p][s] # NoInfo,
                      NEW failing \in [Sensors -> Failures], ResumeSensors(p, failing)
               PROVE  reg'[s].subs[p] = saved[p][s]
    OBVIOUS
  <2> DEFINE info == SensorInfo(s, saved[p][s])
             new == Subscribe(reg[s], p, info, failing[s])
  <2>1. s \in SavedSensors(p) /\ Resumed(p, s, failing[s])
    BY DEF ResumeSensors, ResumeDone, SavedSensors
  <2>2. /\ CanResume(s, saved[p][s]) /\ Subscribed(reg[s], p, info, failing[s])
        /\ reg'[s] = new
    BY <2>1 DEF Resumed, ResumeSensors
  <2>3. saved[p][s] \in Info /\ info = saved[p][s] /\ failing[s] \in Failures
    BY <1>1 DEF Recalled, Stored
  <2>4. Good(reg[s])
    BY <1>1, AllGood DEF IInv, TypeOK
  <2> HIDE DEF info
  <2>5. new.subs[p] = info
    BY <2>2, <2>3, <2>4, SubscribeStores
  <2> HIDE DEF new
  <2> QED BY <2>2, <2>3, <2>5
<1>2. IInv /\ Recalled /\ [Next]_vars => [A]_vars
  BY <1>1
<1> QED BY <1>2, Invariance, AlwaysRecalled, PTL DEF Spec, ResumeRestores

-----------------------------------------------------------------------------
(***************************************************************************)
(* PlugEvents: the lists and the subscriptions of sensors that come and    *)
(* go, for any number of clients, sensors, devices and reports.  The proof *)
(* says, at every stage of the report of a sensor that went, who may still *)
(* know the sensor and who may still count as its subscriber.              *)
(***************************************************************************)

\* The offline event of s is on its way.
Coming(s) == \E i \in DOMAIN events : events[i] = [sensor |-> s, online |-> FALSE]

Gone(s) == s \notin plugged /\ ~Coming(s)

\* The service is at one of these stages of the report of s.
Handling(s, stages) == event.at \in stages /\ event.sensor = s

\* The stages of the report of a sensor that went away: the clients are told,
\* after the service has changed its own lists.
Telling == {"disable", "list", "infos"}
Leaving == {"sensors", "map"} \cup Telling

\* c is still to be told, or is being told and is in one of these stages.
ToTell(c, stages) ==
    \E i \in DOMAIN event.todo : event.todo[i] = c /\ (i = 1 => event.at \in stages)

\* The agent's copy of the list.
Copy(c) == IF infos[c] = Null THEN {} ELSE infos[c]

\* c has changed its list and has its agent's copy still to change.
Erasing(c) == event.at = "infos" /\ Head(event.todo) = c

\* Whom the service tells: the clients that are registered.
Members ==
    /\ \A c \in Clients :
        /\ c \in Range(clients) <=> user[c].at \notin {"none", "listed"}
        /\ user[c].at = "none" => list[c] = {} /\ infos[c] = Null
    /\ Range(event.todo) \subseteq Range(clients)

\* Who is between the two halves of GetDeviceSensors has a copy, alone.
Holding ==
    /\ \A c \in Clients : user[c].at = "device" =>
          infos[c] # Null /\ ~(event.at = "merge" /\ Head(event.todo) = c)
    /\ event.at = "merge" => infos[Head(event.todo)] # Null

\* An agent's copy has nothing that the client's list has not, except while a
\* sensor that went is being taken out of both.
Copies ==
    \A c \in Clients :
        Copy(c) \subseteq list[c] \cup (IF Erasing(c) THEN {event.sensor} ELSE {})

\* Where a sensor may still be known that is gone and of which no report is on
\* its way: what the handling of its last report has not reached yet.
Ghosts ==
    \A s \in SensorIds : Gone(s) =>
        /\ s \notin service.hdi
        /\ ~Handling(s, {"sensors"}) => s \notin service.sensors
        /\ ~Handling(s, {"sensors", "map"}) => \A c \in Clients : s \in list[c] =>
              \/ s \in missed[c]
              \/ Handling(s, Telling) /\ ToTell(c, {"disable", "list"})

\* Whom the service counts as a subscriber is registered and subscribes itself.
Agreed ==
    /\ \A s \in SensorIds : \A c \in subs[s] :
          c \in Range(clients) /\ (s \in subscribed[c] \/ s \in excused)
    /\ \A c \in Clients : user[c].at = "enable" => user[c].sensor \in subscribed[c]

\* A sensor whose going the clients are told of is not in sensorMap_, and who
\* subscribes to it, or is about to, is still to be told.
Stale ==
    \A s \in SensorIds \ excused : Handling(s, Telling) =>
        /\ s \notin service.map
        /\ \A c \in Clients : c \in subs[s] \/ user[c] = [at |-> "enable", sensor |-> s] =>
              ToTell(c, {"disable"})

\* A sensor that has subscribers and is off has its going ahead, or in hand.
Off ==
    \A s \in SensorIds \ excused : subs[s] # {} /\ s \notin on =>
        Coming(s) \/ Handling(s, Leaving)

PlugInv ==
    PlugTypeOK /\ Members /\ Holding /\ Copies /\ Ghosts /\ Agreed /\ Stale /\ Off

-----------------------------------------------------------------------------
(* What the lists of the service learn                                     *)

Services == [hdi : SUBSET SensorIds, sensors : SUBSET SensorIds, map : SUBSET SensorIds]

SeenBy(lists) == plugged \cup lists.hdi \cup lists.sensors

\* What a listing makes of the lists: they learn of what is plugged in only.
Learns(lists, now) ==
    /\ now \in Services
    /\ now.hdi \subseteq plugged \cup lists.hdi
    /\ now.sensors \subseteq SeenBy(lists)

\* GetSensorList and what it answers come from what was known.
LEMMA GetSensorListLearns ==
    ASSUME NEW lists \in Services, plugged \subseteq SensorIds
    PROVE  /\ Learns(lists, GetSensorList(lists))
           /\ HdiList(lists) \subseteq SensorIds /\ HdiList(lists) \subseteq SeenBy(lists)
BY DEF Services, SeenBy, Learns, GetSensorList, HdiList

\* So does the driver's answer about one device,
LEMMA AskDeviceLearns ==
    ASSUME NEW lists \in Services, plugged \subseteq SensorIds, NEW d
    PROVE  /\ Learns(lists, AskDevice(lists, d).lists)
           /\ AskDevice(lists, d).answer \subseteq SensorIds
           /\ AskDevice(lists, d).answer \subseteq SeenBy(lists)
BY DEF Services, SeenBy, Learns, AskDevice, Part

\* and the answer of the service about it.
LEMMA ByDeviceLearns ==
    ASSUME NEW lists \in Services, plugged \subseteq SensorIds, NEW d
    PROVE  /\ Learns(lists, GetSensorListByDevice(lists, d).lists)
           /\ GetSensorListByDevice(lists, d).answer \subseteq SensorIds
           /\ GetSensorListByDevice(lists, d).answer \subseteq SeenBy(lists)
<1>1. CASE Part(lists.sensors, d) = {}
  BY <1>1, AskDeviceLearns DEF GetSensorListByDevice
<1>2. CASE Part(lists.sensors, d) # {}
  BY <1>2 DEF GetSensorListByDevice, Services, SeenBy, Learns, Part
<1> QED BY <1>1, <1>2

\* A listing after a listing is a listing.
LEMMA LearnsTwice ==
    ASSUME NEW lists \in Services, NEW then \in Services, NEW now \in Services,
           Learns(lists, then), Learns(then, now)
    PROVE  Learns(lists, now) /\ SeenBy(then) \subseteq SeenBy(lists)
BY DEF Learns, SeenBy

-----------------------------------------------------------------------------
(* What a client learns                                                    *)

\* Client c lists: what it keeps grows by what the service knew, and the copy
\* of its agent by what is in its list.
Hears(c) ==
    \E now \in Services, got \in SUBSET SensorIds, copy \in {Null} \cup SUBSET SensorIds :
        /\ Learns(service, now) /\ Lists(now)
        /\ list[c] \subseteq got /\ got \subseteq list[c] \cup SeenBy(service)
        /\ list' = [list EXCEPT ![c] = got]
        /\ infos' = [infos EXCEPT ![c] = copy]
        /\ (IF copy = Null THEN {} ELSE copy) \subseteq Copy(c) \cup got

\* InitServiceClient is a listing of the service, or nothing.
LEMMA ServiceInits ==
    ASSUME PlugTypeOK, NEW c \in Clients
    PROVE  /\ InitServiceClient(c).lists \in Services
           /\ Learns(service, InitServiceClient(c).lists)
           /\ InitServiceClient(c).list \in SUBSET SensorIds
           /\ list[c] \subseteq InitServiceClient(c).list
           /\ InitServiceClient(c).list \subseteq list[c] \cup SeenBy(service)
<1>1. service \in Services /\ plugged \subseteq SensorIds /\ list[c] \subseteq SensorIds
  BY DEF PlugTypeOK, Services
<1>2. CASE list[c] = {}
  BY <1>1, <1>2, GetSensorListLearns DEF InitServiceClient, Learns
<1>3. CASE list[c] # {}
  BY <1>1, <1>3 DEF InitServiceClient, Learns, SeenBy
<1> QED BY <1>2, <1>3

\* GetDeviceSensors, its first half
LEMMA ConvertHears ==
    ASSUME PlugTypeOK, NEW c \in Clients, Convert(c)
    PROVE  Hears(c)
<1>1. service \in Services /\ list[c] \in SUBSET SensorIds
      /\ infos[c] \in {Null} \cup SUBSET SensorIds
      /\ list = [list EXCEPT ![c] = list[c]] /\ infos = [infos EXCEPT ![c] = infos[c]]
      /\ excused \subseteq SensorIds
  BY DEF PlugTypeOK, Services
<1>2. CASE infos[c] # Null
  <2>1. UNCHANGED <<service, excused, list, infos>>
    BY <1>2 DEF Convert
  <2>2. Learns(service, service) /\ Lists(service)
    BY <1>1, <2>1 DEF Learns, SeenBy, Lists
  <2> QED BY <1>1, <2>1, <2>2 DEF Hears, Copy
<1>3. CASE infos[c] = Null
  <2> DEFINE init == InitServiceClient(c)
  <2>1. /\ Lists(init.lists)
        /\ list' = [list EXCEPT ![c] = init.list]
        /\ infos' = [infos EXCEPT ![c] = ConvertSensorInfos(c, init.list)]
    BY <1>3 DEF Convert
  <2>2. ConvertSensorInfos(c, init.list) \in {Null} \cup SUBSET SensorIds
        /\ ConvertSensorInfos(c, init.list) \in {Null, init.list}
    BY <1>3, ServiceInits DEF ConvertSensorInfos
  <2> QED BY <2>1, <2>2, ServiceInits DEF Hears
<1> QED BY <1>2, <1>3

\* and its second.
LEMMA UpdateHears ==
    ASSUME PlugTypeOK, NEW c \in Clients, NEW d, infos[c] # Null,
           UpdateSensorInfosCache(c, d)
    PROVE  Hears(c)
<1> DEFINE init == InitServiceClient(c)
           own == Part(init.list, d)
           asked == IF own # {} THEN [lists |-> init.lists, answer |-> own]
                    ELSE GetSensorListByDevice(init.lists, d)
<1>1. /\ Lists(asked.lists)
      /\ list' = [list EXCEPT ![c] = init.list \cup asked.answer]
      /\ infos' = [infos EXCEPT ![c] = infos[c] \cup asked.answer]
  BY DEF UpdateSensorInfosCache, PlugTypeOK
<1>2. plugged \subseteq SensorIds /\ service \in Services /\ infos[c] \in SUBSET SensorIds
  BY DEF PlugTypeOK, Services
<1>3. /\ asked.lists \in Services /\ Learns(service, asked.lists)
      /\ asked.answer \in SUBSET SensorIds
      /\ asked.answer \subseteq list[c] \cup SeenBy(service)
  <2>1. CASE own # {}
    BY <2>1, ServiceInits DEF Part
  <2>2. CASE own = {}
    <3> HIDE DEF init
    <3>1. /\ GetSensorListByDevice(init.lists, d).lists \in Services
          /\ Learns(init.lists, GetSensorListByDevice(init.lists, d).lists)
          /\ GetSensorListByDevice(init.lists, d).answer \in SUBSET SensorIds
          /\ GetSensorListByDevice(init.lists, d).answer \subseteq SeenBy(init.lists)
      BY <1>2, ServiceInits, ByDeviceLearns DEF Learns, init
    <3>2. Learns(service, GetSensorListByDevice(init.lists, d).lists)
          /\ SeenBy(init.lists) \subseteq SeenBy(service)
      BY <1>2, <3>1, ServiceInits, LearnsTwice DEF init
    <3> QED BY <2>2, <3>1, <3>2
  <2> QED BY <2>1, <2>2
<1>4. /\ list[c] \subseteq init.list \cup asked.answer
      /\ init.list \cup asked.answer \subseteq list[c] \cup SeenBy(service)
      /\ init.list \cup asked.answer \in SUBSET SensorIds
  BY <1>3, ServiceInits
<1>5. Copy(c) = infos[c]
  BY DEF Copy
<1>6. infos[c] \cup asked.answer \in SUBSET SensorIds
  BY <1>2, <1>3
<1>7. (IF infos[c] \cup asked.answer = Null THEN {} ELSE infos[c] \cup asked.answer)
          \subseteq Copy(c) \cup (init.list \cup asked.answer)
  BY <1>5
<1> HIDE DEF asked, init, own
<1> QED BY <1>1, <1>2, <1>3, <1>4, <1>6, <1>7 DEF Hears

\* GetAllSensors.
LEMMA AllHears ==
    ASSUME PlugTypeOK, NEW c \in Clients, GetAllSensors(c)
    PROVE  Hears(c)
<1> DEFINE init == InitServiceClient(c)
<1>1. /\ Lists(init.lists)
      /\ list' = [list EXCEPT ![c] = init.list]
      /\ infos' = [infos EXCEPT ![c] = ConvertSensorInfos(c, init.list)]
  BY DEF GetAllSensors
<1>2. infos[c] \in {Null} \cup SUBSET SensorIds
  BY DEF PlugTypeOK
<1>3. ConvertSensorInfos(c, init.list) \in {Null, infos[c], init.list}
  BY DEF ConvertSensorInfos
<1>4. (IF ConvertSensorInfos(c, init.list) = Null THEN {}
       ELSE ConvertSensorInfos(c, init.list)) \subseteq Copy(c) \cup init.list
  BY <1>3 DEF Copy
<1> HIDE DEF init
<1> QED BY <1>1, <1>2, <1>3, <1>4, ServiceInits DEF Hears, init

\* DealAfterServiceAlive.
LEMMA ConnectHears ==
    ASSUME PlugTypeOK, Members, NEW c \in Clients, Connect(c)
    PROVE  Hears(c)
<1>1. list[c] = {} /\ infos[c] = Null
  BY DEF Connect, Members, NoUser
<1>2. /\ Lists(GetSensorList(service)) /\ UNCHANGED infos
      /\ list' = [list EXCEPT ![c] = HdiList(service)]
  BY DEF Connect, clientVars
<1>3. service \in Services /\ plugged \subseteq SensorIds
      /\ infos = [infos EXCEPT ![c] = infos[c]] /\ infos[c] \in {Null} \cup SUBSET SensorIds
  BY DEF PlugTypeOK, Services
<1> QED BY <1>1, <1>2, <1>3, GetSensorListLearns DEF Hears, Learns, Copy


-----------------------------------------------------------------------------
(* What is being told                                                      *)

\* What the stage says of the rest of the event.
LEMMA EventFacts ==
    ASSUME PlugTypeOK
    PROVE  /\ event.todo \in Seq(Clients)
           /\ event.at \in {"none", "convert", "merge"} \cup Leaving
           /\ event.at = "none" => event = NoEvent
           /\ event.at # "none" => event.sensor \in SensorIds
           /\ event.at \in {"convert", "merge"} => event.online = TRUE
           /\ event.at \in Leaving => event.online = FALSE
           /\ event.at \in {"convert", "merge"} \cup Telling =>
                 event.todo # <<>> /\ Head(event.todo) \in Clients
           /\ event.at \in {"sensors", "map"} => event.todo = <<>>
<1>1. CASE event = NoEvent
  BY <1>1, EmptySeq DEF NoEvent, Leaving, Telling
<1>2. CASE event \in [at : {"sensors", "map"}, sensor : SensorIds, online : {FALSE}, todo : {<<>>}]
  BY <1>2, EmptySeq DEF Leaving, Telling
<1>3. CASE event \in [at : {"convert", "merge"}, sensor : SensorIds, online : {TRUE},
                      todo : Seq(Clients) \ {<<>>}]
  <2>1. event.todo \in Seq(Clients) /\ event.todo # <<>>
    BY <1>3
  <2> QED BY <1>3, <2>1, HeadTailProperties DEF Leaving, Telling
<1>4. CASE event \in [at : Telling, sensor : SensorIds, online : {FALSE},
                      todo : Seq(Clients) \ {<<>>}]
  <2>1. event.todo \in Seq(Clients) /\ event.todo # <<>>
    BY <1>4
  <2> QED BY <1>4, <2>1, HeadTailProperties DEF Leaving, Telling
<1> QED BY <1>1, <1>2, <1>3, <1>4 DEF PlugTypeOK, EventTypes, Telling

\* The next client, if there is one, is at the first stage, and no client that
\* was to be told after this one is forgotten.
LEMMA ToldNext ==
    ASSUME PlugTypeOK, event.at \in {"convert", "merge"} \cup Telling, Told
    PROVE  /\ event' \in EventTypes
           /\ Range(event.todo)' \subseteq Range(event.todo)
           /\ event.at \in {"convert", "merge"} => event'.at \in {"none", "convert"}
           /\ event.at \in Telling =>
                 \/ event' = NoEvent
                 \/ event'.at = "disable" /\ event'.sensor = event.sensor
           /\ event.at \in Telling =>
                 \A i \in DOMAIN event.todo : i # 1 =>
                    event'.at = "disable" /\ event'.sensor = event.sensor
                    /\ \E k \in DOMAIN event'.todo : event'.todo[k] = event.todo[i]
<1>1. event.todo \in Seq(Clients) /\ event.todo # <<>>
  BY EventFacts
<1>2. CASE Len(event.todo) = 1
  <2>1. event' = NoEvent
    BY <1>2 DEF Told
  <2>2. DOMAIN event.todo = {1}
    BY <1>1, <1>2
  <2> QED BY <2>1, <2>2 DEF EventTypes, NoEvent, Range
<1>3. CASE Len(event.todo) # 1
  <2> DEFINE next == Tail(event.todo)
  <2>1. /\ next \in Seq(Clients) /\ next # <<>> /\ Len(next) = Len(event.todo) - 1
        /\ \A k \in 1 .. Len(next) : next[k] = event.todo[k + 1]
    <3>1. Len(event.todo) \in Nat /\ Len(event.todo) # 0
      BY <1>1, EmptySeq
    <3>2. next \in Seq(Clients) /\ Len(next) = Len(event.todo) - 1
      BY <1>1, HeadTailProperties
    <3>3. \A k \in 1 .. Len(next) : next[k] = event.todo[k + 1]
      BY <1>1, HeadTailProperties
    <3>4. next # <<>>
      <4>1. Len(next) # 0
        BY <1>3, <3>1, <3>2
      <4> HIDE DEF next
      <4> QED BY <4>1
    <3> QED BY <3>2, <3>3, <3>4
  <2>2. /\ Len(event.todo) \in Nat
        /\ DOMAIN event.todo = 1 .. Len(event.todo) /\ DOMAIN next = 1 .. Len(next)
    BY <1>1, <2>1
  <2>3. event' = [at |-> IF event.online THEN "convert" ELSE "disable", sensor |-> event.sensor,
                  online |-> event.online, todo |-> next]
    <3>1. event' = [event EXCEPT !.todo = Tail(@),
                                 !.at = IF event.online THEN "convert" ELSE "disable"]
      BY <1>3 DEF Told
    <3>2. \E A, O : event \in [at : A, sensor : SensorIds, online : O, todo : Seq(Clients)]
      <4>1. event.at # "none"
        BY DEF Telling
      <4>2. event # NoEvent
        BY <4>1 DEF NoEvent
      <4>3. <<>> \in Seq(Clients)
        BY EmptySeq
      <4> QED BY <4>2, <4>3 DEF PlugTypeOK, EventTypes
    <3> QED BY <3>1, <3>2
  <2>4. event'.todo = next /\ event'.sensor = event.sensor
        /\ event'.at = IF event.online THEN "convert" ELSE "disable"
    BY <2>3
  <2>5. event' \in EventTypes
    <3>1. event.sensor \in SensorIds
      BY EventFacts DEF Telling
    <3>2. CASE event.at \in {"convert", "merge"}
      <4>1. event.online = TRUE
        BY <3>2, EventFacts
      <4> QED BY <2>1, <2>3, <3>1, <4>1 DEF EventTypes
    <3>3. CASE event.at \in Telling
      <4>1. event.online = FALSE
        BY <3>3, EventFacts DEF Leaving
      <4> QED BY <2>1, <2>3, <3>1, <4>1 DEF EventTypes
    <3> QED BY <3>1, <3>2, <3>3
  <2>6. Range(event.todo)' \subseteq Range(event.todo)
    BY <2>1, <2>2, <2>4 DEF Range
  <2>7. \A i \in DOMAIN event.todo : i # 1 =>
           \E k \in DOMAIN event'.todo : event'.todo[k] = event.todo[i]
    <3> SUFFICES ASSUME NEW i \in DOMAIN event.todo, i # 1
                 PROVE  \E k \in DOMAIN event'.todo : event'.todo[k] = event.todo[i]
      OBVIOUS
    <3>1. i - 1 \in 1 .. Len(next)
      BY <2>1, <2>2
    <3> HIDE DEF next
    <3>2. next[i - 1] = event.todo[i]
      BY <2>1, <2>2, <3>1
    <3> QED BY <2>2, <2>4, <3>1, <3>2
  <2> HIDE DEF next
  <2> QED BY <2>4, <2>5, <2>6, <2>7, EventFacts DEF Leaving
<1> QED BY <1>2, <1>3

\* A step on, in the same client.
LEMMA AtNext ==
    ASSUME PlugTypeOK, NEW label,
           \/ event.at \in {"convert", "merge"} /\ label \in {"convert", "merge"}
           \/ event.at \in Telling /\ label \in Telling
           \/ event.at = "sensors" /\ label = "map",
           At(label)
    PROVE  /\ event' \in EventTypes
           /\ event'.at = label /\ event'.sensor = event.sensor /\ event'.todo = event.todo
<1>1. PICK A, O, T : event \in [at : A, sensor : SensorIds, online : O, todo : T]
  <2>1. event # NoEvent
    BY DEF Telling, NoEvent
  <2>2. \/ event \in [at : {"sensors", "map"}, sensor : SensorIds, online : {FALSE},
                      todo : {<<>>}]
        \/ event \in [at : {"convert", "merge"}, sensor : SensorIds, online : {TRUE},
                      todo : Seq(Clients) \ {<<>>}]
        \/ event \in [at : {"disable", "list", "infos"}, sensor : SensorIds, online : {FALSE},
                      todo : Seq(Clients) \ {<<>>}]
    BY <2>1 DEF PlugTypeOK, EventTypes
  <2> QED BY <2>2
<1>2. event' = [at |-> label, sensor |-> event.sensor, online |-> event.online,
                todo |-> event.todo]
  BY <1>1 DEF At
<1>3. event.sensor \in SensorIds
  BY EventFacts DEF Telling
<1>4. CASE event.at \in {"convert", "merge"}
  <2>1. event.online = TRUE /\ event.todo \in Seq(Clients) \ {<<>>}
    BY <1>4, EventFacts
  <2> QED BY <1>2, <1>3, <1>4, <2>1 DEF EventTypes, Telling
<1>5. CASE event.at \in Telling
  <2>1. event.online = FALSE /\ event.todo \in Seq(Clients) \ {<<>>}
    BY <1>5, EventFacts DEF Leaving
  <2> QED BY <1>2, <1>3, <1>5, <2>1 DEF EventTypes, Telling
<1>6. CASE event.at = "sensors"
  <2>1. event.online = FALSE /\ event.todo = <<>>
    BY <1>6, EventFacts DEF Leaving
  <2> QED BY <1>2, <1>3, <1>6, <2>1 DEF EventTypes, Telling
<1> QED BY <1>4, <1>5, <1>6

\* Who was not the one just told of a sensor that went is told next.
LEMMA ToldKeeps ==
    ASSUME PlugTypeOK, event.at \in Telling, Told,
           NEW c, NEW i \in DOMAIN event.todo, i # 1, event.todo[i] = c
    PROVE  Handling(event.sensor, {"disable"})' /\ ToTell(c, {"disable"})'
BY ToldNext DEF Handling, ToTell

\* Nothing to do with a sensor that went away.
Steady ==
    \/ event' = event
    \/ event.at \in {"none", "convert", "merge"} /\ event'.at \in {"none", "convert", "merge"}

-----------------------------------------------------------------------------
(* A client that lists                                                     *)

\* Then who handles a sensor that went, and how far, does not change.
LEMMA SteadyHandles ==
    ASSUME Steady
    PROVE  event' = event \/ (event.at \notin Leaving /\ event'.at \notin Leaving)
BY DEF Steady, Leaving, Telling

\* A listing by one client keeps what it cannot disturb; where its thread is,
\* and who is told, is for each action to show.
LEMMA HearsKeeps ==
    ASSUME PlugInv, NEW c \in Clients, Hears(c), Steady,
           UNCHANGED <<device, plugged, on, events, clients, subs, subscribed, missed>>,
           event' \in EventTypes, user' \in [Clients -> UserTypes],
           \A d \in Clients : user'[d].at = "enable" => user'[d] = user[d]
    PROVE  PlugTypeOK' /\ Copies' /\ Ghosts' /\ Agreed' /\ Stale' /\ Off'
<1>0. PlugTypeOK
  BY DEF PlugInv
<1>1. PICK now \in Services, got \in SUBSET SensorIds, copy \in {Null} \cup SUBSET SensorIds :
        /\ Learns(service, now) /\ Lists(now)
        /\ list[c] \subseteq got /\ got \subseteq list[c] \cup SeenBy(service)
        /\ list' = [list EXCEPT ![c] = got]
        /\ infos' = [infos EXCEPT ![c] = copy]
        /\ (IF copy = Null THEN {} ELSE copy) \subseteq Copy(c) \cup got
  BY DEF Hears
<1>2. /\ list' \in [Clients -> SUBSET SensorIds]
      /\ infos' \in [Clients -> {Null} \cup SUBSET SensorIds]
      /\ list'[c] = got /\ infos'[c] = copy
      /\ \A d \in Clients \ {c} : list'[d] = list[d] /\ infos'[d] = infos[d]
  BY <1>0, <1>1 DEF PlugTypeOK
<1>3. /\ service' \in Services /\ service'.hdi \subseteq plugged \cup service.hdi
      /\ service'.sensors \subseteq SeenBy(service)
      /\ excused \subseteq excused' /\ excused' \subseteq SensorIds
      /\ event.at \in Telling => event.sensor \in excused' \/ event.sensor \notin service'.map
                                 \/ event.sensor \in service.map
  <2>1. now.map \subseteq SensorIds /\ excused \subseteq SensorIds /\ service' = now
    BY <1>0, <1>1 DEF Services, PlugTypeOK, Lists
  <2>2. excused \subseteq excused' /\ excused' \subseteq SensorIds
    BY <1>1, <2>1 DEF Lists
  <2>3. event.at \in Telling => excused' = excused \cup ({event.sensor} \cap (now.map \ service.map))
    BY <1>1 DEF Lists, Telling
  <2> QED BY <1>1, <2>1, <2>2, <2>3 DEF Learns
<1>4. PlugTypeOK'
  BY <1>0, <1>2, <1>3 DEF PlugTypeOK, Services
<1>5. Copies'
  <2> SUFFICES ASSUME NEW d \in Clients
               PROVE  Copy(d)' \subseteq list'[d] \cup (IF Erasing(d)' THEN {event'.sensor} ELSE {})
    BY DEF Copies
  <2>1. Copy(d) \subseteq list[d] \cup (IF Erasing(d) THEN {event.sensor} ELSE {})
    BY DEF PlugInv, Copies
  <2>2. Erasing(d) => Erasing(d)' /\ event'.sensor = event.sensor
    BY SteadyHandles DEF Erasing, Leaving, Telling
  <2>3. Copy(d)' \subseteq Copy(d) \cup list'[d] /\ list[d] \subseteq list'[d]
    BY <1>1, <1>2 DEF Copy
  <2> QED BY <2>1, <2>2, <2>3
<1>6. Ghosts'
  <2> SUFFICES ASSUME NEW s \in SensorIds, Gone(s)'
               PROVE  /\ s \notin service'.hdi
                      /\ ~Handling(s, {"sensors"})' => s \notin service'.sensors
                      /\ ~Handling(s, {"sensors", "map"})' => \A d \in Clients : s \in list'[d] =>
                            \/ s \in missed'[d]
                            \/ Handling(s, Telling)' /\ ToTell(d, {"disable", "list"})'
    BY DEF Ghosts
  <2>1. Gone(s) /\ s \notin plugged
    BY DEF Gone, Coming
  <2>2. s \notin service'.hdi
    BY <1>3, <2>1 DEF PlugInv, Ghosts
  <2>3. ASSUME ~Handling(s, {"sensors"})' PROVE s \notin service'.sensors
    <3>1. ~Handling(s, {"sensors"})
      BY <2>3, SteadyHandles DEF Handling, Leaving
    <3> QED BY <1>3, <2>1, <3>1 DEF PlugInv, Ghosts, SeenBy
  <2>4. ASSUME ~Handling(s, {"sensors", "map"})', NEW d \in Clients, s \in list'[d]
        PROVE  s \in missed'[d] \/ (Handling(s, Telling)' /\ ToTell(d, {"disable", "list"})')
    <3>1. ~Handling(s, {"sensors", "map"})
      BY <2>4, SteadyHandles DEF Handling, Leaving
    <3>2. s \notin SeenBy(service)
      BY <2>1, <3>1 DEF PlugInv, Ghosts, SeenBy, Handling
    <3>3. s \in list[d]
      BY <1>1, <1>2, <2>4, <3>2
    <3>4. s \in missed[d] \/ (Handling(s, Telling) /\ ToTell(d, {"disable", "list"}))
      BY <2>1, <3>1, <3>3 DEF PlugInv, Ghosts
    <3>5. Handling(s, Telling) => event' = event
      BY SteadyHandles DEF Handling, Leaving
    <3> QED BY <3>4, <3>5 DEF Handling, ToTell
  <2> QED BY <2>2, <2>3, <2>4
<1>7. Agreed'
  <2>1. \A d \in Clients : user'[d].at = "enable" => user'[d].sensor \in subscribed'[d]
    BY DEF PlugInv, Agreed
  <2>2. \A s \in SensorIds : \A d \in subs'[s] :
           d \in Range(clients)' /\ (s \in subscribed'[d] \/ s \in excused')
    BY <1>3 DEF PlugInv, Agreed
  <2> QED BY <2>1, <2>2 DEF Agreed
<1>8. Stale'
  <2> SUFFICES ASSUME NEW s \in SensorIds \ excused', Handling(s, Telling)'
               PROVE  /\ s \notin service'.map
                      /\ \A d \in Clients :
                            d \in subs'[s] \/ user'[d] = [at |-> "enable", sensor |-> s] =>
                               ToTell(d, {"disable"})'
    BY DEF Stale
  <2>1. event' = event /\ Handling(s, Telling)
    BY SteadyHandles DEF Handling, Leaving
  <2>2. s \notin excused
    BY <1>3
  <2>3. s \notin service.map /\ s \notin service'.map
    BY <1>3, <2>1, <2>2 DEF PlugInv, Stale, Handling
  <2>4. ASSUME NEW d \in Clients, d \in subs'[s] \/ user'[d] = [at |-> "enable", sensor |-> s]
        PROVE  ToTell(d, {"disable"})'
    <3>1. d \in subs[s] \/ user[d] = [at |-> "enable", sensor |-> s]
      BY <2>4
    <3>2. ToTell(d, {"disable"})
      BY <2>1, <2>2, <3>1 DEF PlugInv, Stale
    <3> QED BY <2>1, <3>2 DEF ToTell
  <2> QED BY <2>3, <2>4
<1>9. Off'
  <2> SUFFICES ASSUME NEW s \in SensorIds \ excused', subs'[s] # {} /\ s \notin on'
               PROVE  Coming(s)' \/ Handling(s, Leaving)'
    BY DEF Off
  <2>1. Coming(s) \/ Handling(s, Leaving)
    BY <1>3 DEF PlugInv, Off
  <2>2. Handling(s, Leaving) => Handling(s, Leaving)'
    BY SteadyHandles DEF Handling
  <2> QED BY <2>1, <2>2 DEF Coming
<1> QED BY <1>4, <1>5, <1>6, <1>7, <1>8, <1>9

\* The users of the other clients, and of this one if it goes on so.
LEMMA UserGoes ==
    ASSUME PlugTypeOK, NEW c \in Clients, NEW at, NEW s, [at |-> at, sensor |-> s] \in UserTypes,
           Goes(c, at, s)
    PROVE  /\ user' \in [Clients -> UserTypes]
           /\ user'[c] = [at |-> at, sensor |-> s] /\ user'[c].at = at /\ user'[c].sensor = s
           /\ \A d \in Clients \ {c} : user'[d] = user[d]
<1>1. user' = [user EXCEPT ![c] = [at |-> at, sensor |-> s]]
  BY DEF Goes
<1>2. user \in [Clients -> UserTypes]
  BY DEF PlugTypeOK
<1> HIDE DEF UserTypes
<1> QED BY <1>1, <1>2

\* The places of a user thread.
LEMMA IdleTypes ==
    /\ \A at \in {"none", "listed", "idle"} : [at |-> at, sensor |-> Null] \in UserTypes
    /\ \A at \in {"device", "enable"}, s \in SensorIds : [at |-> at, sensor |-> s] \in UserTypes
BY DEF UserTypes

\* Whom the service tells of sensors does not change.
LEMMA MembersStay ==
    ASSUME PlugInv, UNCHANGED clients, Range(event.todo)' \subseteq Range(event.todo),
           \A c \in Clients : user'[c].at \in {"none", "listed"} <=> user[c].at \in {"none", "listed"},
           \A c \in Clients : user'[c].at = "none" =>
              user[c].at = "none" /\ list'[c] = list[c] /\ infos'[c] = infos[c]
    PROVE  Members'
BY DEF PlugInv, Members

\* The client being told is registered.
LEMMA RegisteredHead ==
    ASSUME PlugInv, event.at \in {"convert", "merge"} \cup Telling
    PROVE  /\ Head(event.todo) \in Clients
           /\ user[Head(event.todo)].at \notin {"none", "listed"}
<1>1. event.todo \in Seq(Clients) /\ event.todo # <<>>
  BY EventFacts DEF PlugInv
<1>2. Head(event.todo) = event.todo[1] /\ 1 \in DOMAIN event.todo
  BY <1>1
<1>3. Head(event.todo) \in Range(event.todo)
  BY <1>2 DEF Range
<1>4. Head(event.todo) \in Clients
  BY <1>1, HeadTailProperties
<1>5. /\ Range(event.todo) \subseteq Range(clients)
      /\ \A c \in Clients : c \in Range(clients) => user[c].at \notin {"none", "listed"}
  BY DEF PlugInv, Members
<1>6. Head(event.todo) \in Range(clients)
  BY <1>3, <1>5
<1> QED BY <1>4, <1>5, <1>6

\* GetDeviceSensors in a client that is told of a new sensor: its first half
LEMMA ToldConvertKeeps ==
    ASSUME PlugInv, ToldConvert
    PROVE  PlugInv'
<1> DEFINE c == Head(event.todo)
<1>1. /\ event.at = "convert" /\ InfosFree(c) /\ Convert(c)
      /\ IF infos'[c] = Null THEN Told ELSE At("merge")
      /\ UNCHANGED <<device, plugged, on, events, plugs, clients, subs, subscribed, user, missed>>
  BY DEF ToldConvert, driverVars
<1>2. PlugTypeOK
  BY DEF PlugInv
<1>3. c \in Clients /\ user[c].at \notin {"none", "listed"}
  BY <1>1, RegisteredHead
<1>4. Hears(c)
  BY <1>1, <1>2, <1>3, ConvertHears
<1>5. \/ event'.at \in {"none", "convert"}
      \/ event'.at = "merge" /\ event'.todo = event.todo /\ infos'[c] # Null
  BY <1>1, <1>2, ToldNext, AtNext
<1>6. event' \in EventTypes /\ Range(event.todo)' \subseteq Range(event.todo)
  BY <1>1, <1>2, ToldNext, AtNext
<1>7. Steady
  BY <1>1, <1>5 DEF Steady
<1>8. user' \in [Clients -> UserTypes]
  BY <1>1, <1>2 DEF PlugTypeOK
<1>9. \A d \in Clients \ {c} : list'[d] = list[d] /\ infos'[d] = infos[d]
  BY <1>2, <1>4 DEF Hears, PlugTypeOK
<1>10. PlugTypeOK' /\ Copies' /\ Ghosts' /\ Agreed' /\ Stale' /\ Off'
  BY <1>1, <1>3, <1>4, <1>6, <1>7, <1>8, HearsKeeps
<1>11. Members'
  BY <1>1, <1>3, <1>6, <1>9, MembersStay
<1>12. Holding'
  BY <1>1, <1>5, <1>9 DEF PlugInv, Holding, InfosFree
<1> QED BY <1>10, <1>11, <1>12 DEF PlugInv

\* and its second.
LEMMA ToldMergeKeeps ==
    ASSUME PlugInv, ToldMerge
    PROVE  PlugInv'
<1> DEFINE c == Head(event.todo)
<1>1. /\ event.at = "merge" /\ UpdateSensorInfosCache(c, device[event.sensor]) /\ Told
      /\ UNCHANGED <<device, plugged, on, events, plugs, clients, subs, subscribed, user, missed>>
  BY DEF ToldMerge, driverVars
<1>2. PlugTypeOK
  BY DEF PlugInv
<1>3. c \in Clients /\ user[c].at \notin {"none", "listed"}
  BY <1>1, RegisteredHead
<1>4. Hears(c)
  BY <1>1, <1>2, <1>3, UpdateHears DEF PlugInv, Holding
<1>5. event'.at \in {"none", "convert"}
  BY <1>1, <1>2, ToldNext
<1>6. event' \in EventTypes /\ Range(event.todo)' \subseteq Range(event.todo)
  BY <1>1, <1>2, ToldNext
<1>7. Steady
  BY <1>1, <1>5 DEF Steady
<1>8. user' \in [Clients -> UserTypes]
  BY <1>1, <1>2 DEF PlugTypeOK
<1>9. \A d \in Clients \ {c} : list'[d] = list[d] /\ infos'[d] = infos[d]
  BY <1>2, <1>4 DEF Hears, PlugTypeOK
<1>10. PlugTypeOK' /\ Copies' /\ Ghosts' /\ Agreed' /\ Stale' /\ Off'
  BY <1>1, <1>3, <1>4, <1>6, <1>7, <1>8, HearsKeeps
<1>11. Members'
  BY <1>1, <1>3, <1>6, <1>9, MembersStay
<1>12. Holding'
  BY <1>1, <1>5, <1>9 DEF PlugInv, Holding
<1> QED BY <1>10, <1>11, <1>12 DEF PlugInv

\* A client fetches its first list.
LEMMA ConnectKeeps ==
    ASSUME PlugInv, NEW c \in Clients, Connect(c)
    PROVE  PlugInv'
<1>1. /\ user[c].at = "none" /\ Goes(c, "listed", Null)
      /\ UNCHANGED <<device, plugged, on, events, plugs, clients, subs, subscribed, event,
                     infos, missed>>
  BY DEF Connect, driverVars, NoUser
<1>2. PlugTypeOK /\ Members
  BY DEF PlugInv
<1>3. Hears(c)
  BY <1>2, ConnectHears
<1>4. Steady /\ event' \in EventTypes
  BY <1>1, <1>2 DEF Steady, PlugTypeOK
<1>5. user' \in [Clients -> UserTypes] /\ user'[c].at = "listed"
      /\ \A d \in Clients \ {c} : user'[d] = user[d]
  BY <1>1, <1>2, UserGoes, IdleTypes
<1>6. \A d \in Clients \ {c} : list'[d] = list[d] /\ infos'[d] = infos[d]
  BY <1>2, <1>3 DEF Hears, PlugTypeOK
<1>7. PlugTypeOK' /\ Copies' /\ Ghosts' /\ Agreed' /\ Stale' /\ Off'
  BY <1>1, <1>3, <1>4, <1>5, HearsKeeps
<1>8. Members'
  BY <1>1, <1>5, <1>6, MembersStay
<1>9. Holding'
  BY <1>1, <1>5 DEF PlugInv, Holding
<1> QED BY <1>7, <1>8, <1>9 DEF PlugInv

\* A user lists all sensors,
LEMMA GetAllSensorsKeeps ==
    ASSUME PlugInv, NEW c \in Clients, GetAllSensors(c)
    PROVE  PlugInv'
<1>1. /\ user[c] = Idle /\ InfosFree(c)
      /\ UNCHANGED <<device, plugged, on, events, plugs, clients, subs, event, subscribed,
                     user, missed>>
  BY DEF GetAllSensors, driverVars
<1>2. PlugTypeOK
  BY DEF PlugInv
<1>3. Hears(c)
  BY <1>2, AllHears
<1>4. Steady /\ event' \in EventTypes /\ user' \in [Clients -> UserTypes]
  BY <1>1, <1>2 DEF Steady, PlugTypeOK
<1>5. user[c].at = "idle"
  BY <1>1 DEF Idle
<1>6. \A d \in Clients \ {c} : list'[d] = list[d] /\ infos'[d] = infos[d]
  BY <1>2, <1>3 DEF Hears, PlugTypeOK
<1>7. PlugTypeOK' /\ Copies' /\ Ghosts' /\ Agreed' /\ Stale' /\ Off'
  BY <1>1, <1>3, <1>4, HearsKeeps
<1>8. Members'
  BY <1>1, <1>5, <1>6, MembersStay
<1>9. Holding'
  <2>1. event.at = "merge" => Head(event.todo) \in Clients
    BY RegisteredHead
  <2> QED BY <1>1, <1>5, <1>6, <2>1 DEF PlugInv, Holding, InfosFree
<1> QED BY <1>7, <1>8, <1>9 DEF PlugInv

\* or those of a device: the first half
LEMMA GetDeviceSensorsKeeps ==
    ASSUME PlugInv, NEW c \in Clients, NEW s \in SensorIds, GetDeviceSensors(c, s)
    PROVE  PlugInv'
<1>1. /\ user[c].at = "idle" /\ InfosFree(c) /\ Convert(c)
      /\ IF infos'[c] = Null THEN UNCHANGED user ELSE Goes(c, "device", s)
      /\ UNCHANGED <<device, plugged, on, events, plugs, clients, subs, event, subscribed,
                     missed>>
  BY DEF GetDeviceSensors, driverVars, Idle
<1>2. PlugTypeOK
  BY DEF PlugInv
<1>3. Hears(c)
  BY <1>1, <1>2, ConvertHears
<1>4. Steady /\ event' \in EventTypes
  BY <1>1, <1>2 DEF Steady, PlugTypeOK
<1>5. /\ user' \in [Clients -> UserTypes]
      /\ user'[c].at = "idle" \/ (user'[c].at = "device" /\ infos'[c] # Null)
      /\ \A d \in Clients \ {c} : user'[d] = user[d]
  <2>1. CASE infos'[c] = Null
    <3>1. user' = user
      BY <1>1, <2>1
    <3> QED BY <1>1, <1>2, <3>1 DEF PlugTypeOK
  <2>2. CASE infos'[c] # Null
    BY <1>1, <1>2, <2>2, UserGoes, IdleTypes
  <2> QED BY <2>1, <2>2
<1>6. \A d \in Clients \ {c} : list'[d] = list[d] /\ infos'[d] = infos[d]
  BY <1>2, <1>3 DEF Hears, PlugTypeOK
<1>7. PlugTypeOK' /\ Copies' /\ Ghosts' /\ Agreed' /\ Stale' /\ Off'
  BY <1>1, <1>3, <1>4, <1>5, HearsKeeps
<1>8. Members'
  BY <1>1, <1>5, <1>6, MembersStay
<1>9. Holding'
  <2>1. event.at = "merge" => Head(event.todo) \in Clients
    BY RegisteredHead
  <2> QED BY <1>1, <1>5, <1>6, <2>1 DEF PlugInv, Holding, InfosFree
<1> QED BY <1>7, <1>8, <1>9 DEF PlugInv

\* and the second.
LEMMA GetDeviceSensorsDoneKeeps ==
    ASSUME PlugInv, NEW c \in Clients, GetDeviceSensorsDone(c)
    PROVE  PlugInv'
<1>1. /\ user[c].at = "device" /\ UpdateSensorInfosCache(c, device[user[c].sensor])
      /\ Goes(c, "idle", Null)
      /\ UNCHANGED <<device, plugged, on, events, plugs, clients, subs, event, subscribed,
                     missed>>
  BY DEF GetDeviceSensorsDone, driverVars
<1>2. PlugTypeOK
  BY DEF PlugInv
<1>3. Hears(c)
  BY <1>1, <1>2, UpdateHears DEF PlugInv, Holding
<1>4. Steady /\ event' \in EventTypes
  BY <1>1, <1>2 DEF Steady, PlugTypeOK
<1>5. user' \in [Clients -> UserTypes] /\ user'[c].at = "idle"
      /\ \A d \in Clients \ {c} : user'[d] = user[d]
  BY <1>1, <1>2, UserGoes, IdleTypes
<1>6. \A d \in Clients \ {c} : list'[d] = list[d] /\ infos'[d] = infos[d]
  BY <1>2, <1>3 DEF Hears, PlugTypeOK
<1>7. PlugTypeOK' /\ Copies' /\ Ghosts' /\ Agreed' /\ Stale' /\ Off'
  BY <1>1, <1>3, <1>4, <1>5, HearsKeeps
<1>8. Members'
  BY <1>1, <1>5, <1>6, MembersStay
<1>9. Holding'
  <2>1. event.at = "merge" => Head(event.todo) \in Clients /\ Head(event.todo) # c
    BY <1>1, RegisteredHead DEF PlugInv, Holding
  <2> QED BY <1>1, <1>5, <1>6, <2>1 DEF PlugInv, Holding
<1> QED BY <1>7, <1>8, <1>9 DEF PlugInv

-----------------------------------------------------------------------------
(* The driver                                                              *)

Reports == [sensor : SensorIds, online : BOOLEAN]

\* A report is added to those on their way,
LEMMA ReportAdded ==
    ASSUME PlugTypeOK, NEW e \in Reports, events' = Append(events, e)
    PROVE  /\ events' \in Seq(Reports)
           /\ \A s : Coming(s) => Coming(s)'
           /\ \A s : e = [sensor |-> s, online |-> FALSE] => Coming(s)'
<1>1. events \in Seq(Reports)
  BY DEF PlugTypeOK, Reports
<1>2. /\ events' \in Seq(Reports) /\ Len(events') = Len(events) + 1
      /\ \A i \in 1 .. Len(events) : events'[i] = events[i]
      /\ events'[Len(events) + 1] = e
  BY <1>1, AppendProperties
<1>3. DOMAIN events = 1 .. Len(events) /\ DOMAIN events' = 1 .. (Len(events) + 1)
      /\ Len(events) \in Nat
  BY <1>1, <1>2, LenProperties
<1>4. Len(events) + 1 \in DOMAIN events' /\ DOMAIN events \subseteq DOMAIN events'
  BY <1>3
<1> QED BY <1>2, <1>3, <1>4 DEF Coming

\* and one is taken from them.
LEMMA ReportTaken ==
    ASSUME PlugTypeOK, events # <<>>, events' = Tail(events)
    PROVE  /\ events' \in Seq(Reports) /\ Head(events) \in Reports
           /\ \A s : Coming(s) => Coming(s)' \/ Head(events) = [sensor |-> s, online |-> FALSE]
<1>1. events \in Seq(Reports)
  BY DEF PlugTypeOK, Reports
<1>2. /\ events' \in Seq(Reports) /\ Len(events') = Len(events) - 1
      /\ \A i \in 1 .. Len(events') : events'[i] = events[i + 1]
      /\ Head(events) \in Reports /\ Head(events) = events[1]
  BY <1>1, HeadTailProperties
<1>3. DOMAIN events = 1 .. Len(events) /\ DOMAIN events' = 1 .. Len(events')
      /\ Len(events) \in Nat /\ Len(events') \in Nat
  BY <1>1, <1>2, LenProperties
<1>4. ASSUME NEW s, Coming(s)
      PROVE  Coming(s)' \/ Head(events) = [sensor |-> s, online |-> FALSE]
  <2>1. PICK i \in DOMAIN events : events[i] = [sensor |-> s, online |-> FALSE]
    BY <1>4 DEF Coming
  <2>2. CASE i = 1
    BY <1>2, <2>1, <2>2
  <2>3. CASE i # 1
    <3>1. i - 1 \in 1 .. Len(events') /\ i = (i - 1) + 1
      BY <1>2, <1>3, <2>3
    <3>2. events'[i - 1] = events[i]
      BY <1>2, <3>1
    <3> QED BY <1>3, <2>1, <3>1, <3>2 DEF Coming
  <2> QED BY <2>2, <2>3
<1> QED BY <1>2, <1>4

\* A sensor comes or goes.
LEMMA DriverKeeps ==
    ASSUME PlugInv, NEW s \in SensorIds, Plug(s) \/ Unplug(s)
    PROVE  PlugInv'
<1> DEFINE e == [sensor |-> s, online |-> s \notin plugged]
<1>1. UNCHANGED <<device, service, clients, subs, event, list, infos, subscribed, user, missed,
                  excused>>
  BY DEF Plug, Unplug, clientVars
<1>2. PlugTypeOK
  BY DEF PlugInv
<1>3. \/ s \notin plugged /\ plugged' = plugged \cup {s} /\ on' = on
         /\ events' = Append(events, [sensor |-> s, online |-> TRUE])
      \/ s \in plugged /\ plugged' = plugged \ {s} /\ on' = on \ {s}
         /\ events' = Append(events, [sensor |-> s, online |-> FALSE])
  BY DEF Plug, Unplug
<1>4. /\ events' \in Seq(Reports) /\ \A u : Coming(u) => Coming(u)'
      /\ s \in plugged => Coming(s)'
  BY <1>2, <1>3, ReportAdded DEF Reports
<1>5. PlugTypeOK'
  BY <1>1, <1>2, <1>3, <1>4 DEF PlugTypeOK, Reports, EventTypes, NoEvent, UserTypes
<1>6. Members' /\ Holding' /\ Copies' /\ Agreed' /\ Stale'
  BY <1>1 DEF PlugInv, Members, Holding, Copies, Agreed, Stale, Copy, Erasing, Handling, ToTell
<1>7. Ghosts'
  <2>1. \A u \in SensorIds : Gone(u)' => Gone(u)
    BY <1>3, <1>4 DEF Gone
  <2> QED BY <1>1, <2>1 DEF PlugInv, Ghosts, Handling, ToTell
<1>8. Off'
  <2>1. \A u \in SensorIds : u \notin on' => u \notin on \/ Coming(u)'
    BY <1>3, <1>4
  <2> QED BY <1>1, <1>4, <2>1 DEF PlugInv, Off, Handling
<1> QED BY <1>5, <1>6, <1>7, <1>8 DEF PlugInv

-----------------------------------------------------------------------------
(* The service                                                             *)

\* SendMsgToClient: every registered client is to be told.
LEMMA Sent ==
    ASSUME PlugTypeOK, NEW s \in SensorIds, NEW online \in BOOLEAN, Send(s, online)
    PROVE  /\ event' \in EventTypes
           /\ event'.todo = clients
           /\ clients = <<>> => event'.at = "none"
           /\ clients # <<>> => /\ event'.sensor = s
                                /\ event'.at = IF online THEN "convert" ELSE "disable"
           /\ missed' \in [Clients -> SUBSET SensorIds]
           /\ \A c \in Clients : missed[c] \subseteq missed'[c]
           /\ ~online => \A c \in Clients :
                 user[c].at = "listed" /\ s \in list[c] => s \in missed'[c]
<1>1. clients \in Seq(Clients) /\ missed \in [Clients -> SUBSET SensorIds]
      /\ list \in [Clients -> SUBSET SensorIds]
  BY DEF PlugTypeOK
<1>2. missed' = [c \in Clients |->
          IF ~online /\ user[c].at = "listed" THEN missed[c] \cup ({s} \cap list[c])
          ELSE missed[c]]
  BY DEF Send
<1>3. CASE clients = <<>>
  <2>1. event' = NoEvent
    BY <1>3 DEF Send
  <2> QED BY <1>1, <1>2, <1>3, <2>1 DEF EventTypes, NoEvent
<1>4. CASE clients # <<>>
  <2>1. event' = [at |-> IF online THEN "convert" ELSE "disable", sensor |-> s,
                  online |-> online, todo |-> clients]
    BY <1>4 DEF Send
  <2>2. event' \in EventTypes
    <3>1. CASE online = TRUE
      BY <1>1, <1>4, <2>1, <3>1 DEF EventTypes
    <3>2. CASE online = FALSE
      BY <1>1, <1>4, <2>1, <3>2 DEF EventTypes
    <3> QED BY <3>1, <3>2
  <2> QED BY <1>1, <1>2, <1>4, <2>1, <2>2
<1> QED BY <1>3, <1>4

\* The service hears of a new sensor,
LEMMA SensorOnlineKeeps ==
    ASSUME PlugInv, SensorOnline
    PROVE  PlugInv'
<1> DEFINE s == Head(events).sensor
<1>1. /\ event.at = "none" /\ events # <<>> /\ Head(events).online
      /\ events' = Tail(events) /\ Send(s, TRUE)
      /\ service' = IF s \in service.map THEN service ELSE AskDevice(service, device[s]).lists
      /\ UNCHANGED <<device, plugged, on, plugs, clients, subs, list, infos, subscribed, user,
                     excused>>
  BY DEF SensorOnline, clientVars
<1>2. PlugTypeOK
  BY DEF PlugInv
<1>3. /\ events' \in Seq(Reports) /\ Head(events) \in Reports
      /\ \A u : Coming(u) => Coming(u)'
  BY <1>1, <1>2, ReportTaken
<1>4. s \in SensorIds
  BY <1>3 DEF Reports
<1>5. service' \in Services /\ Learns(service, service')
  BY <1>1, <1>2, AskDeviceLearns DEF PlugTypeOK, Services, Learns, SeenBy
<1>6. /\ event' \in EventTypes /\ event'.todo = clients /\ event'.at \in {"none", "convert"}
      /\ missed' \in [Clients -> SUBSET SensorIds]
      /\ \A c \in Clients : missed[c] \subseteq missed'[c]
  BY <1>1, <1>2, <1>4, Sent
<1>7. PlugTypeOK'
  BY <1>1, <1>2, <1>3, <1>5, <1>6 DEF PlugTypeOK, Reports, Services
<1>8. \A u : ~Handling(u, Leaving) /\ ~Handling(u, Leaving)' /\ ~Handling(u, Telling)'
  BY <1>1, <1>6 DEF Handling, Leaving, Telling
<1>9. Members' /\ Holding'
  BY <1>1, <1>6 DEF PlugInv, Members, Holding
<1>10. Copies'
  <2>1. \A c : ~Erasing(c) /\ Copy(c)' = Copy(c)
    BY <1>1 DEF Erasing, Copy
  <2> QED BY <1>1, <2>1 DEF PlugInv, Copies
<1>11. Agreed' /\ Stale' /\ Off'
  BY <1>1, <1>3, <1>8 DEF PlugInv, Agreed, Stale, Off
<1>12. Ghosts'
  <2> SUFFICES ASSUME NEW u \in SensorIds, Gone(u)'
               PROVE  /\ u \notin service'.hdi /\ u \notin service'.sensors
                      /\ \A c \in Clients : u \in list'[c] => u \in missed'[c]
    BY DEF Ghosts
  <2>1. Gone(u) /\ u \notin plugged
    BY <1>1, <1>3 DEF Gone
  <2>2. u \notin service.hdi /\ u \notin service.sensors
        /\ \A c \in Clients : u \in list[c] => u \in missed[c]
    BY <1>1, <2>1 DEF PlugInv, Ghosts, Handling, Telling
  <2> QED BY <1>1, <1>5, <1>6, <2>1, <2>2 DEF Learns, SeenBy
<1> QED BY <1>7, <1>9, <1>10, <1>11, <1>12 DEF PlugInv

\* or of one that went: the list of the HDI interface,
LEMMA PlugEraseSensorDataKeeps ==
    ASSUME PlugInv, PlugEraseSensorData
    PROVE  PlugInv'
<1>0. PICK s : s = Head(events).sensor
  OBVIOUS
<1>1. /\ event.at = "none" /\ events # <<>> /\ ~Head(events).online
      /\ events' = Tail(events)
      /\ service' = [service EXCEPT !.hdi = @ \ {s}]
      /\ event' = [NoEvent EXCEPT !.at = "sensors", !.sensor = s]
      /\ UNCHANGED <<device, plugged, on, plugs, clients, subs, list, infos, subscribed, user,
                     missed, excused>>
  BY <1>0 DEF PlugEraseSensorData, clientVars
<1>2. PlugTypeOK
  BY DEF PlugInv
<1>3. /\ events' \in Seq(Reports) /\ Head(events) \in Reports /\ s \in SensorIds
      /\ \A u : Coming(u) => Coming(u)' \/ u = s
  BY <1>0, <1>1, <1>2, ReportTaken DEF Reports
<1>4. service' = [hdi |-> service.hdi \ {s}, sensors |-> service.sensors, map |-> service.map]
      /\ service' \in Services
  BY <1>1, <1>2 DEF PlugTypeOK, Services
<1>5. event' = [at |-> "sensors", sensor |-> s, online |-> FALSE, todo |-> <<>>]
  BY <1>1 DEF NoEvent
<1>6. event' \in EventTypes /\ event'.at = "sensors" /\ event'.sensor = s /\ event'.todo = <<>>
  BY <1>3, <1>5 DEF EventTypes
<1>7. PlugTypeOK'
  BY <1>1, <1>2, <1>3, <1>4, <1>6 DEF PlugTypeOK, Reports, Services
<1>8. Members' /\ Holding'
  BY <1>1, <1>6 DEF PlugInv, Members, Holding, Range
<1>9. Copies'
  <2>1. \A c : ~Erasing(c) /\ Copy(c)' = Copy(c)
    BY <1>1 DEF Erasing, Copy
  <2> QED BY <1>1, <2>1 DEF PlugInv, Copies
<1>10. Agreed' /\ Stale'
  BY <1>1, <1>6 DEF PlugInv, Agreed, Stale, Handling, Telling
<1>11. Off'
  <2>1. Handling(s, Leaving)' /\ \A u : ~Handling(u, Leaving)
    BY <1>1, <1>6 DEF Handling, Leaving, Telling
  <2> QED BY <1>1, <1>3, <2>1 DEF PlugInv, Off
<1>12. Ghosts'
  <2> SUFFICES ASSUME NEW u \in SensorIds, Gone(u)'
               PROVE  /\ u \notin service'.hdi
                      /\ u # s => /\ u \notin service'.sensors
                                  /\ \A c \in Clients : u \in list'[c] => u \in missed'[c]
    BY <1>6 DEF Ghosts, Handling
  <2>1. CASE u = s
    BY <1>4, <2>1
  <2>2. CASE u # s
    <3>1. Gone(u)
      BY <1>1, <1>3, <2>2 DEF Gone
    <3>2. u \notin service.hdi /\ u \notin service.sensors
          /\ \A c \in Clients : u \in list[c] => u \in missed[c]
      BY <1>1, <3>1 DEF PlugInv, Ghosts, Handling, Telling
    <3> QED BY <1>1, <1>4, <3>2
  <2> QED BY <2>1, <2>2
<1> QED BY <1>7, <1>8, <1>9, <1>10, <1>11, <1>12 DEF PlugInv

\* sensors_,
LEMMA EraseSensorKeeps ==
    ASSUME PlugInv, EraseSensor
    PROVE  PlugInv'
<1>0. PICK s : s = event.sensor
  OBVIOUS
<1>1. /\ event.at = "sensors" /\ At("map")
      /\ service' = [service EXCEPT !.sensors = @ \ {s}]
      /\ UNCHANGED <<device, plugged, on, events, plugs, clients, subs, list, infos, subscribed,
                     user, missed, excused>>
  BY <1>0 DEF EraseSensor, clientVars, driverVars
<1>2. PlugTypeOK /\ s \in SensorIds
  BY <1>0, <1>1, EventFacts DEF PlugInv
<1>3. service' = [hdi |-> service.hdi, sensors |-> service.sensors \ {s}, map |-> service.map]
      /\ service' \in Services
  BY <1>1, <1>2 DEF PlugTypeOK, Services
<1>4. event' \in EventTypes /\ event'.at = "map" /\ event'.sensor = s
      /\ event'.todo = event.todo
  BY <1>0, <1>1, <1>2, AtNext
<1>5. PlugTypeOK'
  BY <1>1, <1>2, <1>3, <1>4 DEF PlugTypeOK, Services
<1>6. Members' /\ Holding'
  BY <1>1, <1>4 DEF PlugInv, Members, Holding
<1>7. Copies'
  <2>1. \A c : ~Erasing(c) /\ Copy(c)' = Copy(c)
    BY <1>1 DEF Erasing, Copy
  <2> QED BY <1>1, <2>1 DEF PlugInv, Copies
<1>8. Agreed' /\ Stale'
  BY <1>1, <1>4 DEF PlugInv, Agreed, Stale, Handling, Telling
<1>9. Off'
  <2>1. Handling(s, Leaving)' /\ \A u : Handling(u, Leaving) => u = s
    BY <1>0, <1>4 DEF Handling, Leaving
  <2> QED BY <1>1, <2>1 DEF PlugInv, Off, Coming
<1>10. Ghosts'
  <2> SUFFICES ASSUME NEW u \in SensorIds, Gone(u)'
               PROVE  /\ u \notin service'.hdi
                      /\ u \notin service'.sensors
                      /\ u # s => \A c \in Clients : u \in list'[c] => u \in missed'[c]
    BY <1>4 DEF Ghosts, Handling
  <2>1. Gone(u)
    BY <1>1 DEF Gone, Coming
  <2>2. /\ u \notin service.hdi
        /\ u # s => /\ u \notin service.sensors
                    /\ \A c \in Clients : u \in list[c] => u \in missed[c]
    BY <1>0, <2>1 DEF PlugInv, Ghosts, Handling
  <2> QED BY <1>1, <1>3, <2>2
<1> QED BY <1>5, <1>6, <1>7, <1>8, <1>9, <1>10 DEF PlugInv

\* and sensorMap_, after which the clients are told.
LEMMA EraseFromMapKeeps ==
    ASSUME PlugInv, EraseFromMap
    PROVE  PlugInv'
<1>0. PICK s : s = event.sensor
  OBVIOUS
<1>1. /\ event.at = "map" /\ Send(s, FALSE)
      /\ service' = [service EXCEPT !.map = @ \ {s}]
      /\ UNCHANGED <<device, plugged, on, events, plugs, clients, subs, list, infos, subscribed,
                     user, excused>>
  BY <1>0 DEF EraseFromMap, clientVars, driverVars
<1>2. PlugTypeOK /\ s \in SensorIds
  BY <1>0, <1>1, EventFacts DEF PlugInv, Leaving
<1>3. service' = [hdi |-> service.hdi, sensors |-> service.sensors, map |-> service.map \ {s}]
      /\ service' \in Services
  BY <1>1, <1>2 DEF PlugTypeOK, Services
<1>4. /\ event' \in EventTypes /\ event'.todo = clients
      /\ clients = <<>> => event'.at = "none"
      /\ clients # <<>> => event'.sensor = s /\ event'.at = "disable"
      /\ missed' \in [Clients -> SUBSET SensorIds]
      /\ \A c \in Clients : missed[c] \subseteq missed'[c]
      /\ \A c \in Clients : user[c].at = "listed" /\ s \in list[c] => s \in missed'[c]
  BY <1>1, <1>2, Sent
<1>5. PlugTypeOK'
  BY <1>1, <1>2, <1>3, <1>4 DEF PlugTypeOK, Services
<1>6. Members' /\ Holding'
  BY <1>1, <1>4 DEF PlugInv, Members, Holding
<1>7. Copies'
  <2>1. \A c : ~Erasing(c) /\ Copy(c)' = Copy(c)
    BY <1>1 DEF Erasing, Copy
  <2> QED BY <1>1, <2>1 DEF PlugInv, Copies
<1>8. Agreed'
  BY <1>1, <1>4 DEF PlugInv, Agreed
\* Every client that may know s is to be told.
<1>9. ASSUME NEW c \in Clients, user[c].at \notin {"none", "listed"}
      PROVE  clients # <<>> /\ ToTell(c, {"disable"})' /\ ToTell(c, {"disable", "list"})'
  <2>1. c \in Range(clients)
    BY <1>9 DEF PlugInv, Members
  <2>2. PICK i \in DOMAIN clients : clients[i] = c
    BY <2>1 DEF Range
  <2>3. clients # <<>>
    BY <2>2
  <2> QED BY <1>4, <2>2, <2>3 DEF ToTell
<1>10. Stale'
  <2> SUFFICES ASSUME NEW u \in SensorIds \ excused, Handling(u, Telling)'
               PROVE  /\ u \notin service'.map
                      /\ \A d \in Clients :
                            d \in subs[u] \/ user[d] = [at |-> "enable", sensor |-> u] =>
                               ToTell(d, {"disable"})'
    BY <1>1 DEF Stale
  <2>1. u = s
    BY <1>4 DEF Handling, Telling
  <2>2. u \notin service'.map
    BY <1>3, <2>1
  <2>3. ASSUME NEW d \in Clients, d \in subs[u] \/ user[d] = [at |-> "enable", sensor |-> u]
        PROVE  user[d].at \notin {"none", "listed"}
    BY <2>3 DEF PlugInv, Agreed, Members
  <2> QED BY <1>9, <2>2, <2>3
<1>11. Off'
  <2> SUFFICES ASSUME NEW u \in SensorIds \ excused, subs[u] # {}, u \notin on
               PROVE  Coming(u)' \/ Handling(u, Leaving)'
    BY <1>1 DEF Off
  <2>1. Coming(u) \/ u = s
    BY <1>0 DEF PlugInv, Off, Handling
  <2>2. CASE u = s
    <3>1. PICK c \in subs[u] : c \in Clients
      BY <1>2 DEF PlugTypeOK
    <3>2. clients # <<>>
      BY <1>9, <3>1 DEF PlugInv, Agreed, Members
    <3> QED BY <1>4, <2>2, <3>2 DEF Handling, Leaving, Telling
  <2> QED BY <1>1, <2>1, <2>2 DEF Coming
<1>12. Ghosts'
  <2> SUFFICES ASSUME NEW u \in SensorIds, Gone(u)'
               PROVE  /\ u \notin service'.hdi
                      /\ u \notin service'.sensors
                      /\ \A c \in Clients : u \in list'[c] =>
                            \/ u \in missed'[c]
                            \/ Handling(u, Telling)' /\ ToTell(c, {"disable", "list"})'
    BY DEF Ghosts
  <2>1. Gone(u)
    BY <1>1 DEF Gone, Coming
  <2>2. u \notin service.hdi /\ u \notin service.sensors
    BY <1>1, <2>1 DEF PlugInv, Ghosts, Handling
  <2>3. ASSUME NEW c \in Clients, u \in list[c], u \notin missed'[c]
        PROVE  Handling(u, Telling)' /\ ToTell(c, {"disable", "list"})'
    <3>1. u = s
      <4> SUFFICES ASSUME u # s PROVE FALSE
        OBVIOUS
      <4>1. u \notin missed[c]
        BY <1>4, <2>3
      <4> QED BY <1>0, <2>1, <2>3, <4>1 DEF PlugInv, Ghosts, Handling
    <3>2. user[c].at \notin {"none", "listed"}
      BY <1>4, <2>3, <3>1 DEF PlugInv, Members
    <3> QED BY <1>4, <1>9, <3>1, <3>2 DEF Handling, Telling
  <2> QED BY <1>1, <1>3, <2>2, <2>3
<1> QED BY <1>5, <1>6, <1>7, <1>8, <1>10, <1>11, <1>12 DEF PlugInv

-----------------------------------------------------------------------------
(* What the service enables and disables                                   *)

\* Disabling, or not, takes a subscriber away at most; and it does take it
\* away when the sensor has left sensorMap_.
LEMMA DisableForGives ==
    ASSUME PlugTypeOK, NEW c \in Clients, NEW s \in SensorIds,
           DisableFor(c, s) \/ UNCHANGED <<subs, on>>
    PROVE  /\ subs' \in [SensorIds -> SUBSET Clients] /\ on' \subseteq on
           /\ \A u \in SensorIds : subs'[u] \subseteq subs[u]
           /\ \A u \in SensorIds : subs'[u] # {} /\ u \notin on' => u \notin on
           /\ DisableFor(c, s) /\ s \notin service.map => c \notin subs'[s]
<1>1. subs \in [SensorIds -> SUBSET Clients]
  BY DEF PlugTypeOK
<1>2. CASE UNCHANGED <<subs, on>> /\ ~DisableFor(c, s)
  BY <1>1, <1>2
<1>3. CASE DisableFor(c, s)
  <2>1. CASE ~MayDisable(s) \/ Refused(c, s)
    <3>1. UNCHANGED <<subs, on>>
      BY <1>3, <2>1 DEF DisableFor
    <3> QED BY <1>1, <2>1, <3>1 DEF MayDisable, Refused, GetSensorState
  <2>2. CASE ~(~MayDisable(s) \/ Refused(c, s))
    <3>1. /\ subs' = [subs EXCEPT ![s] = subs[s] \ {c}]
          /\ on' = IF subs[s] = {c} THEN on \ {s} ELSE on
      BY <1>1, <1>3, <2>2 DEF DisableFor
    <3> QED BY <1>1, <3>1
  <2> QED BY <2>1, <2>2
<1> QED BY <1>2, <1>3

\* A client that is told gives its subscription up,
LEMMA ToldDisableKeeps ==
    ASSUME PlugInv, ToldDisable
    PROVE  PlugInv'
<1>0. PICK c, s : c = Head(event.todo) /\ s = event.sensor
  OBVIOUS
<1>1. /\ event.at = "disable" /\ SubscribeFree(c) /\ At("list")
      /\ IF s \in subscribed[c] THEN DisableFor(c, s) ELSE UNCHANGED <<subs, on>>
      /\ UNCHANGED <<device, plugged, events, plugs, service, clients, list, infos, subscribed,
                     user, missed, excused>>
  BY <1>0 DEF ToldDisable, clientVars
<1>2. PlugTypeOK /\ c \in Clients /\ s \in SensorIds
  BY <1>0, <1>1, EventFacts DEF PlugInv, Telling
<1>3. event' \in EventTypes /\ event'.at = "list" /\ event'.sensor = s
      /\ event'.todo = event.todo
  BY <1>0, <1>1, <1>2, AtNext DEF Telling
<1>4. /\ subs' \in [SensorIds -> SUBSET Clients] /\ on' \subseteq on
      /\ \A u \in SensorIds : subs'[u] \subseteq subs[u]
      /\ \A u \in SensorIds : subs'[u] # {} /\ u \notin on' => u \notin on
      /\ DisableFor(c, s) /\ s \notin service.map => c \notin subs'[s]
  BY <1>1, <1>2, DisableForGives
<1>5. PlugTypeOK'
  BY <1>1, <1>2, <1>3, <1>4 DEF PlugTypeOK
<1>6. Members' /\ Holding'
  BY <1>1, <1>3 DEF PlugInv, Members, Holding
<1>7. Copies'
  <2>1. \A d : ~Erasing(d) /\ Copy(d)' = Copy(d)
    BY <1>1 DEF Erasing, Copy
  <2> QED BY <1>1, <2>1 DEF PlugInv, Copies
<1>8. Agreed'
  BY <1>1, <1>4 DEF PlugInv, Agreed
<1>9. \A u, stages : Handling(u, stages) => u = s
  BY <1>0 DEF Handling
<1>10. Off'
  <2>1. Handling(s, Leaving)'
    BY <1>3 DEF Handling, Leaving, Telling
  <2> QED BY <1>1, <1>4, <1>9, <2>1 DEF PlugInv, Off, Coming
<1>11. event.todo \in Seq(Clients) /\ event.todo # <<>> /\ c = event.todo[1]
  BY <1>0, <1>1, <1>2, EventFacts DEF Telling
<1>12. Stale'
  <2> SUFFICES ASSUME NEW u \in SensorIds \ excused, Handling(u, Telling)'
               PROVE  /\ u \notin service'.map
                      /\ \A d \in Clients :
                            d \in subs'[u] \/ user[d] = [at |-> "enable", sensor |-> u] =>
                               ToTell(d, {"disable"})'
    BY <1>1 DEF Stale
  <2>1. u = s
    BY <1>3 DEF Handling
  <2>2. Handling(s, Telling)
    BY <1>0, <1>1 DEF Handling, Telling
  <2>3. s \notin service.map /\ s \notin excused
    BY <2>1, <2>2 DEF PlugInv, Stale
  <2>4. ASSUME NEW d \in Clients, d \in subs'[s] \/ user[d] = [at |-> "enable", sensor |-> s]
        PROVE  ToTell(d, {"disable"})'
    <3>1. ToTell(d, {"disable"})
      BY <1>4, <2>1, <2>2, <2>4 DEF PlugInv, Stale
    <3>2. d # c
      <4> SUFFICES ASSUME d = c PROVE FALSE
        OBVIOUS
      <4>1. c \in subs'[s]
        BY <1>1, <2>4 DEF SubscribeFree
      <4>2. s \in subscribed[c]
        BY <1>2, <1>4, <2>3, <4>1 DEF PlugInv, Agreed
      <4> QED BY <1>1, <1>4, <2>3, <4>1, <4>2
    <3>3. PICK i \in DOMAIN event.todo : event.todo[i] = d
      BY <3>1 DEF ToTell
    <3>4. i # 1
      BY <1>11, <3>2, <3>3
    <3> QED BY <1>3, <3>3, <3>4 DEF ToTell
  <2> QED BY <1>1, <2>1, <2>3, <2>4
<1>13. Ghosts'
  <2> SUFFICES ASSUME NEW u \in SensorIds, Gone(u)'
               PROVE  /\ u \notin service'.hdi
                      /\ u \notin service'.sensors
                      /\ \A d \in Clients : u \in list'[d] =>
                            \/ u \in missed'[d]
                            \/ Handling(u, Telling)' /\ ToTell(d, {"disable", "list"})'
    BY DEF Ghosts
  <2>1. Gone(u)
    BY <1>1 DEF Gone, Coming
  <2>2. ~Handling(u, {"sensors"}) /\ ~Handling(u, {"sensors", "map"})
    BY <1>1 DEF Handling
  <2>3. ASSUME NEW d \in Clients, u \in list[d], u \notin missed[d]
        PROVE  Handling(u, Telling)' /\ ToTell(d, {"disable", "list"})'
    <3>1. Handling(u, Telling) /\ ToTell(d, {"disable", "list"})
      BY <2>1, <2>2, <2>3 DEF PlugInv, Ghosts
    <3> QED BY <1>3, <1>9, <3>1 DEF Handling, ToTell, Telling
  <2> QED BY <1>1, <2>1, <2>2, <2>3 DEF PlugInv, Ghosts
<1> QED BY <1>5, <1>6, <1>7, <1>8, <1>10, <1>12, <1>13 DEF PlugInv

\* Whom the service still tells of a sensor that went, when it has told one.
LEMMA ToldSteps ==
    ASSUME PlugInv, NEW c, c = Head(event.todo), NEW s, s = event.sensor,
           event.at \in {"list", "infos"},
           Told \/ (event.at = "list" /\ At("infos"))
    PROVE  /\ event' \in EventTypes /\ Range(event.todo)' \subseteq Range(event.todo)
           /\ event'.at \in {"none", "disable", "infos"}
           /\ event'.at # "none" => event'.sensor = s
           /\ event'.at = "infos" => Head(event'.todo) = c /\ event.at = "list"
           /\ \A d \in Clients, i \in DOMAIN event.todo :
                 i # 1 /\ event.todo[i] = d =>
                    Handling(s, Telling)' /\ ToTell(d, {"disable"})' /\ ToTell(d, {"disable", "list"})'
<1>1. PlugTypeOK /\ event.at \in Telling
  BY DEF PlugInv, Telling
<1>2. CASE Told
  <2>1. event' = NoEvent \/ (event'.at = "disable" /\ event'.sensor = s)
    BY <1>1, <1>2, ToldNext
  <2>2. event' \in EventTypes /\ Range(event.todo)' \subseteq Range(event.todo)
        /\ event'.at \in {"none", "disable"}
    BY <1>1, <1>2, <2>1, ToldNext DEF NoEvent
  <2>3. ASSUME NEW d \in Clients, NEW i \in DOMAIN event.todo, i # 1, event.todo[i] = d
        PROVE  Handling(s, Telling)' /\ ToTell(d, {"disable"})' /\ ToTell(d, {"disable", "list"})'
    <3>1. event'.at = "disable" /\ event'.sensor = event.sensor
      BY <1>1, <1>2, <2>3, ToldNext
    <3>2. PICK k \in DOMAIN event'.todo : event'.todo[k] = event.todo[i]
      BY <1>1, <1>2, <2>3, ToldNext
    <3> QED BY <2>3, <3>1, <3>2 DEF Handling, ToTell, Telling
  <2> QED BY <2>1, <2>2, <2>3 DEF NoEvent
<1>3. CASE event.at = "list" /\ At("infos")
  BY <1>1, <1>3, AtNext DEF Handling, ToTell, Telling
<1> QED BY <1>2, <1>3

\* takes the sensor out of its list,
LEMMA EraseCacheSensorListKeeps ==
    ASSUME PlugInv, EraseCacheSensorList
    PROVE  PlugInv'
<1>0. PICK c, s : c = Head(event.todo) /\ s = event.sensor
  OBVIOUS
<1>1. /\ event.at = "list"
      /\ list' = [list EXCEPT ![c] = @ \ {s}]
      /\ missed' = [missed EXCEPT ![c] = @ \ {s}]
      /\ IF list[c] = {} THEN Told ELSE At("infos")
      /\ UNCHANGED <<device, plugged, on, events, plugs, service, clients, subs, infos,
                     subscribed, user, excused>>
  BY <1>0 DEF EraseCacheSensorList, driverVars
<1>2. PlugTypeOK /\ c \in Clients /\ s \in SensorIds
  BY <1>0, <1>1, EventFacts DEF PlugInv, Leaving, Telling
<1>3. /\ event' \in EventTypes /\ Range(event.todo)' \subseteq Range(event.todo)
      /\ event'.at \in {"none", "disable", "infos"}
      /\ event'.at # "none" => event'.sensor = s
      /\ event'.at = "infos" => Head(event'.todo) = c
      /\ \A d \in Clients, i \in DOMAIN event.todo :
            i # 1 /\ event.todo[i] = d =>
               Handling(s, Telling)' /\ ToTell(d, {"disable"})' /\ ToTell(d, {"disable", "list"})'
  BY <1>0, <1>1, ToldSteps
<1>4. /\ list' \in [Clients -> SUBSET SensorIds] /\ missed' \in [Clients -> SUBSET SensorIds]
      /\ list'[c] = list[c] \ {s} /\ missed'[c] = missed[c] \ {s}
      /\ \A d \in Clients \ {c} : list'[d] = list[d] /\ missed'[d] = missed[d]
  BY <1>1, <1>2 DEF PlugTypeOK
<1>5. PlugTypeOK'
  BY <1>1, <1>2, <1>3, <1>4 DEF PlugTypeOK
<1>6. event.at \in Telling /\ user[c].at \notin {"none", "listed"}
  BY <1>0, <1>1, RegisteredHead DEF Telling
<1>7. Members'
  BY <1>1, <1>3, <1>4, <1>6, MembersStay
<1>8. Holding'
  BY <1>1, <1>3 DEF PlugInv, Holding
<1>9. Copies'
  <2> SUFFICES ASSUME NEW d \in Clients
               PROVE  Copy(d)' \subseteq list'[d] \cup (IF Erasing(d)' THEN {event'.sensor} ELSE {})
    BY DEF Copies
  <2>1. Copy(d)' = Copy(d) /\ Copy(d) \subseteq list[d]
    BY <1>1 DEF PlugInv, Copies, Copy, Erasing
  <2>2. CASE d # c
    BY <1>4, <2>1, <2>2
  <2>3. CASE d = c /\ list[c] = {}
    BY <1>4, <2>1, <2>3
  <2>4. CASE d = c /\ list[c] # {}
    <3>1. event'.at = "infos" /\ event'.sensor = s /\ Head(event'.todo) = c
      BY <1>0, <1>1, <1>2, <1>6, <2>4, AtNext DEF Telling
    <3>2. Erasing(d)'
      BY <2>4, <3>1 DEF Erasing
    <3> QED BY <1>4, <2>1, <2>4, <3>1, <3>2
  <2> QED BY <2>2, <2>3, <2>4
<1>10. Agreed'
  BY <1>1 DEF PlugInv, Agreed
<1>11. event.todo \in Seq(Clients) /\ event.todo # <<>> /\ c = event.todo[1]
  BY <1>0, <1>2, <1>6, EventFacts
<1>12. Handling(s, Telling)
  BY <1>0, <1>6 DEF Handling
<1>13. Stale'
  <2> SUFFICES ASSUME NEW u \in SensorIds \ excused, Handling(u, Telling)'
               PROVE  /\ u \notin service.map
                      /\ \A d \in Clients :
                            d \in subs[u] \/ user[d] = [at |-> "enable", sensor |-> u] =>
                               ToTell(d, {"disable"})'
    BY <1>1 DEF Stale
  <2>1. u = s
    BY <1>3 DEF Handling, Telling
  <2>2. u \notin service.map
    BY <1>12, <2>1 DEF PlugInv, Stale
  <2>3. ASSUME NEW d \in Clients, d \in subs[s] \/ user[d] = [at |-> "enable", sensor |-> s]
        PROVE  ToTell(d, {"disable"})'
    <3>1. ToTell(d, {"disable"})
      BY <1>12, <2>1, <2>3 DEF PlugInv, Stale
    <3>2. PICK i \in DOMAIN event.todo : event.todo[i] = d /\ i # 1
      BY <1>1, <3>1 DEF ToTell
    <3> QED BY <1>3, <3>2
  <2> QED BY <2>1, <2>2, <2>3
<1>14. Off'
  <2> SUFFICES ASSUME NEW u \in SensorIds \ excused, subs[u] # {}, u \notin on
               PROVE  Coming(u)' \/ Handling(u, Leaving)'
    BY <1>1 DEF Off
  <2>1. Coming(u) \/ u = s
    BY <1>0 DEF PlugInv, Off, Handling
  <2>2. CASE u = s
    <3>1. PICK d \in subs[u] : d \in Clients
      BY <1>2 DEF PlugTypeOK
    <3>2. ToTell(d, {"disable"})
      BY <1>12, <2>2, <3>1 DEF PlugInv, Stale
    <3>3. PICK i \in DOMAIN event.todo : event.todo[i] = d /\ i # 1
      BY <1>1, <3>2 DEF ToTell
    <3> QED BY <1>3, <2>2, <3>1, <3>3 DEF Handling, Leaving
  <2> QED BY <1>1, <2>1, <2>2 DEF Coming
<1>15. Ghosts'
  <2> SUFFICES ASSUME NEW u \in SensorIds, Gone(u)'
               PROVE  /\ u \notin service.hdi
                      /\ u \notin service.sensors
                      /\ \A d \in Clients : u \in list'[d] =>
                            \/ u \in missed'[d]
                            \/ Handling(u, Telling)' /\ ToTell(d, {"disable", "list"})'
    BY <1>1 DEF Ghosts
  <2>1. Gone(u)
    BY <1>1 DEF Gone, Coming
  <2>2. ~Handling(u, {"sensors"}) /\ ~Handling(u, {"sensors", "map"})
    BY <1>1 DEF Handling
  <2>3. ASSUME NEW d \in Clients, u \in list'[d], u \notin missed'[d]
        PROVE  Handling(u, Telling)' /\ ToTell(d, {"disable", "list"})'
    <3>1. u \in list[d] /\ u \notin missed[d] /\ ~(d = c /\ u = s)
      BY <1>4, <2>3
    <3>2. Handling(u, Telling) /\ ToTell(d, {"disable", "list"})
      BY <2>1, <2>2, <3>1 DEF PlugInv, Ghosts
    <3>3. u = s
      BY <1>0, <3>2 DEF Handling
    <3>4. PICK i \in DOMAIN event.todo : event.todo[i] = d
      BY <3>2 DEF ToTell
    <3>5. i # 1
      BY <1>11, <3>1, <3>3, <3>4
    <3> QED BY <1>3, <3>3, <3>4, <3>5
  <2> QED BY <2>1, <2>2, <2>3 DEF PlugInv, Ghosts
<1> QED BY <1>5, <1>7, <1>8, <1>9, <1>10, <1>13, <1>14, <1>15 DEF PlugInv

\* and out of the agent's copy.
LEMMA EraseCacheSensorInfosKeeps ==
    ASSUME PlugInv, EraseCacheSensorInfos
    PROVE  PlugInv'
<1>0. PICK c, s : c = Head(event.todo) /\ s = event.sensor
  OBVIOUS
<1>1. /\ event.at = "infos" /\ InfosFree(c) /\ Told
      /\ infos' = [infos EXCEPT ![c] = IF @ = Null THEN Null ELSE @ \ {s}]
      /\ UNCHANGED <<device, plugged, on, events, plugs, service, clients, subs, list,
                     subscribed, user, missed, excused>>
  BY <1>0 DEF EraseCacheSensorInfos, driverVars
<1>2. PlugTypeOK /\ c \in Clients /\ s \in SensorIds
  BY <1>0, <1>1, EventFacts DEF PlugInv, Leaving, Telling
<1>3. /\ event' \in EventTypes /\ Range(event.todo)' \subseteq Range(event.todo)
      /\ event'.at \in {"none", "disable"}
      /\ event'.at # "none" => event'.sensor = s
      /\ \A d \in Clients, i \in DOMAIN event.todo :
            i # 1 /\ event.todo[i] = d =>
               Handling(s, Telling)' /\ ToTell(d, {"disable"})' /\ ToTell(d, {"disable", "list"})'
  BY <1>0, <1>1, ToldSteps
<1>4. /\ infos' \in [Clients -> {Null} \cup SUBSET SensorIds]
      /\ infos'[c] = IF infos[c] = Null THEN Null ELSE infos[c] \ {s}
      /\ \A d \in Clients \ {c} : infos'[d] = infos[d]
  BY <1>1, <1>2 DEF PlugTypeOK
<1>5. PlugTypeOK'
  BY <1>1, <1>2, <1>3, <1>4 DEF PlugTypeOK
<1>6. event.at \in Telling /\ user[c].at \notin {"none", "listed"}
  BY <1>0, <1>1, RegisteredHead DEF Telling
<1>7. Members'
  BY <1>1, <1>3, <1>4, <1>6, MembersStay
<1>8. Holding'
  BY <1>1, <1>3, <1>4 DEF PlugInv, Holding, InfosFree
<1>9. Copies'
  <2> SUFFICES ASSUME NEW d \in Clients PROVE Copy(d)' \subseteq list'[d]
    BY DEF Copies
  <2>1. Copy(d) \subseteq list[d] \cup (IF Erasing(d) THEN {s} ELSE {})
    BY <1>0 DEF PlugInv, Copies
  <2>2. CASE d # c
    BY <1>0, <1>1, <1>4, <2>1, <2>2 DEF Erasing, Copy
  <2>3. CASE d = c
    <3>1. Copy(c)' \subseteq Copy(c) \ {s}
      BY <1>4 DEF Copy
    <3> QED BY <1>1, <2>1, <2>3, <3>1
  <2> QED BY <2>2, <2>3
<1>10. Agreed'
  BY <1>1 DEF PlugInv, Agreed
<1>11. Handling(s, Telling)
  BY <1>0, <1>6 DEF Handling
<1>12. Stale'
  <2> SUFFICES ASSUME NEW u \in SensorIds \ excused, Handling(u, Telling)'
               PROVE  /\ u \notin service.map
                      /\ \A d \in Clients :
                            d \in subs[u] \/ user[d] = [at |-> "enable", sensor |-> u] =>
                               ToTell(d, {"disable"})'
    BY <1>1 DEF Stale
  <2>1. u = s
    BY <1>3 DEF Handling, Telling
  <2>2. u \notin service.map
    BY <1>11, <2>1 DEF PlugInv, Stale
  <2>3. ASSUME NEW d \in Clients, d \in subs[s] \/ user[d] = [at |-> "enable", sensor |-> s]
        PROVE  ToTell(d, {"disable"})'
    <3>1. ToTell(d, {"disable"})
      BY <1>11, <2>1, <2>3 DEF PlugInv, Stale
    <3>2. PICK i \in DOMAIN event.todo : event.todo[i] = d /\ i # 1
      BY <1>1, <3>1 DEF ToTell
    <3> QED BY <1>3, <3>2
  <2> QED BY <2>1, <2>2, <2>3
<1>13. Off'
  <2> SUFFICES ASSUME NEW u \in SensorIds \ excused, subs[u] # {}, u \notin on
               PROVE  Coming(u)' \/ Handling(u, Leaving)'
    BY <1>1 DEF Off
  <2>1. Coming(u) \/ u = s
    BY <1>0 DEF PlugInv, Off, Handling
  <2>2. CASE u = s
    <3>1. PICK d \in subs[u] : d \in Clients
      BY <1>2 DEF PlugTypeOK
    <3>2. ToTell(d, {"disable"})
      BY <1>11, <2>2, <3>1 DEF PlugInv, Stale
    <3>3. PICK i \in DOMAIN event.todo : event.todo[i] = d /\ i # 1
      BY <1>1, <3>2 DEF ToTell
    <3> QED BY <1>3, <2>2, <3>1, <3>3 DEF Handling, Leaving
  <2> QED BY <1>1, <2>1, <2>2 DEF Coming
<1>14. Ghosts'
  <2> SUFFICES ASSUME NEW u \in SensorIds, Gone(u)'
               PROVE  /\ u \notin service.hdi
                      /\ u \notin service.sensors
                      /\ \A d \in Clients : u \in list[d] =>
                            \/ u \in missed[d]
                            \/ Handling(u, Telling)' /\ ToTell(d, {"disable", "list"})'
    BY <1>1 DEF Ghosts
  <2>1. Gone(u)
    BY <1>1 DEF Gone, Coming
  <2>2. ~Handling(u, {"sensors"}) /\ ~Handling(u, {"sensors", "map"})
    BY <1>1 DEF Handling
  <2>3. ASSUME NEW d \in Clients, u \in list[d], u \notin missed[d]
        PROVE  Handling(u, Telling)' /\ ToTell(d, {"disable", "list"})'
    <3>1. Handling(u, Telling) /\ ToTell(d, {"disable", "list"})
      BY <2>1, <2>2, <2>3 DEF PlugInv, Ghosts
    <3>2. u = s
      BY <1>0, <3>1 DEF Handling
    <3>3. PICK i \in DOMAIN event.todo : event.todo[i] = d /\ i # 1
      BY <1>1, <3>1 DEF ToTell
    <3> QED BY <1>3, <3>2, <3>3
  <2> QED BY <2>1, <2>2, <2>3 DEF PlugInv, Ghosts
<1> QED BY <1>5, <1>7, <1>8, <1>9, <1>10, <1>12, <1>13, <1>14 DEF PlugInv

-----------------------------------------------------------------------------
(* The users                                                               *)

\* The lists, the event and what is on its way stay as they are.
Elsewhere == <<device, plugged, events, service, event, list, infos>>

\* A step of a user that lists nothing disturbs none of the lists.
LEMMA ElsewhereKeeps ==
    ASSUME PlugInv, UNCHANGED Elsewhere, missed' = missed,
           \A d \in Clients : user'[d].at = "device" => user[d].at = "device"
    PROVE  Holding' /\ Copies' /\ Ghosts'
<1>1. Holding' /\ Copies'
  BY DEF PlugInv, Elsewhere, Holding, Copies, Copy, Erasing
<1>2. Ghosts'
  BY DEF PlugInv, Elsewhere, Ghosts, Gone, Coming, Handling, ToTell
<1> QED BY <1>1, <1>2

\* A client registers.
LEMMA TransferKeeps ==
    ASSUME PlugInv, NEW c \in Clients, TransferClientRemoteObject(c)
    PROVE  PlugInv'
<1>1. /\ user[c].at = "listed" /\ clients' = Append(clients, c) /\ Goes(c, "idle", Null)
      /\ UNCHANGED <<Elsewhere, on, plugs, subs, subscribed, missed, excused>>
  BY DEF TransferClientRemoteObject, driverVars, clientVars, Elsewhere
<1>2. PlugTypeOK
  BY DEF PlugInv
<1>3. /\ user' \in [Clients -> UserTypes] /\ user'[c].at = "idle"
      /\ \A d \in Clients \ {c} : user'[d] = user[d]
  BY <1>1, <1>2, UserGoes, IdleTypes
<1>4. clients' \in Seq(Clients) /\ Range(clients)' = Range(clients) \cup {c}
  <2>1. clients \in Seq(Clients)
    BY <1>2 DEF PlugTypeOK
  <2>2. /\ clients' \in Seq(Clients) /\ Len(clients') = Len(clients) + 1
        /\ \A i \in 1 .. Len(clients) : clients'[i] = clients[i]
        /\ clients'[Len(clients) + 1] = c
    BY <1>1, <2>1, AppendProperties
  <2>3. DOMAIN clients = 1 .. Len(clients) /\ DOMAIN clients' = 1 .. (Len(clients) + 1)
        /\ Len(clients) \in Nat
    BY <2>1, <2>2, LenProperties
  <2>4. DOMAIN clients' = DOMAIN clients \cup {Len(clients) + 1}
    BY <2>3
  <2> QED BY <2>2, <2>3, <2>4 DEF Range
<1>5. PlugTypeOK'
  BY <1>1, <1>2, <1>3, <1>4 DEF PlugTypeOK, Elsewhere
<1>6. Members'
  BY <1>1, <1>3, <1>4 DEF PlugInv, Members, Elsewhere
<1>7. Holding' /\ Copies' /\ Ghosts'
  <2>1. \A d \in Clients : user'[d].at = "device" => user[d].at = "device"
    BY <1>3
  <2> QED BY <1>1, <2>1, ElsewhereKeeps
<1>8. Agreed'
  <2>1. \A d \in Clients : user'[d].at = "enable" => user'[d] = user[d]
    BY <1>3
  <2> QED BY <1>1, <1>4, <2>1 DEF PlugInv, Agreed
<1>9. Stale'
  <2>1. \A d \in Clients : \A u :
         user'[d] = [at |-> "enable", sensor |-> u] => user[d] = [at |-> "enable", sensor |-> u]
    BY <1>3
  <2> QED BY <1>1, <2>1 DEF PlugInv, Stale, Handling, ToTell, Elsewhere
<1>10. Off'
  BY <1>1 DEF PlugInv, Off, Coming, Handling, Elsewhere
<1> QED BY <1>5, <1>6, <1>7, <1>8, <1>9, <1>10 DEF PlugInv

\* A user subscribes,
LEMMA SubscribeSensorKeeps ==
    ASSUME PlugInv, NEW c \in Clients, NEW s \in SensorIds, SubscribeSensor(c, s)
    PROVE  PlugInv'
<1>1. /\ subscribed' = [subscribed EXCEPT ![c] = @ \cup {s}]
      /\ UNCHANGED <<Elsewhere, on, plugs, clients, subs, user, missed, excused>>
  BY DEF SubscribeSensor, driverVars, Elsewhere
<1>2. PlugTypeOK
  BY DEF PlugInv
<1>3. /\ subscribed' \in [Clients -> SUBSET SensorIds]
      /\ \A d \in Clients : subscribed[d] \subseteq subscribed'[d]
  BY <1>1, <1>2 DEF PlugTypeOK
<1>4. PlugTypeOK'
  BY <1>1, <1>2, <1>3 DEF PlugTypeOK, Elsewhere
<1>5. Members'
  BY <1>1 DEF PlugInv, Members, Elsewhere
<1>6. Holding' /\ Copies' /\ Ghosts'
  BY <1>1, ElsewhereKeeps
<1>7. Agreed'
  BY <1>1, <1>2, <1>3 DEF PlugInv, Agreed, PlugTypeOK
<1>8. Stale' /\ Off'
  BY <1>1 DEF PlugInv, Stale, Off, Coming, Handling, ToTell, Elsewhere
<1> QED BY <1>4, <1>5, <1>6, <1>7, <1>8 DEF PlugInv

\* activates: the check of the sensor
LEMMA ActivateSensorKeeps ==
    ASSUME PlugInv, NEW c \in Clients, NEW s \in SensorIds, ActivateSensor(c, s)
    PROVE  PlugInv'
<1>1. /\ user[c].at = "idle" /\ s \in subscribed[c]
      /\ \/ s \in service.map /\ Goes(c, "enable", s) /\ UNCHANGED subscribed
         \/ UNCHANGED user /\ subscribed' = [subscribed EXCEPT ![c] = @ \ {s}]
      /\ UNCHANGED <<Elsewhere, on, plugs, clients, subs, missed>>
      /\ Forgets(c, s)
  BY DEF ActivateSensor, driverVars, Elsewhere, Idle
<1>2. PlugTypeOK
  BY DEF PlugInv
<1>3. /\ subscribed' \in [Clients -> SUBSET SensorIds]
      /\ subscribed[c] \ {s} \subseteq subscribed'[c]
      /\ \A d \in Clients \ {c} : subscribed'[d] = subscribed[d]
  BY <1>1, <1>2 DEF PlugTypeOK
<1>4. /\ user' \in [Clients -> UserTypes]
      /\ user'[c].at = "idle" \/ (user'[c] = [at |-> "enable", sensor |-> s]
                                  /\ s \in subscribed'[c] /\ s \in service.map)
      /\ \A d \in Clients \ {c} : user'[d] = user[d]
  <2>1. CASE s \in service.map /\ Goes(c, "enable", s) /\ UNCHANGED subscribed
    BY <1>1, <1>2, <2>1, UserGoes, IdleTypes
  <2>2. CASE UNCHANGED user
    BY <1>1, <1>2, <2>2 DEF PlugTypeOK
  <2> QED BY <1>1, <2>1, <2>2
<1>5. /\ excused \subseteq excused' /\ excused' \subseteq SensorIds
      /\ c \in subs[s] => s \in subscribed'[c] \/ s \in excused'
  BY <1>1, <1>2 DEF Forgets, PlugTypeOK
<1>6. PlugTypeOK'
  BY <1>1, <1>2, <1>3, <1>4, <1>5 DEF PlugTypeOK, Elsewhere
<1>7. Members'
  BY <1>1, <1>4 DEF PlugInv, Members, Elsewhere
<1>8. Holding' /\ Copies' /\ Ghosts'
  <2>1. \A d \in Clients : user'[d].at = "device" => user[d].at = "device"
    BY <1>4
  <2> QED BY <1>1, <2>1, ElsewhereKeeps
<1>9. Agreed'
  <2>1. \A d \in Clients : user'[d].at = "enable" => user'[d].sensor \in subscribed'[d]
    BY <1>3, <1>4 DEF PlugInv, Agreed
  <2>2. ASSUME NEW u \in SensorIds, NEW d \in subs[u]
        PROVE  d \in Range(clients) /\ (u \in subscribed'[d] \/ u \in excused')
    <3>1. d \in Clients /\ d \in Range(clients) /\ (u \in subscribed[d] \/ u \in excused)
      BY <1>2, <2>2 DEF PlugInv, Agreed, PlugTypeOK
    <3> QED BY <1>3, <1>5, <2>2, <3>1
  <2> QED BY <1>1, <2>1, <2>2 DEF Agreed
<1>10. Stale'
  <2> SUFFICES ASSUME NEW u \in SensorIds \ excused', Handling(u, Telling)
               PROVE  /\ u \notin service.map
                      /\ \A d \in Clients :
                            d \in subs[u] \/ user'[d] = [at |-> "enable", sensor |-> u] =>
                               ToTell(d, {"disable"})
    BY <1>1 DEF Stale, Elsewhere, Handling, ToTell
  <2>1. u \notin service.map
    BY <1>5 DEF PlugInv, Stale
  <2>2. ASSUME NEW d \in Clients, user'[d] = [at |-> "enable", sensor |-> u]
        PROVE  user[d] = [at |-> "enable", sensor |-> u]
    BY <1>4, <2>1, <2>2
  <2> QED BY <1>5, <2>1, <2>2 DEF PlugInv, Stale
<1>11. Off'
  BY <1>1, <1>5 DEF PlugInv, Off, Coming, Handling, Elsewhere
<1> QED BY <1>6, <1>7, <1>8, <1>9, <1>10, <1>11 DEF PlugInv

\* and the call of the driver under serviceLock_,
LEMMA ActivateSensorDoneKeeps ==
    ASSUME PlugInv, NEW c \in Clients, ActivateSensorDone(c)
    PROVE  PlugInv'
<1>0. PICK s : s = user[c].sensor
  OBVIOUS
<1>1. /\ user[c].at = "enable" /\ EnableFor(c, s) /\ Goes(c, "idle", Null)
      /\ UNCHANGED <<Elsewhere, plugs, clients, missed, excused>>
  BY <1>0 DEF ActivateSensorDone, Elsewhere
<1>2. PlugTypeOK
  BY DEF PlugInv
<1>3. s \in SensorIds /\ user[c] = [at |-> "enable", sensor |-> s]
  BY <1>0, <1>1, <1>2 DEF PlugTypeOK, UserTypes
<1>4. /\ user' \in [Clients -> UserTypes] /\ user'[c].at = "idle"
      /\ \A d \in Clients \ {c} : user'[d] = user[d]
  BY <1>1, <1>2, UserGoes, IdleTypes
<1>5. /\ subs' \in [SensorIds -> SUBSET Clients] /\ on \subseteq on' /\ on' \subseteq plugged
      /\ subscribed' \in [Clients -> SUBSET SensorIds]
      /\ \A u \in SensorIds \ {s} : subs'[u] = subs[u]
      /\ subs'[s] \subseteq subs[s] \cup {c}
      /\ subs'[s] # {} => subs[s] # {} \/ s \in on'
      /\ subs'[s] # {} => subscribed' = subscribed
      /\ \A d \in Clients, u \in SensorIds : u # s \/ d # c => (u \in subscribed[d] => u \in subscribed'[d])
  <2>1. /\ subs \in [SensorIds -> SUBSET Clients] /\ subscribed \in [Clients -> SUBSET SensorIds]
        /\ on \subseteq plugged
    BY <1>2 DEF PlugTypeOK
  <2>2. CASE GetSensorState(s) \/ s \in plugged
    <3>1. /\ subs' = [subs EXCEPT ![s] = @ \cup {c}] /\ subscribed' = subscribed
          /\ on' = IF GetSensorState(s) THEN on ELSE on \cup {s}
      BY <1>1, <2>2 DEF EnableFor
    <3> QED BY <1>3, <2>1, <2>2, <3>1 DEF GetSensorState
  <2>3. CASE ~(GetSensorState(s) \/ s \in plugged)
    <3>1. subscribed' = [subscribed EXCEPT ![c] = @ \ {s}] /\ UNCHANGED <<subs, on>>
      BY <1>1, <2>3 DEF EnableFor
    <3> QED BY <1>3, <2>1, <2>3, <3>1 DEF GetSensorState
  <2> QED BY <2>2, <2>3
<1>6. PlugTypeOK'
  BY <1>1, <1>2, <1>4, <1>5 DEF PlugTypeOK, Elsewhere
<1>7. Members'
  BY <1>1, <1>4 DEF PlugInv, Members, Elsewhere
<1>8. Holding' /\ Copies' /\ Ghosts'
  <2>1. \A d \in Clients : user'[d].at = "device" => user[d].at = "device"
    BY <1>4
  <2> QED BY <1>1, <2>1, ElsewhereKeeps
<1>9. Agreed'
  <2>1. ASSUME NEW d \in Clients, user'[d].at = "enable"
        PROVE  user'[d].sensor \in subscribed'[d]
    <3>1. d # c /\ user[d].sensor \in subscribed[d] /\ user[d].sensor \in SensorIds
      BY <1>2, <1>4, <2>1 DEF PlugInv, Agreed, PlugTypeOK, UserTypes
    <3> QED BY <1>4, <1>5, <3>1
  <2>2. ASSUME NEW u \in SensorIds, NEW d \in subs'[u]
        PROVE  d \in Range(clients) /\ (u \in subscribed'[d] \/ u \in excused)
    <3>1. CASE d = c /\ u = s
      <4>1. c \in Range(clients) /\ s \in subscribed[c]
        BY <1>0, <1>1 DEF PlugInv, Members, Agreed
      <4>2. subscribed' = subscribed
        BY <1>5, <2>2, <3>1
      <4> QED BY <3>1, <4>1, <4>2
    <3>2. CASE d # c \/ u # s
      <4>1. d \in subs[u] /\ d \in Clients
        BY <1>2, <1>3, <1>5, <2>2, <3>2 DEF PlugTypeOK
      <4>2. d \in Range(clients) /\ (u \in subscribed[d] \/ u \in excused)
        BY <4>1 DEF PlugInv, Agreed
      <4> QED BY <1>5, <3>2, <4>1, <4>2
    <3> QED BY <3>1, <3>2
  <2> QED BY <1>1, <2>1, <2>2 DEF Agreed
<1>10. Stale'
  <2> SUFFICES ASSUME NEW u \in SensorIds \ excused, Handling(u, Telling)
               PROVE  /\ u \notin service.map
                      /\ \A d \in Clients :
                            d \in subs'[u] \/ user'[d] = [at |-> "enable", sensor |-> u] =>
                               ToTell(d, {"disable"})
    BY <1>1 DEF Stale, Elsewhere, Handling, ToTell
  <2>1. ASSUME NEW d \in Clients, d \in subs'[u] \/ user'[d] = [at |-> "enable", sensor |-> u]
        PROVE  d \in subs[u] \/ user[d] = [at |-> "enable", sensor |-> u]
    BY <1>3, <1>4, <1>5, <2>1
  <2> QED BY <2>1 DEF PlugInv, Stale
<1>11. Off'
  <2>1. \A u \in SensorIds : subs'[u] # {} /\ u \notin on' => subs[u] # {} /\ u \notin on
    BY <1>5
  <2> QED BY <1>1, <2>1 DEF PlugInv, Off, Coming, Handling, Elsewhere
<1> QED BY <1>6, <1>7, <1>8, <1>9, <1>10, <1>11 DEF PlugInv

\* and deactivates.
LEMMA DeactivateSensorKeeps ==
    ASSUME PlugInv, NEW c \in Clients, NEW s \in SensorIds, DeactivateSensor(c, s)
    PROVE  PlugInv'
<1>1. /\ user[c].at = "idle"
      /\ subscribed' = [subscribed EXCEPT ![c] = @ \ {s}]
      /\ DisableFor(c, s) \/ UNCHANGED <<subs, on>>
      /\ Forgets(c, s)
      /\ UNCHANGED <<Elsewhere, plugs, clients, user, missed>>
  BY DEF DeactivateSensor, Elsewhere, Idle
<1>2. PlugTypeOK
  BY DEF PlugInv
<1>3. /\ subs' \in [SensorIds -> SUBSET Clients] /\ on' \subseteq on
      /\ \A u \in SensorIds : subs'[u] \subseteq subs[u]
      /\ \A u \in SensorIds : subs'[u] # {} /\ u \notin on' => u \notin on
  BY <1>1, <1>2, DisableForGives
<1>4. /\ subscribed' \in [Clients -> SUBSET SensorIds]
      /\ subscribed[c] \ {s} \subseteq subscribed'[c]
      /\ \A d \in Clients \ {c} : subscribed'[d] = subscribed[d]
  BY <1>1, <1>2 DEF PlugTypeOK
<1>5. /\ excused \subseteq excused' /\ excused' \subseteq SensorIds
      /\ c \in subs'[s] => s \in subscribed'[c] \/ s \in excused'
  BY <1>1, <1>2 DEF Forgets, PlugTypeOK
<1>6. PlugTypeOK'
  BY <1>1, <1>2, <1>3, <1>4, <1>5 DEF PlugTypeOK, Elsewhere
<1>7. Members'
  BY <1>1 DEF PlugInv, Members, Elsewhere
<1>8. Holding' /\ Copies' /\ Ghosts'
  BY <1>1, ElsewhereKeeps
<1>9. Agreed'
  <2>1. \A d \in Clients : user'[d].at = "enable" => user'[d].sensor \in subscribed'[d]
    BY <1>1, <1>4 DEF PlugInv, Agreed
  <2>2. ASSUME NEW u \in SensorIds, NEW d \in subs'[u]
        PROVE  d \in Range(clients) /\ (u \in subscribed'[d] \/ u \in excused')
    <3>1. d \in Clients /\ d \in Range(clients) /\ (u \in subscribed[d] \/ u \in excused)
      BY <1>2, <1>3, <2>2 DEF PlugInv, Agreed, PlugTypeOK
    <3> QED BY <1>4, <1>5, <2>2, <3>1
  <2> QED BY <1>1, <2>1, <2>2 DEF Agreed
<1>10. Stale'
  <2> SUFFICES ASSUME NEW u \in SensorIds \ excused', Handling(u, Telling)
               PROVE  /\ u \notin service.map
                      /\ \A d \in Clients :
                            d \in subs'[u] \/ user[d] = [at |-> "enable", sensor |-> u] =>
                               ToTell(d, {"disable"})
    BY <1>1 DEF Stale, Elsewhere, Handling, ToTell
  <2> QED BY <1>3, <1>5 DEF PlugInv, Stale
<1>11. Off'
  <2>1. \A u \in SensorIds : subs'[u] # {} /\ u \notin on' => subs[u] # {} /\ u \notin on
    BY <1>3
  <2> QED BY <1>1, <1>5, <2>1 DEF PlugInv, Off, Coming, Handling, Elsewhere
<1> QED BY <1>6, <1>7, <1>8, <1>9, <1>10, <1>11 DEF PlugInv

-----------------------------------------------------------------------------
(* The theorems                                                            *)

\* The invariant holds when the callback is registered,
LEMMA PlugInitInv == PlugInit => PlugInv
<1> SUFFICES ASSUME PlugInit PROVE PlugInv
  OBVIOUS
<1>1. PlugTypeOK
  BY DEF PlugInit, PlugTypeOK, NoUser, UserTypes, EventTypes
<1>2. Members /\ Holding /\ Copies
  BY DEF PlugInit, Members, Holding, Copies, Copy, NoUser, NoEvent, Range
<1>3. Ghosts /\ Agreed /\ Stale /\ Off
  BY DEF PlugInit, Ghosts, Gone, Handling, Telling, Agreed, Stale, Off, NoUser, NoEvent
<1> QED BY <1>1, <1>2, <1>3 DEF PlugInv

\* and every step keeps it.
LEMMA PlugNextKeeps == PlugInv /\ [PlugNext]_plugVars => PlugInv'
<1> SUFFICES ASSUME PlugInv, [PlugNext]_plugVars PROVE PlugInv'
  OBVIOUS
<1>1. CASE UNCHANGED plugVars
  BY <1>1 DEF plugVars, driverVars, clientVars, PlugInv, PlugTypeOK, Members, Holding, Copies,
              Copy, Erasing, Ghosts, Gone, Coming, Handling, ToTell, Agreed, Stale, Off
<1>2. ASSUME NEW s \in SensorIds, Plug(s) \/ Unplug(s) PROVE PlugInv'
  BY <1>2, DriverKeeps
<1>3. CASE SensorOnline \/ PlugEraseSensorData \/ EraseSensor \/ EraseFromMap
  BY <1>3, SensorOnlineKeeps, PlugEraseSensorDataKeeps, EraseSensorKeeps, EraseFromMapKeeps
<1>4. CASE ToldConvert \/ ToldMerge
  BY <1>4, ToldConvertKeeps, ToldMergeKeeps
<1>5. CASE ToldDisable \/ EraseCacheSensorList \/ EraseCacheSensorInfos
  BY <1>5, ToldDisableKeeps, EraseCacheSensorListKeeps, EraseCacheSensorInfosKeeps
<1>6. ASSUME NEW c \in Clients, Connect(c) \/ TransferClientRemoteObject(c) PROVE PlugInv'
  BY <1>6, ConnectKeeps, TransferKeeps
<1>7. ASSUME NEW c \in Clients,
             GetAllSensors(c) \/ GetDeviceSensorsDone(c) \/ ActivateSensorDone(c)
      PROVE  PlugInv'
  BY <1>7, GetAllSensorsKeeps, GetDeviceSensorsDoneKeeps, ActivateSensorDoneKeeps
<1>8. ASSUME NEW c \in Clients, NEW s \in SensorIds,
             \/ GetDeviceSensors(c, s) \/ SubscribeSensor(c, s)
             \/ ActivateSensor(c, s) \/ DeactivateSensor(c, s)
      PROVE  PlugInv'
  BY <1>8, GetDeviceSensorsKeeps, SubscribeSensorKeeps, ActivateSensorKeeps, DeactivateSensorKeeps
<1> QED BY <1>1, <1>2, <1>3, <1>4, <1>5, <1>6, <1>7, <1>8 DEF PlugNext

\* What the three threads are at is consistent: whom the service still tells
\* of a sensor that went, who may still have it, and who may still be counted
\* as its subscriber (SensorService::ReportPlugEventCallback and
\* SensorAgentProxy::HandlePlugSensorData).
THEOREM PlugInvariance == PlugSpec => []PlugInv
<1>1. PlugInit => PlugInv
  BY PlugInitInv
<1>2. PlugInv /\ [PlugNext]_plugVars => PlugInv'
  BY PlugNextKeeps
<1> QED BY <1>1, <1>2, PTL DEF PlugSpec

\* Nobody keeps a sensor that is gone once everybody was told
\* (SensorServiceClient::EraseCacheSensorList, EraseCacheSensorInfos).
THEOREM AlwaysNoGhost == PlugSpec => []NoGhost
<1>1. PlugInv => NoGhost
  <2> SUFFICES ASSUME PlugInv, events = <<>>, event = NoEvent, NEW c \in Range(clients)
               PROVE  list[c] \cup Copy(c) \subseteq plugged \cup missed[c]
    BY DEF NoGhost, Quiet, Copy
  <2>1. PlugTypeOK /\ c \in Clients
    BY DEF PlugInv, PlugTypeOK, Range
  <2>2. Copy(c) \subseteq list[c]
    BY <2>1 DEF PlugInv, Copies, Erasing, NoEvent
  <2>3. ASSUME NEW s \in list[c], s \notin plugged PROVE s \in missed[c]
    <3>1. s \in SensorIds /\ Gone(s)
      BY <2>1, <2>3 DEF PlugTypeOK, Gone, Coming
    <3> QED BY <2>1, <2>3, <3>1 DEF PlugInv, Ghosts, Handling, Telling, NoEvent
  <2> QED BY <2>2, <2>3
<1> QED BY <1>1, PlugInvariance, PTL

\* A sensor that is plugged in and enabled is on, once everybody was told
\* (SensorAgentProxy::HandlePlugSensorData, SensorService::DisableSensor).
THEOREM AlwaysRunning == PlugSpec => []Running
<1>1. PlugInv => Running
  <2> SUFFICES ASSUME PlugInv, events = <<>>, event = NoEvent,
                      NEW s \in plugged \ excused, subs[s] # {}, s \notin on
               PROVE  FALSE
    BY DEF Running, Quiet
  <2>1. s \in SensorIds
    BY DEF PlugInv, PlugTypeOK
  <2> QED BY <2>1 DEF PlugInv, Off, Coming, Handling, Leaving, Telling, NoEvent
<1> QED BY <1>1, PlugInvariance, PTL

=============================================================================
