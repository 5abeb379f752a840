---------------------------- MODULE Dispatch_proofs ----------------------------
(***************************************************************************)
(* The promises of the data thread, for any processes, sensors, clients,   *)
(* rates and bounds.  What is sent to a channel is decided in its slot, so *)
(* the proof is about the operators on one slot first, and about the       *)
(* actions only then.                                                      *)
(***************************************************************************)
EXTENDS Dispatch, LeastOfNats, SequenceTheorems

-----------------------------------------------------------------------------
(* What holds of one slot                                                  *)

\* A slot without the bounds of Dispatch.
AnySlot == [made : BOOLEAN, count : Nat, fifo : Seq(Nat), cache : Nat,
            got : Seq(Nat), offered : Nat, skipped : Nat,
            pc : Nat, fc : Nat, resized : BOOLEAN]

Increasing(g) == \A i, j \in 1 .. Len(g) : i < j => g[i] < g[j]

Under(g, n) == \A i \in 1 .. Len(g) : g[i] < n

Final(g) == Last(<<0>> \o g)

\* InOrder, and why: what waits in the cache comes after all that was sent, and
\* before n, the next event.
Ordered(sl, n) ==
    sl.fc = 0 =>
        /\ Increasing(sl.got) /\ Under(sl.got, n)
        /\ sl.cache < n
        /\ sl.cache # 0 => Under(sl.got, sl.cache)

Newest(sl) == sl.offered # 0 => sl.offered \in {sl.cache, Final(sl.got)}

\* NotPassedOver, and why: the count goes round at the rate itself.
Counted(sl) == sl.pc # 0 => sl.skipped <= sl.count % sl.pc

\* FifoBounded, and why: a FIFO that was never used is empty.
Short(sl) ==
    /\ sl.fc = 0 => Len(sl.fifo) = 0
    /\ sl.fc # 0 /\ ~sl.resized => Len(sl.fifo) < sl.fc

Good(sl, n) ==
    sl \in AnySlot /\ Ordered(sl, n) /\ Newest(sl) /\ Counted(sl) /\ Short(sl)

-----------------------------------------------------------------------------
(* Sequences and counts                                                    *)

\* A sequence ends as what was added to it ends.
LEMMA LastOfConcat ==
    ASSUME NEW s \in Seq(Nat), NEW t \in Seq(Nat), t # <<>>
    PROVE  /\ s \o t \in Seq(Nat) /\ s \o t # <<>>
           /\ Last(t) \in Nat /\ Last(s \o t) = Last(t)
<1>1. Len(t) \in Nat \ {0} /\ Len(s) \in Nat
  BY EmptySeq, LenProperties
<1>2. Len(s) + Len(t) \in 1 .. Len(s) + Len(t)
  BY <1>1
<1>3. /\ s \o t \in Seq(Nat)
      /\ Len(s \o t) = Len(s) + Len(t)
      /\ (s \o t)[Len(s) + Len(t)] = t[Len(t)]
  BY <1>1, <1>2, ConcatProperties
<1>4. s \o t # <<>>
  BY <1>1, <1>3, EmptySeq
<1>5. t[Len(t)] \in Nat
  BY <1>1, ElementOfSeq
<1> QED BY <1>3, <1>4, <1>5 DEF Last

\* What is left last by sending.
LEMMA FinalOfSent ==
    ASSUME NEW g \in Seq(Nat), NEW events \in Seq(Nat), events # <<>>
    PROVE  /\ g \o events \in Seq(Nat)
           /\ Last(events) \in Nat
           /\ Final(g \o events) = Last(events)
<1>1. <<0>> \in Seq(Nat)
  OBVIOUS
<1> QED BY <1>1, LastOfConcat DEF Final

\* An event later than all that was sent keeps the order.
LEMMA SendLater ==
    ASSUME NEW g \in Seq(Nat), NEW e \in Nat, Increasing(g), Under(g, e)
    PROVE  /\ g \o <<e>> \in Seq(Nat)
           /\ Increasing(g \o <<e>>)
           /\ \A n \in Nat : e < n => Under(g \o <<e>>, n)
           /\ Final(g \o <<e>>) = e
<1> DEFINE h == g \o <<e>>
<1>1. <<e>> \in Seq(Nat) /\ Len(<<e>>) = 1 /\ <<e>>[1] = e /\ <<e>> # <<>>
  OBVIOUS
<1>2. Len(g) \in Nat /\ \A i \in 1 .. Len(g) : g[i] \in Nat
  BY LenProperties, ElementOfSeq
<1>3. /\ h \in Seq(Nat)
      /\ Len(h) = Len(g) + 1
      /\ \A i \in 1 .. Len(g) + 1 : h[i] = IF i <= Len(g) THEN g[i] ELSE <<e>>[i - Len(g)]
  BY <1>1, ConcatProperties
<1> HIDE DEF h
<1>4. Len(h) = Len(g) + 1 /\ (\A i \in 1 .. Len(g) : h[i] = g[i]) /\ h[Len(g) + 1] = e
  BY <1>1, <1>2, <1>3
<1>5. Increasing(h)
  <2> SUFFICES ASSUME NEW i \in 1 .. Len(h), NEW j \in 1 .. Len(h), i < j PROVE h[i] < h[j]
    BY DEF Increasing
  <2>1. i \in 1 .. Len(g) /\ j \in 1 .. Len(g) + 1
    BY <1>2, <1>4
  <2>2. CASE j = Len(g) + 1
    BY <1>4, <2>1, <2>2 DEF Under
  <2>3. CASE j \in 1 .. Len(g)
    BY <1>4, <2>1, <2>3 DEF Increasing
  <2>4. j = Len(g) + 1 \/ j \in 1 .. Len(g)
    BY <1>2, <2>1
  <2> QED BY <2>2, <2>3, <2>4
<1>6. ASSUME NEW n \in Nat, e < n PROVE Under(h, n)
  BY <1>2, <1>4, <1>6 DEF Under
<1>7. Final(h) = e
  BY <1>1, FinalOfSent DEF Last, h
<1> QED BY <1>3, <1>5, <1>6, <1>7 DEF h

\* What comes before one event comes before every later one.
LEMMA UnderMore ==
    ASSUME NEW g \in Seq(Nat), NEW m \in Nat, NEW n \in Nat, Under(g, m), m <= n
    PROVE  Under(g, n)
BY ElementOfSeq DEF Under

\* A remainder that does not come to zero grows by one.
LEMMA NextRemainder ==
    ASSUME NEW c \in Nat, NEW m \in Nat \ {0}
    PROVE  /\ c % m \in 0 .. m - 1
           /\ (c + 1) % m # 0 => (c + 1) % m = (c % m) + 1
           /\ (c + 1) % m \in 0 .. m - 1
<1>1. \A k \in Nat : k % m \in 0 .. m - 1 /\ k \div m \in Nat /\ k = m * (k \div m) + (k % m)
  OBVIOUS
<1>2. \A q, p \in Nat, r, s \in 0 .. m - 1 : m * q + r = m * p + s => r = s
  OBVIOUS
<1>3. CASE (c % m) + 1 = m
  <2>1. c + 1 = m * ((c \div m) + 1) + 0
    BY <1>1, <1>3
  <2>2. c + 1 = m * ((c + 1) \div m) + ((c + 1) % m)
    BY <1>1
  <2>3. /\ (c \div m) + 1 \in Nat /\ (c + 1) \div m \in Nat
        /\ (c + 1) % m \in 0 .. m - 1 /\ 0 \in 0 .. m - 1
    BY <1>1
  <2>4. (c + 1) % m = 0
    BY <1>2, <2>1, <2>2, <2>3
  <2> QED BY <1>1, <2>4
<1>4. CASE (c % m) + 1 # m
  <2>1. c + 1 = m * (c \div m) + ((c % m) + 1)
    BY <1>1
  <2>2. c + 1 = m * ((c + 1) \div m) + ((c + 1) % m)
    BY <1>1
  <2>3. /\ (c % m) + 1 \in 0 .. m - 1 /\ (c + 1) % m \in 0 .. m - 1
        /\ c \div m \in Nat /\ (c + 1) \div m \in Nat
    BY <1>1, <1>4
  <2>4. (c + 1) % m = (c % m) + 1
    BY <1>2, <2>1, <2>2, <2>3
  <2> QED BY <1>1, <2>4
<1> QED BY <1>3, <1>4

-----------------------------------------------------------------------------
(* The operators on one slot                                               *)

\* An event sent on its own, when nothing waits in the cache.
LEMMA SendRawDataKeeps ==
    ASSUME NEW e \in Nat \ {0}, NEW sl, Good(sl, e), sl.cache = 0, NEW ok \in BOOLEAN
    PROVE  Good(SendRawData(sl, <<e>>, ok), e + 1)
<1> DEFINE r == SendRawData(sl, <<e>>, ok)
<1> USE DEF AnySlot
<1>1. sl \in AnySlot
  BY DEF Good
<1>2. <<e>> \in Seq(Nat) /\ <<e>> # <<>> /\ Last(<<e>>) = e
  BY DEF Last
<1>3. CASE ok
  <2>1. r = [sl EXCEPT !.got = @ \o <<e>>, !.offered = e]
    BY <1>2, <1>3 DEF SendRawData
  <2>2. sl.got \o <<e>> \in Seq(Nat) /\ Final(sl.got \o <<e>>) = e
    BY <1>1, <1>2, FinalOfSent
  <2> HIDE DEF r
  <2>3. /\ r \in AnySlot /\ r.got = sl.got \o <<e>> /\ r.cache = 0 /\ r.offered = e
        /\ r.fc = sl.fc /\ r.fifo = sl.fifo /\ r.resized = sl.resized
        /\ r.skipped = sl.skipped /\ r.count = sl.count /\ r.pc = sl.pc
    BY <1>1, <2>1, <2>2
  <2>4. Ordered(r, e + 1)
    <3> SUFFICES ASSUME sl.fc = 0
                 PROVE  Increasing(r.got) /\ Under(r.got, e + 1)
      BY <2>3 DEF Ordered
    <3>1. sl.got \in Seq(Nat) /\ Increasing(sl.got) /\ Under(sl.got, e)
      BY <1>1 DEF Good, Ordered
    <3> QED BY <2>3, <3>1, SendLater
  <2>5. Newest(r)
    BY <2>2, <2>3 DEF Newest
  <2>6. Counted(r) /\ Short(r)
    BY <2>3 DEF Good, Counted, Short
  <2> QED BY <2>3, <2>4, <2>5, <2>6 DEF Good, r
<1>4. CASE ~ok
  <2>1. r = [sl EXCEPT !.cache = e, !.offered = e]
    BY <1>2, <1>4 DEF SendRawData
  <2> HIDE DEF r
  <2>2. /\ r \in AnySlot /\ r.got = sl.got /\ r.cache = e /\ r.offered = e
        /\ r.fc = sl.fc /\ r.fifo = sl.fifo /\ r.resized = sl.resized
        /\ r.skipped = sl.skipped /\ r.count = sl.count /\ r.pc = sl.pc
    BY <1>1, <2>1
  <2>3. Ordered(r, e + 1)
    BY <1>1, <2>2, UnderMore DEF Good, Ordered
  <2>4. Newest(r) /\ Counted(r) /\ Short(r)
    BY <2>2 DEF Good, Newest, Counted, Short
  <2> QED BY <2>2, <2>3, <2>4 DEF Good, r
<1> QED BY <1>3, <1>4

\* The cached event, then the new one, each sent or not.
LEMMA CacheSensorEventKeeps ==
    ASSUME NEW e \in Nat \ {0}, NEW sl, Good(sl, e), NEW oks \in [1 .. 2 -> BOOLEAN]
    PROVE  Good(CacheSensorEvent(sl, e, oks), e + 1)
<1> DEFINE again == IF sl.cache # 0 /\ oks[1] THEN [sl EXCEPT !.got = @ \o <<sl.cache>>] ELSE sl
           new   == IF oks[2] THEN [again EXCEPT !.got = @ \o <<e>>] ELSE again
           r     == [new EXCEPT !.cache = IF oks[2] THEN 0 ELSE e, !.offered = e]
<1> USE DEF AnySlot
<1>1. sl \in AnySlot
  BY DEF Good
<1>2. /\ again \in AnySlot /\ again = [sl EXCEPT !.got = again.got]
      /\ sl.fc = 0 => Increasing(again.got) /\ Under(again.got, e)
  <2>1. CASE sl.cache # 0 /\ oks[1]
    <3>1. sl.got \in Seq(Nat) /\ sl.cache \in Nat
      BY <1>1
    <3>2. <<sl.cache>> \in Seq(Nat) /\ <<sl.cache>> # <<>>
      BY <3>1
    <3>3. sl.got \o <<sl.cache>> \in Seq(Nat)
      BY <3>1, <3>2, FinalOfSent
    <3>4. sl.fc = 0 => /\ Increasing(sl.got \o <<sl.cache>>)
                       /\ Under(sl.got \o <<sl.cache>>, e)
      BY <2>1, <3>1, SendLater DEF Good, Ordered
    <3> QED BY <1>1, <2>1, <3>3, <3>4
  <2>2. CASE ~(sl.cache # 0 /\ oks[1])
    BY <1>1, <2>2 DEF Good, Ordered
  <2> QED BY <2>1, <2>2
<1> HIDE DEF again
<1>3. /\ again.got \in Seq(Nat) /\ again.got \o <<e>> \in Seq(Nat)
      /\ Final(again.got \o <<e>>) = e
  <2>1. <<e>> \in Seq(Nat) /\ <<e>> # <<>> /\ Last(<<e>>) = e
    BY DEF Last
  <2> QED BY <1>2, <2>1, FinalOfSent
<1>4. CASE oks[2]
  <2>1. r = [sl EXCEPT !.got = again.got \o <<e>>, !.cache = 0, !.offered = e]
    BY <1>1, <1>2, <1>4
  <2> HIDE DEF r
  <2>2. /\ r \in AnySlot /\ r.got = again.got \o <<e>> /\ r.cache = 0 /\ r.offered = e
        /\ r.fc = sl.fc /\ r.fifo = sl.fifo /\ r.resized = sl.resized
        /\ r.skipped = sl.skipped /\ r.count = sl.count /\ r.pc = sl.pc
    BY <1>1, <1>3, <2>1
  <2>3. Ordered(r, e + 1)
    <3> SUFFICES ASSUME sl.fc = 0
                 PROVE  Increasing(r.got) /\ Under(r.got, e + 1)
      BY <2>2 DEF Ordered
    <3>1. Increasing(again.got) /\ Under(again.got, e)
      BY <1>2
    <3> QED BY <1>3, <2>2, <3>1, SendLater
  <2>4. Newest(r)
    BY <1>3, <2>2 DEF Newest
  <2>5. Counted(r) /\ Short(r)
    BY <2>2 DEF Good, Counted, Short
  <2>6. Good(r, e + 1)
    BY <2>2, <2>3, <2>4, <2>5 DEF Good
  <2> QED BY <2>6 DEF CacheSensorEvent, r, new, again
<1>5. CASE ~oks[2]
  <2>1. r = [sl EXCEPT !.got = again.got, !.cache = e, !.offered = e]
    BY <1>1, <1>2, <1>5
  <2> HIDE DEF r
  <2>2. /\ r \in AnySlot /\ r.got = again.got /\ r.cache = e /\ r.offered = e
        /\ r.fc = sl.fc /\ r.fifo = sl.fifo /\ r.resized = sl.resized
        /\ r.skipped = sl.skipped /\ r.count = sl.count /\ r.pc = sl.pc
    BY <1>1, <1>3, <2>1
  <2>3. Ordered(r, e + 1)
    <3> SUFFICES ASSUME sl.fc = 0
                 PROVE  Increasing(again.got) /\ Under(again.got, e + 1) /\ Under(again.got, e)
      BY <2>2 DEF Ordered
    <3>1. Increasing(again.got) /\ Under(again.got, e)
      BY <1>2
    <3>2. again.got \in Seq(Nat) /\ e + 1 \in Nat /\ e <= e + 1
      BY <1>3
    <3>3. Under(again.got, e + 1)
      BY <3>1, <3>2, UnderMore
    <3> QED BY <3>1, <3>3
  <2>4. Newest(r) /\ Counted(r) /\ Short(r)
    BY <2>2 DEF Good, Newest, Counted, Short
  <2>5. Good(r, e + 1)
    BY <2>2, <2>3, <2>4 DEF Good
  <2> QED BY <2>5 DEF CacheSensorEvent, r, new, again
<1> QED BY <1>4, <1>5

\* An event that is not sent, at whatever rate.
LEMMA GoodLater ==
    ASSUME NEW e \in Nat, NEW sl, Good(sl, e)
    PROVE  Good(sl, e + 1)
BY UnderMore DEF Good, Ordered, AnySlot

\* A slot that starts to count again is as good as before, and so is one for which
\* nothing is sent any more.
LEMMA CountAgain ==
    ASSUME NEW e \in Nat, NEW sl, Good(sl, e), NEW pc \in Nat \ {0}
    PROVE  /\ Good([sl EXCEPT !.made = TRUE, !.count = 0, !.pc = pc, !.skipped = 0], e)
           /\ Good([sl EXCEPT !.skipped = 0], e)
           /\ Good([sl EXCEPT !.skipped = @ + 1, !.pc = 0], e)
<1> USE DEF AnySlot
<1>1. sl \in AnySlot
  BY DEF Good
<1>2. 0 % pc \in 0 .. pc - 1 /\ (sl.pc # 0 => sl.count % sl.pc \in 0 .. sl.pc - 1)
  BY <1>1, NextRemainder
<1>3. ASSUME NEW r \in AnySlot,
             r.got = sl.got, r.cache = sl.cache, r.offered = sl.offered,
             r.fc = sl.fc, r.fifo = sl.fifo, r.resized = sl.resized, Counted(r)
      PROVE  Good(r, e)
  BY <1>3 DEF Good, Ordered, Newest, Short
<1>4. ASSUME NEW r, r = [sl EXCEPT !.made = TRUE, !.count = 0, !.pc = pc, !.skipped = 0]
      PROVE  Good(r, e)
  <2>1. /\ r \in AnySlot /\ r.got = sl.got /\ r.cache = sl.cache /\ r.offered = sl.offered
        /\ r.fc = sl.fc /\ r.fifo = sl.fifo /\ r.resized = sl.resized
        /\ r.skipped = 0 /\ r.count = 0 /\ r.pc = pc
    BY <1>1, <1>4
  <2>2. Counted(r)
    BY <1>2, <2>1 DEF Counted
  <2> QED BY <1>3, <2>1, <2>2
<1>5. ASSUME NEW r, r = [sl EXCEPT !.skipped = 0]
      PROVE  Good(r, e)
  <2>1. /\ r \in AnySlot /\ r.got = sl.got /\ r.cache = sl.cache /\ r.offered = sl.offered
        /\ r.fc = sl.fc /\ r.fifo = sl.fifo /\ r.resized = sl.resized
        /\ r.skipped = 0 /\ r.count = sl.count /\ r.pc = sl.pc
    BY <1>1, <1>5
  <2>2. Counted(r)
    BY <1>2, <2>1 DEF Counted
  <2> QED BY <1>3, <2>1, <2>2
<1>6. ASSUME NEW r, r = [sl EXCEPT !.skipped = @ + 1, !.pc = 0]
      PROVE  Good(r, e)
  <2> DEFINE k == sl.skipped + 1
  <2>1. k \in Nat /\ 0 \in Nat /\ r = [sl EXCEPT !.skipped = k, !.pc = 0]
    BY <1>1, <1>6
  <2> HIDE DEF k
  <2>2. /\ r \in AnySlot /\ r.got = sl.got /\ r.cache = sl.cache /\ r.offered = sl.offered
        /\ r.fc = sl.fc /\ r.fifo = sl.fifo /\ r.resized = sl.resized
        /\ r.pc = 0
    BY <1>1, <2>1
  <2>3. Counted(r)
    BY <2>2 DEF Counted
  <2> QED BY <1>3, <2>2, <2>3
<1> QED BY <1>4, <1>5, <1>6

\* An event that is thinned out, or sent on its own.
LEMMA SendNoneFifoCacheDataKeeps ==
    ASSUME NEW e \in Nat \ {0}, NEW sl, Good(sl, e), sl.cache = 0,
           NEW pc \in Nat \ {0}, NEW ok \in BOOLEAN
    PROVE  Good(SendNoneFifoCacheData(sl, e, pc, ok), e + 1)
<1> USE DEF AnySlot
<1>1. sl \in AnySlot
  BY DEF Good
<1>2. CASE sl.made /\ ~Due(sl, pc)
  <2> DEFINE r == Thinned(sl, pc)
           k == IF pc = sl.pc THEN sl.skipped + 1 ELSE 1
           c == sl.count + 1
  <2>1. k \in Nat /\ c \in Nat /\ r = [sl EXCEPT !.count = c, !.pc = pc, !.skipped = k]
    BY <1>1 DEF Thinned
  <2>2. /\ c % pc = (sl.count % pc) + 1
        /\ sl.count % pc \in 0 .. pc - 1
    BY <1>1, <1>2, NextRemainder DEF Due
  <2>3. k <= (sl.count % pc) + 1
    <3> DEFINE d == sl.count % pc
    <3>1. pc = sl.pc => sl.skipped <= d
      BY DEF Good, Counted
    <3>2. d \in Nat /\ sl.skipped \in Nat
      BY <1>1, <2>2
    <3>3. k <= d + 1
      <4> HIDE DEF d
      <4> QED BY <3>1, <3>2
    <3> QED BY <3>3
  <2> HIDE DEF c, k, r
  <2>4. /\ r \in AnySlot /\ r.got = sl.got /\ r.cache = sl.cache /\ r.offered = sl.offered
        /\ r.fc = sl.fc /\ r.fifo = sl.fifo /\ r.resized = sl.resized
        /\ r.skipped = k /\ r.count = c /\ r.pc = pc
    BY <1>1, <2>1
  <2>5. Good(r, e)
    BY <2>2, <2>3, <2>4 DEF Good, Ordered, Newest, Counted, Short
  <2> QED BY <1>2, <2>5, GoodLater DEF SendNoneFifoCacheData, r
<1>3. CASE ~(sl.made /\ ~Due(sl, pc))
  <2> DEFINE t == [sl EXCEPT !.made = TRUE, !.count = 0, !.pc = pc, !.skipped = 0]
  <2>1. Good(t, e)
    BY CountAgain
  <2>2. t.cache = 0
    BY <1>1
  <2>3. Good(SendRawData(t, <<e>>, ok), e + 1)
    <3> HIDE DEF t
    <3> QED BY <2>1, <2>2, SendRawDataKeeps
  <2> QED BY <1>3, <2>3 DEF SendNoneFifoCacheData
<1> QED BY <1>2, <1>3

\* An event that is lost, thinned out, collected, or sent with those collected.
LEMMA SendFifoCacheDataKeeps ==
    ASSUME NEW e \in Nat \ {0}, NEW sl, Good(sl, e), sl.cache = 0,
           NEW pc \in Nat \ {0}, NEW fc \in Nat, fc > 1, NEW ok \in BOOLEAN
    PROVE  Good(SendFifoCacheData(sl, e, pc, fc, ok), e + 1)
<1> DEFINE used == [sl EXCEPT !.pc = pc, !.skipped = 0, !.fc = fc,
                              !.resized = @ \/ sl.fc \notin {0, fc}]
           kept == [used EXCEPT !.count = 0, !.fifo = Append(@, e)]
           r == SendFifoCacheData(sl, e, pc, fc, ok)
<1> USE DEF AnySlot
<1>1. sl \in AnySlot
  BY DEF Good
<1>2. /\ used \in AnySlot /\ used.got = sl.got /\ used.cache = sl.cache
      /\ used.offered = sl.offered /\ used.fc = fc /\ used.fifo = sl.fifo
      /\ used.resized = (sl.resized \/ sl.fc \notin {0, fc})
      /\ used.skipped = 0 /\ used.count = sl.count /\ used.pc = pc
  BY <1>1
<1>3. Append(sl.fifo, e) \in Seq(Nat) /\ Len(Append(sl.fifo, e)) = Len(sl.fifo) + 1
      /\ Append(sl.fifo, e) # <<>> /\ Len(sl.fifo) \in Nat
  BY <1>1, AppendProperties, LenProperties
<1>4. /\ kept \in AnySlot /\ kept.got = sl.got /\ kept.cache = sl.cache
      /\ kept.offered = sl.offered /\ kept.fc = fc /\ kept.fifo = Append(sl.fifo, e)
      /\ kept.resized = (sl.resized \/ sl.fc \notin {0, fc})
      /\ kept.skipped = 0 /\ kept.count = 0 /\ kept.pc = pc
  <2> HIDE DEF used
  <2> QED BY <1>2, <1>3
<1>5. ~(sl.resized \/ sl.fc \notin {0, fc}) => Len(sl.fifo) < fc
  BY <1>1, <1>3 DEF Good, Short
<1>6. ASSUME NEW t \in AnySlot, t.skipped = 0, t.fc = fc, Newest(t),
             ~t.resized => Len(t.fifo) < fc
      PROVE  Good(t, e + 1)
  <2>1. t.pc # 0 => t.count % t.pc \in 0 .. t.pc - 1
    BY <1>6, NextRemainder
  <2> QED BY <1>6, <2>1 DEF Good, Ordered, Counted, Short
<1>7. \/ r = [used EXCEPT !.made = TRUE]
      \/ r = [used EXCEPT !.count = @ + 1]
      \/ Len(kept.fifo) # fc /\ r = kept
      \/ r = [SendRawData(kept, kept.fifo, ok) EXCEPT !.fifo = <<>>]
  BY DEF SendFifoCacheData
<1> HIDE DEF used, kept, r
<1>8. CASE r = [used EXCEPT !.made = TRUE] \/ r = [used EXCEPT !.count = @ + 1]
  <2>3. used.count + 1 \in Nat
    BY <1>2
  <2>1. /\ r \in AnySlot /\ r.got = sl.got /\ r.cache = sl.cache /\ r.offered = sl.offered
        /\ r.fc = fc /\ r.fifo = sl.fifo /\ r.skipped = 0
        /\ r.resized = (sl.resized \/ sl.fc \notin {0, fc})
    <3>1. CASE r = [used EXCEPT !.made = TRUE]
      BY <1>2, <3>1
    <3>2. CASE r = [used EXCEPT !.count = @ + 1]
      BY <1>2, <2>3, <3>2
    <3> QED BY <1>8, <3>1, <3>2
  <2>2. Newest(r)
    BY <2>1 DEF Good, Newest
  <2> QED BY <1>5, <1>6, <2>1, <2>2 DEF r
<1>9. CASE Len(kept.fifo) # fc /\ r = kept
  <2>1. Newest(r)
    BY <1>4, <1>9 DEF Good, Newest
  <2>2. ~r.resized => Len(r.fifo) < fc
    BY <1>3, <1>4, <1>5, <1>9
  <2> QED BY <1>4, <1>6, <1>9, <2>1, <2>2 DEF r
<1>10. CASE r = [SendRawData(kept, kept.fifo, ok) EXCEPT !.fifo = <<>>]
  <2>1. /\ sl.got \o kept.fifo \in Seq(Nat) /\ Last(kept.fifo) \in Nat
        /\ Final(sl.got \o kept.fifo) = Last(kept.fifo)
    BY <1>1, <1>3, <1>4, FinalOfSent
  <2>2. \/ r = [kept EXCEPT !.got = sl.got \o kept.fifo, !.offered = Last(kept.fifo), !.fifo = <<>>]
        \/ r = [kept EXCEPT !.cache = Last(kept.fifo), !.offered = Last(kept.fifo), !.fifo = <<>>]
    BY <1>4, <1>10 DEF SendRawData
  <2>3. <<>> \in Seq(Nat) /\ Len(<<>>) = 0
    OBVIOUS
  <2>4. /\ r \in AnySlot /\ r.skipped = 0 /\ r.fc = fc /\ r.fifo = <<>>
        /\ r.offered = Last(kept.fifo)
        /\ r.cache = Last(kept.fifo) \/ r.got = sl.got \o kept.fifo
    <3> DEFINE all == sl.got \o kept.fifo
               newest == Last(kept.fifo)
    <3>1. all \in Seq(Nat) /\ newest \in Nat
      BY <2>1
    <3>2. \/ r = [kept EXCEPT !.got = all, !.offered = newest, !.fifo = <<>>]
          \/ r = [kept EXCEPT !.cache = newest, !.offered = newest, !.fifo = <<>>]
      BY <2>2
    <3>3. kept \in AnySlot /\ kept.skipped = 0 /\ kept.fc = fc
      BY <1>4
    <3> HIDE DEF all, newest
    <3>4. CASE r = [kept EXCEPT !.got = all, !.offered = newest, !.fifo = <<>>]
      <4>1. /\ r \in AnySlot /\ r.skipped = 0 /\ r.fc = fc /\ r.fifo = <<>>
            /\ r.offered = newest /\ r.got = all
        BY <2>3, <3>1, <3>3, <3>4
      <4> QED BY <4>1 DEF all, newest
    <3>5. CASE r = [kept EXCEPT !.cache = newest, !.offered = newest, !.fifo = <<>>]
      <4>1. /\ r \in AnySlot /\ r.skipped = 0 /\ r.fc = fc /\ r.fifo = <<>>
            /\ r.offered = newest /\ r.cache = newest
        BY <2>3, <3>1, <3>3, <3>5
      <4> QED BY <4>1 DEF newest
    <3> QED BY <3>2, <3>4, <3>5
  <2>5. Newest(r)
    BY <2>1, <2>4 DEF Newest
  <2>6. Len(r.fifo) < fc
    BY <2>3, <2>4
  <2> HIDE DEF AnySlot
  <2>7. Good(r, e + 1)
    BY <1>6, <2>4, <2>5, <2>6
  <2> QED BY <2>7 DEF r
<1> QED BY <1>7, <1>8, <1>9, <1>10

-----------------------------------------------------------------------------
(* The invariant of the data thread                                        *)

\* What a slot holds comes before the next event of its sensor, and before the
\* event at hand while its channel is still to be given it.
Inv ==
    /\ subs \in [Sensors -> [Pids -> Rates \cup {NoInfo}]]
    /\ slot \in [Pids -> [Sensors -> AnySlot]]
    /\ event \in Sensors
    /\ todo \subseteq Pids /\ cur \in (Pids \cup {NoInfo}) \ (todo \ {NoInfo})
    /\ best \in 0 .. NoLimit
    /\ last \in [Sensors -> Nat]
    /\ \A p \in Pids, s \in Sensors : Good(slot[p][s], last[s] + 1)
    /\ \A p \in todo \cup ({cur} \ {NoInfo}) :
          last[event] # 0 /\ Good(slot[p][event], last[event])

\* The best period is no longer than anybody's.
LEMMA BestPeriodIsLeast ==
    ASSUME subs \in [Sensors -> [Pids -> Rates \cup {NoInfo}]], NEW s \in Sensors
    PROVE  /\ BestPeriod(s) \in 0 .. NoLimit
           /\ \A p \in Pids : BestPeriod(s) <= GetCurPidSensorInfo(s, p).period
<1> DEFINE S == {NoLimit} \cup {subs[s][p].period : p \in Subscribers(s)}
<1>1. \A p \in Subscribers(s) : subs[s][p].period \in Nat
  BY RatesAssumption DEF Subscribers
<1>2. S \in SUBSET Nat /\ S # {} /\ NoLimit \in S
  BY <1>1, RatesAssumption
<1>3. \A p \in Pids : GetCurPidSensorInfo(s, p).period \in S
  BY DEF GetCurPidSensorInfo
<1>4. Min(S) \in S /\ \A n \in S : Min(S) <= n
  <2> HIDE DEF S
  <2> QED BY <1>2, MinOfNats
<1>5. Min(S) \in 0 .. NoLimit
  <2> DEFINE m == Min(S)
  <2>1. m \in Nat /\ m <= NoLimit
    BY <1>2, <1>4
  <2> HIDE DEF m
  <2>2. m \in 0 .. NoLimit
    BY <2>1, RatesAssumption
  <2> QED BY <2>2 DEF m
<1> QED BY <1>3, <1>4, <1>5 DEF BestPeriod

\* The counts are numbers; the period count is zero only for a process that now
\* has a shorter period than the best one that was read, or when that one is zero.
LEMMA Counts ==
    ASSUME subs \in [Sensors -> [Pids -> Rates \cup {NoInfo}]], best \in 0 .. NoLimit,
           NEW s \in Sensors, NEW p \in Pids
    PROVE  /\ ComputeBestPeriodCount(s, p) \in Nat
           /\ ComputeBestFifoCount(s, p) \in Nat
           /\ ComputeBestPeriodCount(s, p) = 0 => best = 0 \/ best # BestPeriod(s)
<1> DEFINE info == GetCurPidSensorInfo(s, p)
<1>1. info.period \in Nat /\ info.delay \in Nat
  <2>1. CASE p \in Subscribers(s)
    <3>1. subs[s][p] \in Rates
      BY <2>1 DEF Subscribers
    <3> QED BY <2>1, <3>1, RatesAssumption DEF GetCurPidSensorInfo
  <2>2. CASE p \notin Subscribers(s)
    BY <2>2, RatesAssumption DEF GetCurPidSensorInfo
  <2> QED BY <2>1, <2>2
<1>2. BestPeriod(s) <= info.period /\ BestPeriod(s) \in 0 .. NoLimit
  BY BestPeriodIsLeast
<1> HIDE DEF info
<1>3. best \in Nat
  BY RatesAssumption
<1>4. \A k \in Nat, m \in Nat \ {0} : k \div m \in Nat /\ (k \div m = 0 => k < m)
  OBVIOUS
<1>5. best # 0 => /\ info.period \div best \in Nat
                  /\ info.period \div best = 0 => info.period < best
  BY <1>1, <1>3, <1>4
<1>6. info.period # 0 => info.delay \div info.period \in Nat
  BY <1>1, <1>4
<1>7. info.period < best => best # BestPeriod(s)
  BY <1>1, <1>2, <1>3, RatesAssumption
<1> DEFINE pc == ComputeBestPeriodCount(s, p)
           fc == ComputeBestFifoCount(s, p)
<1>8. pc = IF best = 0 THEN 0 ELSE info.period \div best
  BY DEF ComputeBestPeriodCount, info
<1>9. fc = IF info.period = 0 THEN 0 ELSE info.delay \div info.period
  BY DEF ComputeBestFifoCount, info
<1> HIDE DEF pc, fc
<1>10. pc \in Nat /\ (pc = 0 => best = 0 \/ best # BestPeriod(s))
  <2>1. CASE best = 0
    BY <1>8, <2>1
  <2>2. CASE best # 0
    <3>1. pc = info.period \div best
      BY <1>8, <2>2
    <3>2. pc \in Nat /\ (pc = 0 => info.period < best)
      BY <1>5, <2>2, <3>1, Zenon
    <3> QED BY <1>7, <3>2, Zenon
  <2> QED BY <2>1, <2>2
<1>11. fc \in Nat
  BY <1>6, <1>9
<1> QED BY <1>10, <1>11 DEF pc, fc

\* Whatever is done with an event keeps the slot good.
LEMMA SendEventsKeeps ==
    ASSUME subs \in [Sensors -> [Pids -> Rates \cup {NoInfo}]], best \in 0 .. NoLimit,
           NEW s \in Sensors, NEW p \in Pids, NEW e \in Nat \ {0}, Good(slot[p][s], e),
           NEW oks \in [1 .. 2 -> BOOLEAN]
    PROVE  Good(SendEvents(p, s, e, oks), e + 1)
<1> DEFINE sl == slot[p][s]
           pc == ComputeBestPeriodCount(s, p)
           fc == ComputeBestFifoCount(s, p)
<1>1. pc \in Nat /\ fc \in Nat /\ (pc = 0 => best = 0 \/ best # BestPeriod(s))
  BY Counts
<1>2. CASE HasCached(p)
  <2>1. SendEvents(p, s, e, oks) = CacheSensorEvent(sl, e, oks)
    BY <1>2 DEF SendEvents
  <2> QED BY <2>1, CacheSensorEventKeeps
<1>3. CASE ~HasCached(p)
  <2>1. sl.cache = 0
    BY <1>3 DEF HasCached
  <2>2. oks[1] \in BOOLEAN /\ oks[2] \in BOOLEAN
    OBVIOUS
  <2>3. Good([sl EXCEPT !.skipped = 0], e) /\ Good([sl EXCEPT !.skipped = @ + 1, !.pc = 0], e)
    BY CountAgain
  <2> HIDE DEF sl, pc, fc
  <2>4. CASE s \in OnChange
    <3>1. SendEvents(p, s, e, oks) = SendRawData(sl, <<e>>, oks[2])
      BY <1>3, <2>4 DEF SendEvents, sl
    <3>2. Good(SendRawData(sl, <<e>>, oks[2]), e + 1)
      BY <2>1, <2>2, SendRawDataKeeps DEF sl
    <3> QED BY <3>1, <3>2
  <2>5. CASE s \notin OnChange /\ pc = 0
    <3>1. SendEvents(p, s, e, oks) \in {[sl EXCEPT !.skipped = 0],
                                        [sl EXCEPT !.skipped = @ + 1, !.pc = 0]}
      BY <1>1, <1>3, <2>5 DEF SendEvents, Dropped, sl, pc
    <3> QED BY <2>3, <3>1, GoodLater
  <2>6. CASE s \notin OnChange /\ pc # 0 /\ fc <= 1
    <3>1. SendEvents(p, s, e, oks) = SendNoneFifoCacheData(sl, e, pc, oks[2])
      BY <1>3, <2>6 DEF SendEvents, sl, pc, fc
    <3>2. Good(SendNoneFifoCacheData(sl, e, pc, oks[2]), e + 1)
      BY <1>1, <2>1, <2>2, <2>6, SendNoneFifoCacheDataKeeps DEF sl
    <3> QED BY <3>1, <3>2
  <2>7. CASE s \notin OnChange /\ pc # 0 /\ ~(fc <= 1)
    <3>1. SendEvents(p, s, e, oks) = SendFifoCacheData(sl, e, pc, fc, oks[2])
      BY <1>3, <2>7 DEF SendEvents, sl, pc, fc
    <3>2. Good(SendFifoCacheData(sl, e, pc, fc, oks[2]), e + 1)
      BY <1>1, <2>1, <2>2, <2>7, SendFifoCacheDataKeeps DEF sl
    <3> QED BY <3>1, <3>2
  <2> QED BY <2>4, <2>5, <2>6, <2>7
<1> QED BY <1>2, <1>3

\* A channel that is new holds nothing.
LEMMA EmptyIsGood ==
    ASSUME NEW n \in Nat \ {0}
    PROVE  EmptySlot \in AnySlot /\ Good(EmptySlot, n)
<1>1. <<>> \in Seq(Nat) /\ Len(<<>>) = 0
  OBVIOUS
<1>2. EmptySlot \in AnySlot
  BY <1>1 DEF EmptySlot, AnySlot
<1>3. 0 % 1 \in 0 .. 1 - 1
  BY NextRemainder
<1> QED
  BY <1>1, <1>2, <1>3 DEF EmptySlot, Good, Ordered, Newest, Counted, Short, Increasing, Under

-----------------------------------------------------------------------------
(* The actions                                                             *)

\* At first nothing was sent and nothing is kept.
LEMMA InitInv == Init => Inv
<1> SUFFICES ASSUME Init PROVE Inv
  OBVIOUS
<1>1. \A p \in Pids, s \in Sensors : slot[p][s] = EmptySlot /\ last[s] = 0
  BY DEF Init
<1>2. EmptySlot \in AnySlot /\ Good(EmptySlot, 1)
  BY EmptyIsGood
<1>3. \A p \in Pids, s \in Sensors : Good(slot[p][s], last[s] + 1)
  BY <1>1, <1>2
<1>4. slot \in [Pids -> [Sensors -> AnySlot]]
  BY <1>2 DEF Init
<1> QED BY <1>3, <1>4, RatesAssumption DEF Init, Inv

\* A new event comes after all that the slots of its sensor hold.
LEMMA TakeKeeps == ASSUME Inv, NEW s \in Sensors, Take(s) PROVE Inv'
<1>1. last[s] \in Nat /\ last' = [last EXCEPT ![s] = last[s] + 1] /\ event' = s
  BY DEF Take, Inv
<1>2. last' \in [Sensors -> Nat]
  BY <1>1 DEF Inv
<1>3. ASSUME NEW p \in Pids, NEW t \in Sensors
      PROVE  Good(slot'[p][t], last'[t] + 1)
  <2>1. Good(slot[p][t], last[t] + 1) /\ last[t] + 1 \in Nat /\ slot' = slot
    BY DEF Inv, Take
  <2>2. last'[t] = last[t] \/ last'[t] = last[t] + 1
    BY <1>1 DEF Inv
  <2> QED BY <2>1, <2>2, GoodLater
<1>4. \A p \in Pids : last'[event'] # 0 /\ Good(slot'[p][event'], last'[event'])
  BY <1>1 DEF Inv, Take
<1>5. /\ todo' \subseteq Pids /\ cur' = NoInfo
      /\ UNCHANGED <<subs, slot, best>>
  BY DEF Take, Subscribers
<1> QED BY <1>1, <1>2, <1>3, <1>4, <1>5 DEF Inv

\* The filters touch no slot, and read a best period that is a period.
LEMMA FilterKeeps == ASSUME Inv, NEW p \in Pids, Withhold(p) \/ Check(p) PROVE Inv'
<1>1. BestPeriod(event) \in 0 .. NoLimit
  BY BestPeriodIsLeast DEF Inv
<1>2. /\ p \in todo /\ todo' = todo \ {p} /\ cur' \in {NoInfo, p}
      /\ best' \in {best, BestPeriod(event)}
      /\ UNCHANGED <<subs, slot, event, last>>
  BY DEF Withhold, Check
<1>3. /\ todo' \cup ({cur'} \ {NoInfo}) \subseteq todo
      /\ cur' \in (Pids \cup {NoInfo}) \ (todo' \ {NoInfo})
      /\ todo' \subseteq Pids
      /\ best' \in 0 .. NoLimit
  BY <1>1, <1>2 DEF Inv
<1> QED BY <1>2, <1>3 DEF Inv

\* The channel at hand holds earlier events only, and is done with this one.
LEMMA DeliverKeeps ==
    ASSUME Inv, NEW oks \in [1 .. 2 -> BOOLEAN], Deliver(oks)
    PROVE  Inv'
<1> DEFINE e == last[event]
           r == SendEvents(cur, event, e, oks)
<1>1. /\ cur \in Pids /\ event \in Sensors /\ e \in Nat \ {0}
      /\ cur \notin todo /\ Good(slot[cur][event], e)
  BY DEF Deliver, Inv
<1>2. Good(r, e + 1)
  BY <1>1, SendEventsKeeps DEF Inv
<1>3. r \in AnySlot
  BY <1>2 DEF Good
<1>4. /\ slot' = [slot EXCEPT ![cur][event] = r] /\ cur' = NoInfo
      /\ UNCHANGED <<subs, event, todo, best, last>>
  BY DEF Deliver
<1> HIDE DEF r
<1>5. slot' \in [Pids -> [Sensors -> AnySlot]]
  BY <1>1, <1>3, <1>4 DEF Inv
<1>6. \A p \in Pids, s \in Sensors :
        slot'[p][s] = IF p = cur /\ s = event THEN r ELSE slot[p][s]
  BY <1>1, <1>4 DEF Inv
<1>7. \A p \in Pids, s \in Sensors : Good(slot'[p][s], last'[s] + 1)
  BY <1>1, <1>2, <1>4, <1>6 DEF Inv
<1>8. \A p \in todo' \cup ({cur'} \ {NoInfo}) :
        last'[event'] # 0 /\ Good(slot'[p][event'], last'[event'])
  BY <1>1, <1>4, <1>6 DEF Inv
<1> QED BY <1>4, <1>5, <1>7, <1>8 DEF Inv

\* Forgetting a channel, as far as the slots go.
LEMMA ForgetKeeps ==
    ASSUME Inv, NEW p \in Pids, ForgetChannel(p),
           subs' \in [Sensors -> [Pids -> Rates \cup {NoInfo}]],
           UNCHANGED <<event, best, last>>
    PROVE  Inv'
<1>1. /\ slot' = [slot EXCEPT ![p] = [s \in Sensors |-> EmptySlot]]
      /\ todo' = todo \ {p}
      /\ cur' = IF cur = p THEN NoInfo ELSE cur
  BY DEF ForgetChannel
<1>2. EmptySlot \in AnySlot /\ \A n \in Nat \ {0} : Good(EmptySlot, n)
  BY EmptyIsGood
<1> HIDE DEF EmptySlot
<1>3. slot' \in [Pids -> [Sensors -> AnySlot]]
  BY <1>1, <1>2 DEF Inv
<1>4. \A q \in Pids, s \in Sensors :
        slot'[q][s] = IF q = p THEN EmptySlot ELSE slot[q][s]
  BY <1>1 DEF Inv
<1>5. \A s \in Sensors : last[s] + 1 \in Nat \ {0}
  BY DEF Inv
<1>6. \A q \in Pids, s \in Sensors : Good(slot'[q][s], last'[s] + 1)
  BY <1>2, <1>4, <1>5 DEF Inv
<1>7. /\ todo' \cup ({cur'} \ {NoInfo}) \subseteq (todo \cup ({cur} \ {NoInfo})) \ {p}
      /\ todo' \cup ({cur'} \ {NoInfo}) \subseteq Pids
      /\ cur' \in (Pids \cup {NoInfo}) \ (todo' \ {NoInfo})
  BY <1>1 DEF Inv
<1>8. \A q \in todo' \cup ({cur'} \ {NoInfo}) :
        last'[event'] # 0 /\ Good(slot'[q][event'], last'[event'])
  BY <1>4, <1>7 DEF Inv
<1> QED BY <1>3, <1>6, <1>7, <1>8 DEF Inv

\* The calls change subscriptions, or forget a channel.
LEMMA CallKeeps == ASSUME Inv, NEW p \in Pids, Call(p) PROVE Inv'
<1>1. UNCHANGED <<event, best, last>>
  BY DEF Call
<1>2. ASSUME NEW s \in Sensors, NEW r \in Rates, SaveSubscriber(p, s, r) PROVE Inv'
  BY <1>1, <1>2 DEF SaveSubscriber, Inv
<1>3. ASSUME NEW s \in Sensors, RemoveSubscriber(p, s) PROVE Inv'
  BY <1>1, <1>3 DEF RemoveSubscriber, Inv
<1>4. CASE TransferDataChannel(p)
  <2>1. ForgetChannel(p) /\ subs' \in [Sensors -> [Pids -> Rates \cup {NoInfo}]]
    BY <1>4 DEF TransferDataChannel, Inv
  <2> QED BY <1>1, <2>1, ForgetKeeps
<1>5. CASE DestroySensorChannel(p)
  <2>1. ForgetChannel(p) /\ subs' = [s \in Sensors |-> [subs[s] EXCEPT ![p] = NoInfo]]
    BY <1>5 DEF DestroySensorChannel
  <2>2. subs' \in [Sensors -> [Pids -> Rates \cup {NoInfo}]]
    BY <2>1 DEF Inv
  <2> QED BY <1>1, <2>1, <2>2, ForgetKeeps
<1> QED BY <1>2, <1>3, <1>4, <1>5 DEF Call

\* Every step of the data thread and of the binder threads keeps the invariant.
LEMMA NextKeeps == Inv /\ [Next]_vars => Inv'
<1> SUFFICES ASSUME Inv, [Next]_vars PROVE Inv'
  OBVIOUS
<1>1. CASE UNCHANGED vars
  BY <1>1 DEF vars, dataVars, Inv
<1>2. CASE \E s \in Sensors : Take(s)
  BY <1>2, TakeKeeps
<1>3. CASE \E p \in Pids : Withhold(p) \/ Check(p)
  BY <1>3, FilterKeeps
<1>4. CASE \E oks \in [1 .. 2 -> BOOLEAN] : Deliver(oks)
  BY <1>4, DeliverKeeps
<1>5. CASE \E p \in Pids : Call(p)
  BY <1>5, CallKeeps
<1>6. CASE Block
  BY <1>6 DEF Block, Inv
<1> QED BY <1>1, <1>2, <1>3, <1>4, <1>5, <1>6 DEF Next

\* Every slot of the data processer is good at all times, up to the next event.
THEOREM AlwaysInv == Spec => []Inv
  BY InitInv, NextKeeps, PTL DEF Spec

-----------------------------------------------------------------------------
(* The promises                                                            *)

\* A channel gets the events of a sensor in the order of the driver, none twice
\* (SendRawData, CacheSensorEvent), for any number of processes, rates and
\* failed sends.
THEOREM AlwaysInOrder == Spec => []InOrder
<1>1. Inv => InOrder
  BY DEF Inv, Good, Ordered, Increasing, InOrder
<1> QED BY <1>1, AlwaysInv, PTL

\* A failed send costs older events only: the newest was sent last or waits in
\* the cache.
THEOREM AlwaysNewestKept == Spec => []NewestKept
<1>1. Inv => NewestKept
  BY DEF Inv, Good, Newest, Final, NewestKept
<1> QED BY <1>1, AlwaysInv, PTL

\* Who asked for one event in pc is never passed over pc times in a row
\* (SendNoneFifoCacheData), for any periods; but for the events dropped because
\* somebody asked for a period of zero (ComputeBestPeriodCount).
THEOREM AlwaysNotPassedOver == Spec => []NotPassedOver
<1>1. ASSUME Inv, NEW p \in Pids, NEW s \in Sensors, slot[p][s].pc # 0
      PROVE  slot[p][s].skipped < slot[p][s].pc
  <2> DEFINE sl == slot[p][s]
  <2>1. sl.count \in Nat /\ sl.pc \in Nat \ {0} /\ sl.skipped \in Nat
    BY <1>1 DEF Inv, AnySlot
  <2>2. sl.skipped <= sl.count % sl.pc
    BY <1>1 DEF Inv, Good, Counted
  <2> HIDE DEF sl
  <2>3. sl.count % sl.pc \in 0 .. sl.pc - 1
    BY <2>1, NextRemainder
  <2>4. sl.skipped < sl.pc
    BY <2>1, <2>2, <2>3
  <2> QED BY <2>4 DEF sl
<1>2. Inv => NotPassedOver
  BY <1>1 DEF NotPassedOver
<1> QED BY <1>2, AlwaysInv, PTL

\* A FIFO is never as long as what it is sent with, unless that was changed
\* (SendFifoCacheData), for any delays and periods.
THEOREM AlwaysFifoBounded == Spec => []FifoBounded
<1>1. Inv => FifoBounded
  BY DEF Inv, Good, Short, FifoBounded
<1> QED BY <1>1, AlwaysInv, PTL

-----------------------------------------------------------------------------
(* Blocks                                                                  *)

\* What living clients want blocked is blocked, and dead clients want nothing.
BlockInv ==
    /\ blocks \in [Targets -> [Clients -> SUBSET Types]]
    /\ asked \in [Targets -> [Clients -> SUBSET Types]]
    /\ \A t \in Targets, c \in Clients :
          /\ asked[t][c] \subseteq blocks[t][c]
          /\ c \notin alive => asked[t][c] = {}

\* Whoever is being given the event passed the filters.
Judged == cur # NoInfo => ~wanted

\* The calls and the deaths of clients keep what is wanted blocked; an observed
\* death clears the blocks of a client that wants nothing any more (BlockPolicy).
LEMMA BlockKeeps == BlockInv /\ BlockNext => BlockInv'
<1> SUFFICES ASSUME BlockInv, BlockNext PROVE BlockInv'
  OBVIOUS
<1> USE DEF BlockInv
<1>1. PICK c \in Clients :
        \/ \E t \in Targets, types \in SUBSET Types : BlockSensorDataByPid(t, c, types)
        \/ \E t \in Targets : UnblockSensorDataByClient(t, c)
        \/ Watch(c) \/ Unwatch(c)
        \/ ClientDies(c)
        \/ ClientDeathObserved(c)
  BY DEF BlockNext
<1>2. CASE \E t \in Targets, types \in SUBSET Types : BlockSensorDataByPid(t, c, types)
  BY <1>2 DEF BlockSensorDataByPid
<1>3. CASE \E t \in Targets : UnblockSensorDataByClient(t, c)
  BY <1>3 DEF UnblockSensorDataByClient
<1>4. CASE Watch(c) \/ Unwatch(c)
  BY <1>4 DEF Watch, Unwatch
<1>5. CASE ClientDies(c)
  BY <1>5 DEF ClientDies
<1>6. CASE ClientDeathObserved(c)
  BY <1>6 DEF ClientDeathObserved, ClearBlockPolicyByClient
<1> QED
  BY <1>1, <1>2, <1>3, <1>4, <1>5, <1>6

\* Whoever is being given an event is someone whom nobody wants blocked.
LEMMA NextJudged == Inv /\ BlockInv /\ Judged /\ [Next]_vars => BlockInv' /\ Judged'
<1> SUFFICES ASSUME Inv, BlockInv, Judged, [Next]_vars PROVE BlockInv' /\ Judged'
  OBVIOUS
<1> USE DEF BlockInv, Judged
<1>1. CASE UNCHANGED vars
  BY <1>1 DEF vars, dataVars, blockVars
<1>2. CASE \E s \in Sensors : Take(s)
  BY <1>2 DEF Take, blockVars
<1>3. CASE \E p \in Pids : Withhold(p)
  BY <1>3 DEF Withhold, blockVars
<1>4. ASSUME NEW p \in Pids, Check(p) PROVE BlockInv' /\ Judged'
  <2>1. ~IsSensorDataBlocked(p, event) /\ UNCHANGED blockVars
        /\ wanted' = (p \in Targets /\ \E c \in Clients : event \in asked[p][c])
    BY <1>4 DEF Check
  <2>2. ~wanted'
    BY <2>1 DEF IsSensorDataBlocked
  <2> QED BY <2>1, <2>2 DEF blockVars
<1>5. CASE \E oks \in [1 .. 2 -> BOOLEAN] : Deliver(oks)
  BY <1>5 DEF Deliver, blockVars
<1>6. CASE \E p \in Pids : Call(p)
  <2>1. UNCHANGED <<wanted, blockVars>> /\ cur' \in {cur, NoInfo}
    BY <1>6 DEF Call, SaveSubscriber, RemoveSubscriber, TransferDataChannel,
                DestroySensorChannel, ForgetChannel
  <2> QED BY <2>1 DEF blockVars
<1>7. CASE Block
  <2>1. BlockNext /\ UNCHANGED <<cur, wanted>>
    BY <1>7 DEF Block
  <2> QED BY <2>1, BlockKeeps
<1> QED BY <1>1, <1>2, <1>3, <1>4, <1>5, <1>6, <1>7 DEF Next

\* What a living client wants blocked, as the filters looked at it, is not sent
\* (IsBlockSensorData), whoever blocks, unblocks and dies meanwhile.
THEOREM AlwaysBlockedUnsent == Spec => BlockedUnsent
<1>1. Init => BlockInv /\ Judged
  BY DEF Init, BlockInit, NoBlocks, BlockInv, Judged
<1>2. ASSUME Inv, Judged, [Next]_vars, NEW p \in Pids, NEW s \in Sensors,
             slot'[p][s].got # slot[p][s].got, slot'[p][s].got # <<>>
      PROVE  ~wanted
  <2>1. CASE \E oks \in [1 .. 2 -> BOOLEAN] : Deliver(oks)
    BY <1>2, <2>1 DEF Deliver, Judged
  <2>2. CASE \E q \in Pids : ForgetChannel(q)
    <3>1. slot'[p][s] \in {slot[p][s], EmptySlot}
      BY <1>2, <2>2 DEF ForgetChannel, Inv
    <3> QED BY <1>2, <3>1 DEF EmptySlot
  <2>3. CASE UNCHANGED slot
    BY <1>2, <2>3
  <2>4. \/ \E oks \in [1 .. 2 -> BOOLEAN] : Deliver(oks)
        \/ \E q \in Pids : ForgetChannel(q)
        \/ UNCHANGED slot
    BY <1>2 DEF vars, dataVars, Next, Take, Withhold, Check, Block, Call, SaveSubscriber,
                RemoveSubscriber, TransferDataChannel, DestroySensorChannel
  <2> QED BY <2>1, <2>2, <2>3, <2>4
<1>3. Inv /\ Judged /\ [Next]_vars =>
        [\A p \in Pids, s \in Sensors :
           slot'[p][s].got # slot[p][s].got /\ slot'[p][s].got # <<>> => ~wanted]_vars
  BY <1>2
<1> QED BY <1>1, <1>3, AlwaysInv, NextJudged, PTL DEF Spec, BlockedUnsent
===============================================================================
