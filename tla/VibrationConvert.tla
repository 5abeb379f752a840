-------------------------- MODULE VibrationConvert --------------------------
(***************************************************************************)
(* A recording turned into vibrations (vibration_convert/core/native): the  *)
(* samples are thinned out and the noise between the sounds cleared, the   *)
(* onsets of the sounds and the peaks of the amplitude become transient    *)
(* events, the frames between them continuous ones, and both are stored in  *)
(* one list.                                                               *)
(*                                                                         *)
(* Times and durations are counted in samples.  A frame has two lengths:   *)
(* its loudness is that of EnergyHop samples (ENERGY_HOP_LEN, 46.44 ms),   *)
(* and it is taken to begin every FrameDuration (FRAME_DURATION, 46 ms).   *)
(* The system parameters have the values the source gives them.  The onset *)
(* detection and the estimate of frequencies are not part of the           *)
(* repository and the loudness of a frame is signal processing: onsets and *)
(* loudness are any the rest can be given, and the frequency of an event   *)
(* is left out.                                                            *)
(***************************************************************************)
EXTENDS PeakFinder

CONSTANTS Recordings,   \* the samples conversions begin with
          Quiet,        \* AMP_INVALIDE_DELTA, and LOWER_AMP, COEF of the maximum
          SilenceMin,   \* SILENCE_COUNT_MIN
          FragmentMin,  \* FRAGMENT_MIN_LEN
          LocalLen,     \* LOCAL_ENVELOPE_MAX_LEN
          EnergyHop,    \* ENERGY_HOP_LEN
          FrameDuration, \* FRAME_DURATION
          Transient,    \* TRANSIENT_DURATION_DEFAULT
          ContinuousMin, \* CONTINOUS_MIN_DURATION
          IntensityMin, \* TRANSIENT_EVENT_INTENSITY_MIN
          CombineDelta, \* intensityCombinateDelta
          Levels        \* the loudness a frame can have, out of 100

ASSUME ConvertAssumption ==
    /\ {SilenceMin, FragmentMin, LocalLen, EnergyHop, FrameDuration, Transient, ContinuousMin,
         CombineDelta} \subseteq Nat \ {0}
    /\ FrameDuration <= EnergyHop
    /\ Levels \subseteq 0 .. 100
    /\ Recordings \subseteq Seq(0 .. FullScale)
    /\ \A d \in Recordings : Len(d) > 4

VARIABLES exists,     \* continuousEventExistFlag_
          frames,     \* the number of frames the loudness is measured for
          unions,     \* unionTransientEvents: onsets and peaks, by frame
          rms,        \* the loudness of each frame
          transients, \* transientEvents_, with the frame each was taken for
          continuous, \* continuousEvents_
          events      \* hapticEvents_

convertVars == <<peakVars, exists, frames, unions, rms, transients, continuous, events>>

ConvertInit ==
    /\ stage = "recorded"
    /\ data \in Recordings
    /\ heights = <<>> /\ all = <<>> /\ mountains = <<>> /\ loop = <<>> /\ found = <<>>
    /\ exists = FALSE
    /\ frames = 0
    /\ unions = <<>> /\ rms = <<>> /\ transients = <<>> /\ continuous = <<>> /\ events = <<>>

-----------------------------------------------------------------------------
(* Two samples of every four, and silence between sounds.                  *)

ResampleAudioData(d) == Entries(d, {p \in DOMAIN d : p % 4 \in {1, 2}})

\* A silence that is long enough is cleared, and with it a short fragment before it
\* that began where the last such fragment ended.
Clear(s, i) ==
    LET begin == i - s.silence
        fragment == begin - s.pre < FragmentMin /\ begin > s.pre
    IN  [silence |-> 0,
         pre     |-> IF fragment THEN i ELSE s.pre,
         cleared |-> s.cleared \cup (IF fragment THEN s.pre ELSE begin) .. i - 1]

PreprocessAudioData(d) ==
    LET step(s, i) == IF d[i] < Quiet THEN [s EXCEPT !.silence = @ + 1]
                      ELSE IF s.silence <= SilenceMin THEN [s EXCEPT !.silence = 0]
                      ELSE Clear(s, i)
        end(s, n) == IF s.silence = 0 THEN s ELSE Clear(s, n)
        begin == [silence |-> 0, pre |-> 1, cleared |-> {}]
        s == Loop(end, Loop(step, begin, Steps(1, Len(d))), <<Len(d) + 1>>)
    IN  Samples([q \in DOMAIN d |-> IF q \in s.cleared THEN 0 ELSE d[q]])

LocalMax(d, i) == Greatest(d, i .. i + LocalLen - 1)

GetLocalEnvelope(d) ==
    LET kept == Samples([p \in DOMAIN d |-> IF 100 * d[p] < Greatest(d, DOMAIN d) THEN 0 ELSE d[p]])
    IN  Samples([p \in DOMAIN d |-> IF p + LocalLen - 1 <= Len(d) THEN LocalMax(kept, p)
                                    ELSE kept[p]])

\* The sounds of a recording that end before it does, as lengths.
Sounds(h) ==
    {n \in 1 .. Len(h) : \E i \in 1 .. Len(h) - n :
        /\ h[i + n] = 0
        /\ \A q \in i .. i + n - 1 : h[q] > 0
        /\ i > 1 => h[i - 1] = 0}

\* CalcOnsetHopLength: a sound of two frames is continuous, one of a single frame when
\* the recording is loud.
ContinuousEventExists(h, loud) ==
    \E n \in Sounds(h) : n > 2 * EnergyHop \/ (loud /\ n > EnergyHop)

PreprocessParameter ==
    /\ stage = "recorded"
    /\ \E taken \in {ResampleAudioData(data)} :
       \E d \in {PreprocessAudioData(taken)} :
       \E h \in {GetLocalEnvelope(d)} :
         /\ data' = d
         /\ frames' = (Len(d) + EnergyHop) \div EnergyHop
         /\ \E loud \in BOOLEAN : exists' = ContinuousEventExists(h, loud)
    /\ stage' = "peaks"
    /\ UNCHANGED <<heights, all, mountains, loop, found, unions, rms, transients, continuous,
                   events>>

-----------------------------------------------------------------------------
(* Onsets and peaks.                                                       *)

\* A union of an onset or a peak: its frame, its time, and whether it is transient.
AtFrame(i, t, flag) == [idx |-> i, time |-> t, transient |-> flag]

Rounded(n, d) == (2 * n + d) \div (2 * d)

\* MapOnsetHop and UniqueIdx: the onsets are found in half frames.
DetectOnset(onsets) ==
    LET half == InOrder(onsets)
        frame(k) == Rounded(half[k], 2)
        firsts == {k \in DOMAIN half : k = 1 \/ frame(k) # frame(k - 1)}
        onset == [k \in DOMAIN half |-> AtFrame(frame(k), Rounded(half[k] * EnergyHop, 2), FALSE)]
    IN  Entries(onset, firsts)

GetUnzeroCount(d) ==
    LET kept == Samples([p \in DOMAIN d |-> IF d[p] < Quiet THEN 0 ELSE d[p]])
        env == [p \in DOMAIN d |-> IF p + LocalLen <= Len(d) THEN LocalMax(kept, p) ELSE kept[p]]
    IN  Cardinality({p \in DOMAIN d : env[p] > 0})

IsTransientEventFlag(d) == GetUnzeroCount(d) < FrameDuration \/ 10 * GetUnzeroCount(d) < 3 * Len(d)

\* The samples of a third of the span before an onset and two thirds after it; with more
\* than one onset the i-th sample of the recording stands in for each of them.
LocalDatas(d, onsets, i) ==
    LET n == Len(onsets)
        at(k) == onsets[k].idx * EnergyHop
        span == IF n = 1 THEN 3 * EnergyHop
                ELSE IF i = n THEN at(n) - at(n - 1) ELSE at(i + 1) - at(i)
        begin == Max({0, at(i) - Rounded(span, 3)} \cup {at(k) : k \in {i - 1} \cap DOMAIN onsets})
        end == Min({at(i) + span - Rounded(span, 3), Len(d) - 1})
    IN  Samples([k \in 1 .. end - begin + 1 |-> IF n = 1 THEN d[begin + k] ELSE d[i]])

IsTransientEvent(d, onsets) ==
    Samples([i \in DOMAIN onsets |->
       [onsets[i] EXCEPT !.transient = IsTransientEventFlag(LocalDatas(d, onsets, i))]])

TranslateAnchorPoint(peak, flag) == AtFrame(Rounded(peak - 1, EnergyHop), peak - 1, flag)

\* A peak with no onset in its frame goes to its place among them, if there are any.
EmplaceOnsetTime(us, u) ==
    IF us = <<>> THEN us
    ELSE Entries(us, {i \in DOMAIN us : us[i].idx < u.idx}) \o <<u>>
           \o Entries(us, {i \in DOMAIN us : us[i].idx > u.idx})

Merge(us, u) ==
    IF \E v \in ToSet(us) : v.idx = u.idx
    THEN [i \in DOMAIN us |-> IF us[i].idx = u.idx THEN u ELSE us[i]]
    ELSE EmplaceOnsetTime(us, u)

ConvertTransientEvent ==
    /\ stage = "found"
    /\ \E onsets \in {s \in SUBSET (0 .. 2 * (frames - 1)) : Cardinality(s) <= 2} :
       \E us \in {DetectOnset(onsets)} :
       \E flagged \in {IsTransientEvent(data, us)} :
       \E peaks \in {[i \in DOMAIN found.mountains |->
                        TranslateAnchorPoint(found.mountains[i].peak, found.transient[i])]} :
         unions' = IF found.isHaveContinuousEvent
                   THEN Loop(Merge, flagged, Entries(peaks, {i \in DOMAIN peaks : peaks[i].transient}))
                   ELSE peaks
    /\ stage' = "merged"
    /\ data' = <<>> /\ heights' = <<>> /\ all' = <<>>
    /\ mountains' = <<>> /\ loop' = <<>> /\ found' = <<>>
    /\ UNCHANGED <<exists, frames, rms, transients, continuous, events>>

-----------------------------------------------------------------------------
(* Loudness and the transient events.                                      *)

\* Loudness that never changes cannot be brought to a scale from 0 to 100.
DetectRmsIntensity ==
    /\ stage = "merged"
    /\ rms' \in [0 .. frames - 1 -> Levels]
    /\ stage' = IF \A i, j \in 0 .. frames - 1 : rms'[i] = rms'[j] THEN "failed" ELSE "measured"
    /\ UNCHANGED <<data, heights, all, mountains, loop, found, exists, frames, unions, transients,
                   continuous, events>>

AddTransientEventData(ts, i, t, intensity) ==
    Append(ts, [idx |-> i, time |-> t, intensity |-> Max({intensity, IntensityMin})])

Out(ts, i) == \E e \in ToSet(ts) : e.idx = i

\* The loudest of a frame and the two that follow.
Loudest(j) == Greatest(rms, j .. Max({j, Min({j + 2, frames - 2})}))

\* The frames a time falls into: they overlap, and the last one ends before the
\* recording when there are enough of them.
FramesAt(t) == {j \in 0 .. frames - 1 : j * FrameDuration <= t /\ t < j * FrameDuration + EnergyHop}
FramesEnd == (frames - 1) * FrameDuration + EnergyHop

\* Changed: the last frame is not looked at.
LastFrameMutant(ts, u) ==
    LET js == FramesAt(u.time) \ {frames - 1}
        j == Min(js)
    IN  IF js = {} \/ Out(ts, j) THEN ts ELSE AddTransientEventData(ts, j, u.time, Loudest(j))

\* The first frame an onset falls into; an onset that falls into none is left out.
ByInsertTime(ts, u) ==
    LET js == FramesAt(u.time)
        j == Min(js)
    IN  IF js = {} \/ Out(ts, j) THEN ts ELSE AddTransientEventData(ts, j, u.time, Loudest(j))

Direct(ts, u) ==
    IF Out(ts, u.idx) THEN ts
    ELSE AddTransientEventData(ts, u.idx, u.idx * FrameDuration, rms[u.idx])

OutputTransientEvents ==
    /\ stage = "measured"
    /\ transients' = IF exists THEN Loop(Direct, <<>>, unions)
                      ELSE Loop(ByInsertTime, <<>>, unions)
    /\ stage' = "transients"
    /\ UNCHANGED <<data, heights, all, mountains, loop, found, exists, frames, unions, rms, continuous,
                   events>>

-----------------------------------------------------------------------------
(* The continuous events: every frame is one until a transient event takes *)
(* its place, and those that touch are combined.                           *)

Piece(t, n) == [time |-> t, duration |-> n]

\* What a transient event leaves of its frame i, of the one before and of the one after.
Cut(s, i, e) ==
    LET begin == i * FrameDuration
        end == e.time + Transient
        before == e.time - begin
        after == begin + FrameDuration - end
        spill == IF after < ContinuousMin
                 THEN [s EXCEPT ![i + 1] = Piece(end, after + @.duration)] ELSE s
    IN  IF before >= ContinuousMin
        THEN [spill EXCEPT ![i] = Piece(begin, before)]
        ELSE [k \in DOMAIN s |->
                IF k = i - 1 THEN Piece(s[k].time, s[k].duration + before)
                ELSE IF k = i THEN Piece(end, IF after < ContinuousMin THEN 0 ELSE after)
                ELSE spill[k]]

InsertTransientEvent(s, i) ==
    LET here == {k \in DOMAIN transients : transients[k].idx = i}
        cut == Cut(s, i, transients[Min(here)])
    IN  IF here = {} THEN s
        ELSE IF unions[Min(here)].transient THEN [cut EXCEPT ![i].duration = 0]
        ELSE cut

FillDefaultContinuousEvents == [i \in 0 .. frames - 1 |-> Piece(i * FrameDuration, FrameDuration)]

Near(i, j) == rms[i] - rms[j] \in (1 - CombineDelta) .. (CombineDelta - 1)

Event(s, i, n) == [time |-> s[i].time, duration |-> n, intensity |-> rms[i]]

\* Frames from i up to j whose loudness is near that of the first become one event.
CombinateContinuousEvents(s, i, j) ==
    LET group(gs, k) == IF gs # <<>> /\ Near(Last(gs).from, k)
                        THEN [gs EXCEPT ![Len(gs)].to = k]
                        ELSE Append(gs, [from |-> k, to |-> k])
        groups == Loop(group, <<>>, Steps(i, j - 1))
        long(g) == MapThenSumSet(LAMBDA k : s[k].duration, g.from .. g.to)
    IN  [k \in DOMAIN groups |-> Event(s, groups[k].from, long(groups[k]))]

\* One frame of the inner loop, which breaks off where the frame the outer loop is at
\* does not touch the next one.
Scan(s, i, a, q) ==
    LET sum == a.sum + s[q].duration
        touches == rms[q] # 0 /\ s[q].time + sum = s[q + 1].time
    IN  CASE a.broken  -> a
          [] ~ a.broken /\ touches -> [a EXCEPT !.sum = sum, !.j = q + 1]
          [] ~ a.broken /\ ~ touches /\ q = i ->
               [a EXCEPT !.broken = TRUE, !.out = Append(@, Event(s, i, s[i].duration))]
          [] OTHER -> [a EXCEPT !.sum = sum, !.j = q + 1,
                                !.out = @ \o CombinateContinuousEvents(s, i, q)]

MergeContinuousEvents(s) ==
    LET outer(a, i) ==
          IF i < a.j \/ rms[i] = 0 \/ s[i].duration = 0 THEN a
          ELSE Loop(LAMBDA b, q : Scan(s, i, b, q), [a EXCEPT !.sum = 0, !.broken = FALSE],
                        Steps(a.j, frames - 2))
    IN  Loop(outer, [j |-> 0, sum |-> 0, broken |-> FALSE, out |-> <<>>],
                 Steps(0, frames - 1)).out

OutputAllContinuousEvent ==
    /\ stage = "transients"
    /\ \E s \in {Loop(InsertTransientEvent, FillDefaultContinuousEvents, Steps(0, frames - 2))} :
         continuous' = IF exists /\ Len(transients) = Len(unions) THEN MergeContinuousEvents(s)
                       ELSE <<>>
    /\ stage' = "continuous"
    /\ UNCHANGED <<data, heights, all, mountains, loop, found, exists, frames, unions, rms, transients,
                   events>>

-----------------------------------------------------------------------------
(* The list of both.                                                       *)

Stored(tag, e, n) == [tag |-> tag, time |-> e.time, duration |-> n, intensity |-> e.intensity]

Between(from, to) ==
    LET ts == Entries(transients, {k \in DOMAIN transients :
                                     from < transients[k].time /\ transients[k].time < to})
    IN  [k \in DOMAIN ts |-> Stored("transient", ts[k], Transient)]

StoreEventSequence ==
    LET add(a, c) == [pre |-> c.time,
                      out |-> a.out \o Between(a.pre, c.time)
                                \o <<Stored("continuous", c, c.duration)>>]
    IN  IF continuous = <<>>
        THEN [k \in DOMAIN transients |-> Stored("transient", transients[k], Transient)]
        ELSE Loop(add, [pre |-> -1, out |-> <<>>], continuous).out

StoreHapticEvent ==
    /\ stage = "continuous"
    /\ events' = StoreEventSequence
    /\ stage' = "stored"
    /\ UNCHANGED <<data, heights, all, mountains, loop, found, exists, frames, unions, rms, transients,
                   continuous>>

Finished == stage \in {"stored", "failed", "crashed"} /\ UNCHANGED convertVars

ConvertNext ==
    \/ PreprocessParameter
    \/ FindPeaks /\ UNCHANGED <<exists, frames, unions, rms, transients, continuous, events>>
    \/ ConvertTransientEvent
    \/ DetectRmsIntensity
    \/ OutputTransientEvents
    \/ OutputAllContinuousEvent
    \/ StoreHapticEvent
    \/ Finished

\* One thread converts and nothing it does waits, so a loop that has begun goes on.
ConvertSpec == ConvertInit /\ [][ConvertNext]_convertVars /\ WF_peakVars(FilterSecondaryPeak)

-----------------------------------------------------------------------------
(* What a conversion promises.                                             *)

\* A recording without continuous events becomes transient ones in the order of time,
\* and every onset and peak in the list of both is heard in a frame of its own time,
\* unless it lies after the last frame (OutputTransientEventsByInsertTime,
\* StoreEventSequence). Not in that list are the peaks of a recording with continuous
\* sounds in which no onset was found (vibration_convert_core.cpp:505).
EveryPeakHeard ==
    stage = "stored" /\ ~ exists =>
      /\ \A i, j \in DOMAIN events : i < j => events[i].time < events[j].time
      /\ \A u \in ToSet(unions) : u.time < FramesEnd =>
           \E e \in ToSet(events) : FramesAt(e.time) \cap FramesAt(u.time) # {}
=============================================================================
