----------------------------- MODULE PeakFinder -----------------------------
(***************************************************************************)
(* The search for the short events of a recording                          *)
(* (vibration_convert/core/algorithm/peak_finder): the peaks of the        *)
(* amplitude, those that belong to one event thrown away, and the stretch  *)
(* of the recording around each one that is left.                          *)
(*                                                                         *)
(* Amplitudes are whole numbers from 0 to FullScale, which stands for 1.0, *)
(* and a threshold is in hundredths of that unit, so that every ratio of   *)
(* the code is a comparison of whole numbers.  The sign of a sample is     *)
(* never looked at and left out.  Positions count from 1.  The loop over   *)
(* the peaks of one stretch is taken a turn at a time, for it erases the   *)
(* entries it counts with.                                                 *)
(***************************************************************************)
EXTENDS Integers, FiniteSets, SequencesExt

CONSTANTS FullScale,       \* the amplitude 1.0
          EnvelopeHop,     \* AMPLITUDE_ENVELOPE_HOP_LENGTH
          MinSampleCount,  \* PEAKS_MIN_SAMPLE_COUNT
          MaxN,            \* MAX_N
          HopLength        \* hopLength_

ASSUME PeakAssumption ==
    {FullScale, EnvelopeHop, MinSampleCount, MaxN, HopLength} \subseteq Nat \ {0}

VARIABLES stage,     \* how far the conversion has come
          data,      \* the samples, as magnitudes
          heights,   \* ampPeakEnvelope: the highest sample of each block
          all,       \* ampPeakAllIdx: the peaks before the secondary ones go
          mountains, \* wholeEnvelop: the peaks that are left, each in its stretch
          loop,      \* the counters of FilterSecondaryPeak and DeletePeaks
          found      \* IsolatedEnvelopeInfo and voiceSegmentFlag_

peakVars == <<stage, data, heights, all, mountains, loop, found>>

Highest(f, S) == CHOOSE p \in S : \A q \in S : f[q] < f[p] \/ (f[q] = f[p] /\ p <= q)
Greatest(f, S) == f[Highest(f, S)]
Least(f, S) == CHOOSE x \in {f[p] : p \in S} : \A q \in S : x <= f[q]
Steps(from, to) == [k \in 1 .. Max({0, to - from + 1}) |-> from + k - 1]

\* The values of a function over 1 .. n, worked out once.
Samples(f) == <<>> \o f

InOrder(S) ==
    Samples([k \in 1 .. Cardinality(S) |->
               CHOOSE x \in S : Cardinality({y \in S : y <= x}) = k])

\* The entries of a sequence at some of its places.
Entries(s, S) == LET place == InOrder(S) IN Samples([k \in DOMAIN place |-> s[place[k]]])

\* A loop over s: FoldLeft, with what each turn leaves bound to a value.
Loop(turn(_, _), base, s) ==
    LET after[k \in 0 .. Len(s)] ==
          IF k = 0 THEN base ELSE CHOOSE y \in {turn(x, s[k]) : x \in {after[k - 1]}} : TRUE
    IN  after[Len(s)]

Below(x, threshold) == 100 * x < threshold

-----------------------------------------------------------------------------
(* The amplitude in blocks, and where it turns from rising to falling.     *)

BlockPeak(d, k) == Highest(d, (k - 1) * EnvelopeHop + 1 .. k * EnvelopeHop)

Envelope(d) == Samples([k \in 1 .. Len(d) \div EnvelopeHop |-> d[BlockPeak(d, k)]])

Rise(h, k) == h[k + 1] - h[k]

Turns(h) == {k \in 2 .. Len(h) - 1 : Rise(h, k - 1) > 0 /\ Rise(h, k) < 0}

\* Twice the mean of the rise to a peak and the fall from it.
Sharpness(h, k) == Rise(h, k - 1) - Rise(h, k)

\* With more than three turns the two sharpest do not count: a tenth of the third.
Steep(h) ==
    LET sharp == [k \in Turns(h) |-> Sharpness(h, k)]
        first == Highest(sharp, DOMAIN sharp)
        second == Highest(sharp, DOMAIN sharp \ {first})
    IN  IF Cardinality(DOMAIN sharp) > 3
        THEN {k \in DOMAIN sharp : 10 * sharp[k] > Greatest(sharp, DOMAIN sharp \ {first, second})}
        ELSE {k \in DOMAIN sharp : 2 * sharp[k] > sharp[first]}

DetectPeak(h) == Steep(h) \cup {k \in {1} : Rise(h, 1) < 0 /\ Rise(h, 2) < 0}

FilterLowPeak(h, peaks) == {p \in peaks : 10 * h[p] >= Greatest(h, peaks)}

-----------------------------------------------------------------------------
(* The stretch around a peak: from the last sample under the threshold      *)
(* before it to the first one after it.                                    *)

FindPeakBoundary(h, p, threshold) ==
    [first |-> Max({1} \cup {q \in 1 .. p : Below(h[q], threshold)}),
     peak  |-> p,
     last  |-> Min({Len(h)} \cup {q \in p .. Len(h) : Below(h[q], threshold)})]

\* A peak within the stretch of the one before it takes over that stretch, which is
\* the one it would find itself.
GetEachIndependentEnvelope(h, peaks, threshold) ==
    Samples([i \in DOMAIN peaks |-> FindPeakBoundary(h, peaks[i], threshold)])

\* A tenth of the lowest peak, in hundredths.
LowerAmp(h, peaks) == 10 * Least(h, ToSet(peaks))

GetLowestPeakValue(h, peaks) ==
    LET highest == Greatest(h, ToSet(peaks))
        ratio == IF 10 * highest > 6 * FullScale THEN 30
                 ELSE IF 10 * highest > 4 * FullScale THEN 20 ELSE 10
    IN  ratio * Least(h, ToSet(peaks))

\* A recording whose amplitude never turns leaves *max_element nothing to point at.
NoTurn ==
    /\ stage = "peaks"
    /\ \E h \in {Envelope(data)} : Turns(h) = {}
    /\ stage' = "crashed"
    /\ UNCHANGED <<data, heights, all, mountains, loop, found>>

GetPeakEnvelope ==
    /\ stage = "peaks"
    /\ \E h \in {Envelope(data)} :
         /\ Turns(h) # {}
         /\ \E peaks \in {InOrder(FilterLowPeak(h, DetectPeak(h)))} :
              /\ heights' = h
              /\ all' = peaks
              /\ mountains' = GetEachIndependentEnvelope(h, peaks, LowerAmp(h, peaks))
    /\ loop' = [next |-> 2, front |-> 1, more |-> 0, to |-> 0,
                first |-> mountains'[1].first, last |-> mountains'[1].last]
    /\ stage' = "secondary"
    /\ UNCHANGED <<data, found>>

-----------------------------------------------------------------------------
(* FilterSecondaryPeak: the peaks of one stretch are counted, and where the *)
(* stretch ends those among them that drop by less than 30 % on both sides, *)
(* or on one side towards a higher one, are deleted.                       *)

Together == /\ loop.next \in DOMAIN mountains
            /\ mountains[loop.next].first = loop.first
            /\ mountains[loop.next].last = loop.last

OneMore ==
    /\ stage = "secondary"
    /\ loop.next < Len(mountains)
    /\ Together
    /\ loop' = [loop EXCEPT !.more = @ + 1, !.next = @ + 1]
    /\ UNCHANGED <<stage, data, heights, all, mountains, found>>

NextStretch ==
    /\ stage = "secondary"
    /\ loop.next <= Len(mountains)
    /\ loop.more = 0
    /\ ~ Together
    /\ loop' = [loop EXCEPT !.next = @ + 1, !.front = loop.next,
                            !.first = mountains[loop.next].first,
                            !.last = mountains[loop.next].last]
    /\ UNCHANGED <<stage, data, heights, all, mountains, found>>

\* The stretch ends before the peak looked at, or with it when it is the last.
Members == loop.more + IF Together THEN 1 ELSE 0

StretchEnds ==
    /\ stage = "secondary"
    /\ loop.next <= Len(mountains)
    /\ Members > 0
    /\ Together => loop.next = Len(mountains)
    /\ loop.front < Len(mountains)
    /\ stage' = "delete"
    /\ loop' = [loop EXCEPT !.to = loop.front + Members]
    /\ UNCHANGED <<data, heights, all, mountains, found>>

Filtered ==
    /\ stage = "secondary"
    /\ \/ loop.next > Len(mountains)
       \/ /\ Members > 0
          /\ Together => loop.next = Len(mountains)
          /\ loop.front = Len(mountains)
    /\ stage' = "isolate"
    /\ UNCHANGED <<data, heights, all, mountains, loop, found>>

Lowest(k) == Least(heights, mountains[k].peak .. mountains[k + 1].peak - 1)

\* DetectValley: the lowest point on each side of a peak.
Valley(k, side) ==
    IF side = "left"
    THEN IF k > 1 THEN Lowest(k - 1) ELSE heights[mountains[1].first]
    ELSE IF k < loop.to THEN Lowest(k) ELSE heights[mountains[k].last]

\* A comparison with a peak before the first one or after the last one reads
\* whatever lies beyond the array.
Under(k, other) ==
    IF other \in DOMAIN mountains
    THEN {heights[mountains[k].peak] < heights[mountains[other].peak]}
    ELSE BOOLEAN

\* Changed: a peak that stands out on one side goes whatever its neighbour's height.
AnyNeighbourMutant(k) ==
    LET peak == heights[mountains[k].peak]
        drop(side) == 10 * (peak - Valley(k, side)) - 3 * peak
    IN  {drop("left") * drop("right") < 0 \/ (drop("left") < 0 /\ drop("right") < 0)}

GetDeleteFlagOfPeak(k) ==
    LET peak == heights[mountains[k].peak]
        drop(side) == 10 * (peak - Valley(k, side)) - 3 * peak
    IN  CASE drop("left") < 0 /\ drop("right") < 0 -> {TRUE}
          [] drop("left") > 0 /\ drop("right") < 0 -> Under(k, k + 1)
          [] drop("left") < 0 /\ drop("right") > 0 -> Under(k, k - 1)
          [] OTHER                                 -> {FALSE}

\* One turn of DeletePeaks: the first peak whose flag is set goes.
DeletePeak ==
    /\ stage = "delete"
    /\ \E k \in loop.front .. loop.to :
         /\ TRUE \in GetDeleteFlagOfPeak(k)
         /\ \A j \in loop.front .. k - 1 : FALSE \in GetDeleteFlagOfPeak(j)
         /\ mountains' = RemoveAt(mountains, k)
         /\ loop' = IF loop.to - 1 > loop.front
                    THEN [loop EXCEPT !.to = @ - 1]
                    ELSE [loop EXCEPT !.to = @ - 1, !.front = loop.to - 1,
                                      !.next = loop.to - 1, !.more = 0]
         /\ stage' = IF loop.to - 1 > loop.front THEN "delete" ELSE "secondary"
    /\ UNCHANGED <<data, heights, all, found>>

\* Changed: the count does not go on behind the stretch that was looked at.
SamePlaceMutant ==
    /\ stage = "delete"
    /\ \A k \in loop.front .. loop.to : FALSE \in GetDeleteFlagOfPeak(k)
    /\ stage' = "secondary"
    /\ UNCHANGED <<data, heights, all, mountains, loop, found>>

NothingToDelete ==
    /\ stage = "delete"
    /\ \A k \in loop.front .. loop.to : FALSE \in GetDeleteFlagOfPeak(k)
    /\ loop' = [loop EXCEPT !.front = loop.to, !.next = loop.to, !.more = 0]
    /\ stage' = "secondary"
    /\ UNCHANGED <<data, heights, all, mountains, found>>

FilterSecondaryPeak ==
    \/ OneMore
    \/ NextStretch
    \/ StretchEnds
    \/ Filtered
    \/ DeletePeak
    \/ NothingToDelete

-----------------------------------------------------------------------------
(* Back to samples: peaks that are too close, and the stretch of each of   *)
(* the others in the recording itself.                                     *)

PeakFilterMinRange(d, peaks) ==
    Loop(LAMBDA kept, p :
               IF kept = <<>> \/ p - Last(kept) >= MinSampleCount THEN Append(kept, p)
               ELSE IF d[Last(kept)] >= d[p] THEN kept
               ELSE Append(Front(kept), p),
             <<>>, peaks)

\* The samples under the threshold are cleared, and each up to the one given takes the
\* highest of the MaxN from it on.
TriangularEnvelope(d, threshold, upTo) ==
    LET kept == Samples([p \in DOMAIN d |-> IF Below(d[p], threshold) THEN 0 ELSE d[p]])
    IN  Samples([p \in DOMAIN d |-> IF p <= upTo THEN Greatest(kept, p .. p + MaxN - 1)
                                    ELSE kept[p]])

Span(m) == m.last - m.first

\* The magnitudes are kept as whole numbers: all but the full scale becomes 0.
VoiceAmp(d, peaks) ==
    LET amp == [i \in DOMAIN peaks |-> d[peaks[i]] \div FullScale]
    IN  FullScale * IF Len(peaks) > 2 THEN 100 * amp[(3 * Len(peaks)) \div 4 + 1]
                    ELSE 25 * Greatest(amp, DOMAIN amp)

SplitVoiceSlienceRange(d, ms) ==
    LET voiced == UNION {m.first .. m.last : m \in ToSet(ms)}
        segment(k) == (k - 1) * HopLength + 1 .. k * HopLength
    IN  [k \in 1 .. (Len(d) + HopLength - 1) \div HopLength |-> segment(k) \cap voiced # {}]

GetIsolatedEnvelope(ms, voice) ==
    [mountains |-> ms,
     transient |-> [i \in DOMAIN ms |-> Span(ms[i]) < HopLength],
     isHaveContinuousEvent |-> \E m \in ToSet(ms) : Span(m) > 2 * HopLength,
     voice |-> voice]

ObtainTransientByAmplitude ==
    /\ stage = "isolate"
    /\ \E near \in {[i \in DOMAIN mountains |-> BlockPeak(data, mountains[i].peak)]} :
       \E peaks \in {PeakFilterMinRange(data, near)} :
       \E amp \in {GetLowestPeakValue(heights, all)}, loud \in {VoiceAmp(data, peaks)} :
       \E isolated \in {TriangularEnvelope(data, amp, Len(data) - MaxN + 1)},
          voiced \in {TriangularEnvelope(data, loud, Len(data) - MaxN)} :
       \E ms \in {GetEachIndependentEnvelope(isolated, peaks, amp)},
          vs \in {GetEachIndependentEnvelope(voiced, peaks, loud)} :
         found' = GetIsolatedEnvelope(ms, SplitVoiceSlienceRange(data, vs))
    /\ stage' = "found"
    /\ UNCHANGED <<data, heights, all, mountains, loop>>

FindPeaks ==
    \/ NoTurn
    \/ GetPeakEnvelope
    \/ FilterSecondaryPeak
    \/ ObtainTransientByAmplitude

-----------------------------------------------------------------------------
(* What the search promises.                                               *)

\* What lies at exactly the 30 % that a peak must stand out by: GetDeleteFlagOfPeak leaves
\* such a peak alone and does not make up its mind about its neighbours.
AtThreshold(p) == \E q \in DOMAIN heights : 7 * heights[p] = 10 * heights[q]

\* In a recording that begins and ends quietly, and in which no peak drops by exactly
\* 30 %, deleting the secondary peaks leaves in every stretch a peak at least as high as
\* each that was there (FilterSecondaryPeak counts in entries it erases, and goes one
\* past the stretch the second time).
StretchKept ==
    stage = "isolate" =>
      LET amp == LowerAmp(heights, all)
          own(p) == FindPeakBoundary(heights, p, amp)
      IN  /\ Below(heights[1], amp) /\ Below(heights[Len(heights)], amp)
          /\ \A p \in ToSet(all) : ~ AtThreshold(p)
          => \A p \in ToSet(all) : \E m \in ToSet(mountains) :
               /\ m.peak \in own(p).first .. own(p).last
               /\ heights[p] <= heights[m.peak]

\* Counting entries that are erased under the count comes to an end by itself: the model
\* has no LOOP_TIMES_MAX that would stop it (FilterSecondaryPeak, DeletePeaks).
Ends == stage \in {"secondary", "delete"} ~> stage = "isolate"
=============================================================================
