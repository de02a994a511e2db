------------------------ MODULE VideoAdapterProofs ------------------------
(* VideoAdapter for every camera, every request and every timestamp: the    *)
(* size of what it lets through, and its pace.                              *)
EXTENDS VideoAdapter, FrameScalingProofs

(* The targets since the last reset or request stand in a series, one       *)
(* interval apart, and the last kept frame came not before its own.         *)
SeriesOfTargets ==
    /\ kept = 0 => base = next_frame_timestamp
    /\ kept > 0 =>
          /\ Throttled
          /\ base # None /\ next_frame_timestamp # None /\ lastKept # None
          /\ next_frame_timestamp = base + kept * Interval
          /\ base + (kept - 1) * Interval <= lastKept

(* A target is never further away than the interval it was set with. *)
TargetNear ==
    next_frame_timestamp # None =>
        lastKept # None /\ next_frame_timestamp <= lastKept + pace

(* The target has not moved since the first of the frames dropped in a row, *)
(* and that one was early for it and not out of its range.                  *)
FirstInRange ==
    first # None /\ resolution_request_max > 0 /\ max_framerate_request > 0 =>
        /\ next_frame_timestamp # None
        /\ first < next_frame_timestamp /\ next_frame_timestamp < first + 2 * Interval

(* The inductive invariant. *)
PInv ==
    /\ AdapterTypeOK /\ SeriesOfTargets /\ TargetNear /\ FirstInRange
    /\ SinksNotStarved /\ OutputInBounds

--------------------------------------------------------------------------
(* Under a rate the interval is a number. *)
LEMMA IntervalNat ==
    ASSUME AdapterTypeOK, max_framerate_request > 0
    PROVE  Interval \in Nat
BY ClockAssumption DEF AdapterTypeOK, Interval

(* No frame has come and nothing was requested. *)
LEMMA InitPInv == AdapterInit => PInv
BY RequestsAssumption
DEF AdapterInit, PInv, AdapterTypeOK, NoOutput, SeriesOfTargets, TargetNear, FirstInRange,
    SinksNotStarved, OutputInBounds

(* A new request starts a series of its own and says nothing of a frame. *)
LEMMA RequestPInv ==
    ASSUME PInv, NEW r \in Requests, OnResolutionFramerateRequest(r)
    PROVE  PInv'
<1>1. r.max \in Nat /\ r.fps \in Nat /\ TargetOr(r) \in Nat
  BY RequestsAssumption DEF TargetOr
<1>2. AdapterTypeOK'
  BY <1>1 DEF OnResolutionFramerateRequest, PInv, AdapterTypeOK, NoOutput
<1>. QED
  BY <1>2 DEF OnResolutionFramerateRequest, PInv, SeriesOfTargets, TargetNear, FirstInRange,
              SinksNotStarved, OutputInBounds

(* A dropped frame: if not for the limit, it was early. *)
LEMMA DropPInv ==
    ASSUME PInv, NEW t \in 0 .. MaxTime, Drop(t)
    PROVE  PInv'
<1>1. t \in Nat
  BY ClockAssumption
<1>2. /\ stamp' = t /\ outcome' = "dropped" /\ out' = <<0, 0>>
      /\ first' = IF first = None THEN t ELSE first
      /\ UNCHANGED <<resolution_request_target, resolution_request_max,
                     max_framerate_request, next_frame_timestamp, in, lastKept, pace,
                     base, kept>>
  BY DEF Drop, request, history, NoOutput
<1>3. AdapterTypeOK'
  BY <1>1, <1>2 DEF PInv, AdapterTypeOK
<1>4. SeriesOfTargets' /\ TargetNear'
  BY <1>2 DEF PInv, SeriesOfTargets, TargetNear, Throttled, Interval
<1>5. FirstInRange' /\ SinksNotStarved'
  <2>. SUFFICES ASSUME resolution_request_max > 0, max_framerate_request > 0
                PROVE  /\ next_frame_timestamp # None
                       /\ first' < next_frame_timestamp
                       /\ next_frame_timestamp < first' + 2 * Interval
                       /\ AbsDiff(t, first') < 2 * Interval
                       /\ t < lastKept + pace
    BY <1>2 DEF FirstInRange, SinksNotStarved, Interval
  <2>. DEFINE I == Interval
  <2>1. I \in Nat
    BY IntervalNat DEF PInv
  <2>2. Early(t)
    BY DEF Drop, KeepFrame, PInv, AdapterTypeOK
  <2>3. /\ next_frame_timestamp # None /\ t < next_frame_timestamp
        /\ AbsDiff(next_frame_timestamp, t) < 2 * I
    BY <2>2 DEF Early, InRange
  <2>4. /\ next_frame_timestamp \in Nat /\ lastKept \in Nat /\ pace \in Nat
        /\ next_frame_timestamp <= lastKept + pace
    BY <2>3 DEF PInv, AdapterTypeOK, TargetNear
  <2>5. first # None => /\ first \in Nat /\ first < next_frame_timestamp
                        /\ next_frame_timestamp < first + 2 * I
    BY DEF PInv, AdapterTypeOK, FirstInRange
  <2>. HIDE DEF I
  <2>6. next_frame_timestamp < t + 2 * I
    BY <1>1, <2>1, <2>3, <2>4 DEF AbsDiff
  <2>7. /\ first' \in Nat /\ first' < next_frame_timestamp
        /\ next_frame_timestamp < first' + 2 * I
    BY <1>1, <1>2, <2>3, <2>5, <2>6
  <2>8. AbsDiff(t, first') < 2 * I
    <3>. DEFINE f == first'
                n == next_frame_timestamp
    <3>1. /\ f \in Nat /\ n \in Nat /\ t < n /\ f < n
          /\ n < t + 2 * I /\ n < f + 2 * I
      BY <2>3, <2>4, <2>6, <2>7
    <3>. SUFFICES AbsDiff(t, f) < 2 * I
      OBVIOUS
    <3>. HIDE DEF f, n
    <3>. QED  BY <1>1, <2>1, <3>1 DEF AbsDiff
  <2>9. t < lastKept + pace
    BY <1>1, <2>3, <2>4
  <2>. QED  BY <2>3, <2>7, <2>8, <2>9 DEF I
<1>6. OutputInBounds'
  BY <1>2 DEF OutputInBounds
<1>. QED  BY <1>3, <1>4, <1>5, <1>6 DEF PInv

(* How a kept frame moves the target. *)
LEMMA AdvancePace ==
    ASSUME PInv, NEW t \in Nat, KeepFrame(t), Advance(t),
           UNCHANGED <<resolution_request_target, resolution_request_max,
                       max_framerate_request>>
    PROVE  /\ next_frame_timestamp' \in Nat \cup {None}
           /\ lastKept' \in Nat \cup {None} /\ pace' \in Nat
           /\ base' \in Nat \cup {None} /\ kept' \in Nat
           /\ SeriesOfTargets' /\ TargetNear'
<1>. DEFINE I == Interval
<1>1. max_framerate_request > 0 /\ I \in Nat /\ ~Early(t)
  BY IntervalNat DEF KeepFrame, PInv
<1>2. /\ next_frame_timestamp \in Nat \cup {None} /\ base \in Nat \cup {None}
      /\ lastKept \in Nat \cup {None} /\ pace \in Nat /\ kept \in Nat
      /\ None \notin Int
  BY RequestsAssumption DEF PInv, AdapterTypeOK
<1>3. Interval' = I /\ (Throttled' <=> Throttled)
  BY DEF Throttled, Interval
<1>4. CASE ~Throttled
  <2>1. UNCHANGED <<next_frame_timestamp, lastKept, pace, base, kept>>
    BY <1>4 DEF Advance, history
  <2>. QED  BY <1>2, <1>3, <2>1 DEF PInv, SeriesOfTargets, TargetNear
<1>5. CASE Throttled /\ InRange(t)
  <2>1. /\ lastKept' = t /\ pace' = I
        /\ next_frame_timestamp' = next_frame_timestamp + I
        /\ kept' = kept + 1 /\ base' = base
    BY <1>5 DEF Advance, NextTarget
  <2>2. next_frame_timestamp \in Nat /\ next_frame_timestamp <= t
    BY <1>1, <1>2, <1>5 DEF InRange, Early
  <2>3. base \in Nat /\ next_frame_timestamp = base + kept * I
    <3>1. CASE kept = 0
      <4>1. base = next_frame_timestamp
        BY <3>1 DEF PInv, SeriesOfTargets
      <4>. QED  BY <1>1, <2>2, <3>1, <4>1
    <3>2. CASE kept > 0
      BY <1>2, <3>2 DEF PInv, SeriesOfTargets
    <3>. QED  BY <1>2, <3>1, <3>2
  <2>. HIDE DEF I
  <2>4. /\ next_frame_timestamp' \in Nat /\ kept' \in Nat /\ kept' > 0 /\ base' \in Nat
        /\ lastKept' \in Nat /\ pace' \in Nat
        /\ next_frame_timestamp' <= lastKept' + pace'
    BY <1>1, <1>2, <2>1, <2>2, <2>3
  <2>5. (kept + 1) * I = kept * I + I
    BY <1>1, <1>2
  <2>6. /\ next_frame_timestamp' = base' + kept' * I
        /\ base' + (kept' - 1) * I <= lastKept'
    BY <1>1, <1>2, <2>1, <2>2, <2>3, <2>5
  <2>7. SeriesOfTargets'
    BY <1>2, <1>3, <1>5, <2>4, <2>6 DEF SeriesOfTargets
  <2>8. TargetNear'
    <3>1. lastKept' # None
      BY <1>2, <2>4
    <3>. QED  BY <2>4, <3>1 DEF TargetNear
  <2>. QED  BY <2>4, <2>7, <2>8
<1>6. CASE Throttled /\ ~InRange(t)
  <2>1. /\ lastKept' = t /\ pace' = I
        /\ next_frame_timestamp' = t + I \div 2
        /\ base' = next_frame_timestamp' /\ kept' = 0
    BY <1>6 DEF Advance
  <2>. HIDE DEF I
  <2>2. I \div 2 \in Nat /\ I \div 2 <= I
    BY <1>1
  <2>3. next_frame_timestamp' \in Nat /\ next_frame_timestamp' <= lastKept' + pace'
    BY <1>1, <2>1, <2>2
  <2>. QED  BY <1>1, <1>2, <2>1, <2>3 DEF SeriesOfTargets, TargetNear
<1>. QED  BY <1>4, <1>5, <1>6

(* A kept frame: its size is ScaledSize's, its place in the series the next. *)
LEMMA KeepPInv ==
    ASSUME PInv, NEW t \in 0 .. MaxTime, Keep(t)
    PROVE  PInv'
<1>1. t \in Nat
  BY ClockAssumption
<1>2. /\ KeepFrame(t) /\ Advance(t)
      /\ stamp' = t /\ outcome' = "kept" /\ first' = None
      /\ out' = ScaledSize(in, Target, resolution_request_max)
      /\ UNCHANGED <<resolution_request_target, resolution_request_max,
                     max_framerate_request, in>>
  BY DEF Keep, request
<1>3. /\ in \in (Nat \ {0}) \X (Nat \ {0}) /\ FitsInt(Pixels(in))
      /\ Target \in Nat /\ resolution_request_max \in Nat
      /\ Target <= resolution_request_max
  BY SizesAssumption DEF PInv, AdapterTypeOK, Target, Smaller
<1>4. /\ out' \in Nat \X Nat
      /\ Pixels(out') <= resolution_request_max
      /\ out'[1] <= in[1] /\ out'[2] <= in[2]
      /\ Target * ShortSide(in) >= 16 * LongSide(in) => out'[1] > 0 /\ out'[2] > 0
  <2>. DEFINE target == Target
  <2>1. /\ target \in Nat /\ target <= resolution_request_max
        /\ out' = ScaledSize(in, target, resolution_request_max)
    BY <1>2, <1>3
  <2>. SUFFICES /\ out' \in Nat \X Nat
                /\ Pixels(out') <= resolution_request_max
                /\ out'[1] <= in[1] /\ out'[2] <= in[2]
                /\ target * ShortSide(in) >= 16 * LongSide(in) => out'[1] > 0 /\ out'[2] > 0
    OBVIOUS
  <2>. HIDE DEF target
  <2>. QED  BY <1>3, <2>1, ScaledSizeInBounds
<1>5. OutputInBounds'
  <2>1. Target' = Target /\ in' = in /\ resolution_request_max' = resolution_request_max
    BY <1>2 DEF Target
  <2>. QED  BY <1>4, <2>1 DEF OutputInBounds, Pixels, ShortSide, LongSide
<1>6. /\ next_frame_timestamp' \in Nat \cup {None}
      /\ lastKept' \in Nat \cup {None} /\ pace' \in Nat
      /\ base' \in Nat \cup {None} /\ kept' \in Nat
      /\ SeriesOfTargets' /\ TargetNear'
  BY <1>1, <1>2, AdvancePace
<1>7. AdapterTypeOK'
  BY <1>1, <1>2, <1>4, <1>6 DEF PInv, AdapterTypeOK
<1>8. FirstInRange' /\ SinksNotStarved'
  BY <1>2 DEF FirstInRange, SinksNotStarved
<1>. QED  BY <1>5, <1>6, <1>7, <1>8 DEF PInv

(* The invariant, one step per call of the adapter. *)
LEMMA AdapterInvariance == AdapterSpec => []PInv
<1>1. PInv /\ [AdapterNext]_adapterVars => PInv'
  <2>. SUFFICES ASSUME PInv, [AdapterNext]_adapterVars PROVE PInv'
    OBVIOUS
  <2>1. CASE UNCHANGED adapterVars
    BY <2>1 DEF adapterVars, request, history, PInv, AdapterTypeOK, SeriesOfTargets,
                TargetNear, FirstInRange, SinksNotStarved, OutputInBounds, Throttled, Interval, Target,
                Pixels, ShortSide, LongSide
  <2>2. CASE AdaptFrameResolution
    BY <2>2, DropPInv, KeepPInv DEF AdaptFrameResolution
  <2>3. CASE \E r \in Requests : OnResolutionFramerateRequest(r)
    BY <2>3, RequestPInv
  <2>. QED  BY <2>1, <2>2, <2>3 DEF AdapterNext
<1>. QED  BY <1>1, InitPInv, PTL DEF AdapterSpec

--------------------------------------------------------------------------
(* Every variable of the adapter keeps its type. *)
THEOREM AdapterTypeCorrect == AdapterSpec => []AdapterTypeOK
<1>1. PInv => AdapterTypeOK
  BY DEF PInv
<1>. QED  BY <1>1, AdapterInvariance, PTL

(* AdaptFrameResolution's output has no more pixels than the sinks allow,   *)
(* no side grows, and none vanishes unless the target is too small for the  *)
(* shape of the frame, for every camera and every request.                  *)
THEOREM AdapterOutputInBounds == AdapterSpec => []OutputInBounds
<1>1. PInv => OutputInBounds
  BY DEF PInv
<1>. QED  BY <1>1, AdapterInvariance, PTL

(* FindScale's loop, which stops at the first factor that is not above the  *)
(* target, has found the factor of the whole series that comes closest to   *)
(* the target within the limit.                                             *)
THEOREM AdapterClosestScale == AdapterSpec => []ClosestScale
<1>1. AdapterTypeOK => ClosestScale
  <2>. SUFFICES ASSUME AdapterTypeOK PROVE ClosestScale
    OBVIOUS
  <2>. DEFINE input == Pixels(in)
              target == Target
              max == resolution_request_max
              found == FindScale(input, target, max)
              pixels(f) == scale_pixel_count(f, input)
  <2>1. input \in Nat /\ FitsInt(input)
    <3>1. in \in (Nat \ {0}) \X (Nat \ {0}) /\ FitsInt(Pixels(in))
      BY SizesAssumption DEF AdapterTypeOK
    <3>. QED  BY <3>1 DEF Pixels
  <2>2. target \in Nat /\ max \in Nat /\ target <= max
    BY DEF AdapterTypeOK, Target, Smaller
  <2>. SUFFICES IF target >= input THEN found = One
                ELSE /\ found \in {f \in Series : pixels(f) <= max}
                     /\ \A f \in {f \in Series : pixels(f) <= max} :
                            AbsDiff(pixels(found), target) <= AbsDiff(pixels(f), target)
    BY DEF ClosestScale
  <2>. HIDE DEF input, target, max
  <2>3. CASE target >= input
    BY <2>3 DEF FindScale
  <2>4. CASE ~(target >= input)
    <3>1. target < input
      BY <2>1, <2>2, <2>4
    <3>2. /\ found \in Series /\ pixels(found) <= max
          /\ \A g \in Series : pixels(g) <= max =>
                AbsDiff(target, pixels(found)) <= AbsDiff(target, pixels(g))
      BY <2>1, <2>2, <3>1, FindScaleClosest
    <3>3. ASSUME NEW f \in Series PROVE AbsDiff(target, pixels(f)) = AbsDiff(pixels(f), target)
      <4>1. pixels(f) \in Nat
        BY <2>1, SeriesMember, PixelCount
      <4>. QED  BY <2>2, <4>1 DEF AbsDiff
    <3>. HIDE DEF found
    <3>. QED  BY <2>4, <3>2, <3>3
  <2>. QED  BY <2>3, <2>4
<1>. QED  BY <1>1, AdapterTypeCorrect, PTL

(* KeepFrame keeps no more frames than the rate allows, however the         *)
(* timestamps jump.                                                         *)
THEOREM AdapterRateBounded == AdapterSpec => []RateBounded
<1>1. PInv => RateBounded
  BY DEF PInv, SeriesOfTargets, RateBounded
<1>. QED  BY <1>1, AdapterInvariance, PTL

(* The frames KeepFrame drops in a row span less than two intervals of the  *)
(* rate in force, whatever jump of the clock or change of the request came  *)
(* before, and all come within the interval with which the target was set   *)
(* after the last frame kept.                                               *)
THEOREM AdapterSinksNotStarved == AdapterSpec => []SinksNotStarved
<1>1. PInv => SinksNotStarved
  BY DEF PInv
<1>. QED  BY <1>1, AdapterInvariance, PTL
===========================================================================
