--------------------------- MODULE VideoAdapter ---------------------------
(* webrtc's VideoAdapter as TestVideoCapturer uses it: the camera thread    *)
(* asks AdaptFrameResolution for every frame, the worker thread changes the *)
(* request; each call holds critical_section_.  The counters that are only  *)
(* logged are left out, and so is OnOutputFormatRequest, which nobody calls. *)
EXTENDS FrameScaling

CONSTANTS InSizes,             \* the frame sizes a camera may deliver
          Requests,            \* what sinks may ask for: target, max, fps
          NoTarget,            \* no target_pixel_count
          MaxInt,              \* no limit
          kNumNanosecsPerSec,  \* the clock's ticks per second
          MaxTime,             \* bound: the largest timestamp
          None                 \* an absent value

ASSUME SizesAssumption ==
    /\ InSizes \subseteq (Nat \ {0}) \X (Nat \ {0})
    /\ \A s \in InSizes : FitsInt(Pixels(s))
ASSUME ClockAssumption == kNumNanosecsPerSec \in Nat \ {0} /\ MaxTime \in Nat
ASSUME RequestsAssumption ==
    /\ MaxInt \in Nat /\ kNumNanosecsPerSec < MaxInt /\ NoTarget \notin Int
    /\ None \notin Int
    /\ Requests \subseteq [target : Nat \cup {NoTarget}, max : Nat, fps : Nat]

VARIABLES
    resolution_request_target, resolution_request_max, max_framerate_request,
    next_frame_timestamp,   \* or None
    in,            \* the camera's frame size
    stamp,         \* the timestamp of the last frame since the last request
    outcome,       \* what became of it: "none" yet, "dropped" or "kept"
    out,           \* its <<*out_width, *out_height>> if it was kept
    first,         \* the first frame dropped since the last one kept or the
                   \* last request, or None
    lastKept,      \* the last frame kept under a rate, or None
    pace,          \* the interval that was then in force
    base, kept     \* the target since the last reset or request, and the
                   \* frames kept from there on

request == <<resolution_request_target, resolution_request_max, max_framerate_request>>
history == <<lastKept, pace, base, kept>>
adapterVars == <<request, next_frame_timestamp, in, stamp, outcome, out, first, history>>

NoOutput == <<0, 0>>

AdapterInit ==
    /\ resolution_request_target = MaxInt /\ resolution_request_max = MaxInt
    /\ max_framerate_request = MaxInt
    /\ next_frame_timestamp = None
    /\ in \in InSizes /\ stamp = 0 /\ outcome = "none" /\ out = NoOutput
    /\ first = None /\ lastKept = None /\ pace = 0 /\ base = None /\ kept = 0

Smaller(a, b) == IF a < b THEN a ELSE b
Target == Smaller(resolution_request_target, resolution_request_max)

(* Mutant: an absent target is kept as it is. *)
TargetOrNothing(r) == r.target

TargetOr(r) == IF r.target = NoTarget THEN r.max ELSE r.target

OnResolutionFramerateRequest(r) ==
    /\ resolution_request_max' = r.max
    /\ resolution_request_target' = TargetOr(r)
    /\ max_framerate_request' = r.fps
    /\ outcome' = "none" /\ out' = NoOutput /\ stamp' = 0 /\ first' = None
    /\ base' = next_frame_timestamp /\ kept' = 0
    /\ UNCHANGED <<next_frame_timestamp, in, lastKept, pace>>

--------------------------------------------------------------------------
(* KeepFrame, of a frame with timestamp t.                                  *)

Interval == kNumNanosecsPerSec \div max_framerate_request
Throttled == max_framerate_request > 0 /\ Interval > 0

(* Mutant: a target is obeyed however far away it is. *)
InRangeUnchecked(t) == next_frame_timestamp # None

(* |time_until_next_frame| < 2 * interval *)
InRange(t) == /\ next_frame_timestamp # None
              /\ AbsDiff(next_frame_timestamp, t) < 2 * Interval

Early(t) == Throttled /\ InRange(t) /\ t < next_frame_timestamp

KeepFrame(t) == max_framerate_request > 0 /\ ~Early(t)

(* Mutant: the target stays where it is. *)
StandingTarget(t) == next_frame_timestamp

(* *next_frame_timestamp_ns_ += frame_interval_ns *)
NextTarget(t) == next_frame_timestamp + Interval

(* A kept frame in the expected range moves the target; one outside, or the *)
(* first, resets it; without a rate nothing is touched.                     *)
Advance(t) ==
    IF ~Throttled
    THEN UNCHANGED <<next_frame_timestamp, history>>
    ELSE /\ lastKept' = t /\ pace' = Interval
         /\ IF InRange(t)
            THEN /\ next_frame_timestamp' = NextTarget(t)
                 /\ kept' = kept + 1 /\ UNCHANGED base
            ELSE /\ next_frame_timestamp' = t + Interval \div 2
                 /\ base' = next_frame_timestamp' /\ kept' = 0

Drop(t) ==
    /\ resolution_request_max = 0 \/ ~KeepFrame(t)
    /\ stamp' = t /\ outcome' = "dropped" /\ out' = NoOutput
    /\ first' = IF first = None THEN t ELSE first
    /\ UNCHANGED <<request, next_frame_timestamp, in, history>>

Keep(t) ==
    /\ resolution_request_max > 0 /\ KeepFrame(t)
    /\ Advance(t)
    /\ stamp' = t /\ outcome' = "kept" /\ first' = None
    /\ out' = ScaledSize(in, Target, resolution_request_max)
    /\ UNCHANGED <<request, in>>

(* Timestamps may jump, in either direction. *)
AdaptFrameResolution == \E t \in 0 .. MaxTime : Drop(t) \/ Keep(t)

AdapterNext ==
    \/ AdaptFrameResolution
    \/ \E r \in Requests : OnResolutionFramerateRequest(r)

AdapterSpec == AdapterInit /\ [][AdapterNext]_adapterVars

--------------------------------------------------------------------------
(* Every variable keeps its type. *)
AdapterTypeOK ==
    /\ resolution_request_target \in Nat /\ resolution_request_max \in Nat
    /\ max_framerate_request \in Nat
    /\ next_frame_timestamp \in Nat \cup {None}
    /\ in \in InSizes /\ stamp \in Nat
    /\ outcome \in {"none", "dropped", "kept"}
    /\ out \in Nat \X Nat /\ first \in Nat \cup {None}
    /\ lastKept \in Nat \cup {None} /\ pace \in Nat
    /\ base \in Nat \cup {None} /\ kept \in Nat

(* The output never has more pixels than the sinks allow and no side grows, *)
(* although FindScale works with truncated pixel counts and the sides are   *)
(* rounded afterwards; nor does a side vanish, cut to a multiple of the     *)
(* denominator, while the target is at least 16 times the ratio of the      *)
(* longer to the shorter side (29 pixels for a 16:9 frame).                 *)
OutputInBounds ==
    outcome = "kept" =>
        /\ Pixels(out) <= resolution_request_max
        /\ out[1] <= in[1] /\ out[2] <= in[2]
        /\ Target * ShortSide(in) >= 16 * LongSide(in) => out[1] > 0 /\ out[2] > 0

(* video_adapter.h promises "as close as possible to target_pixel_count":   *)
(* the loop, which stops at the first factor below the target, has found    *)
(* the one of the whole series that comes closest within the limit.         *)
ClosestScale ==
    outcome = "kept" =>
        LET pixels(f) == scale_pixel_count(f, Pixels(in))
            fit == {f \in Series : pixels(f) <= resolution_request_max}
            found == FindScale(Pixels(in), Target, resolution_request_max)
        IN  IF Target >= Pixels(in) THEN found = One
            ELSE /\ found \in fit
                 /\ \A f \in fit : AbsDiff(pixels(found), Target)
                                     <= AbsDiff(pixels(f), Target)

(* However the frames bunch and jitter, since the last reset or request no  *)
(* more frames were kept than the rate allows: the last of them came not    *)
(* before its place in the series of targets.                               *)
RateBounded ==
    Throttled /\ kept > 0 => base + (kept - 1) * Interval <= lastKept

(* The rate never starves the sinks: the frames dropped for it in a row     *)
(* span less than two intervals of the rate now in force, however far the   *)
(* clock jumped back or ahead before them and however long the interval was *)
(* with which the target was set; and with a steady clock a frame is kept   *)
(* again no later than that interval after the last one.                    *)
SinksNotStarved ==
    outcome = "dropped" /\ resolution_request_max > 0 /\ max_framerate_request > 0
        => /\ AbsDiff(stamp, first) < 2 * Interval
           /\ stamp < lastKept + pace
===========================================================================
