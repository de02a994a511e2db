--------------------------- MODULE FrameScaling ---------------------------
(* The arithmetic of webrtc's VideoAdapter: by which factor a frame is      *)
(* scaled down, and the size it gets.                                       *)
EXTENDS Integers

Pixels(s) == s[1] * s[2]

LongSide(s) == IF s[1] < s[2] THEN s[2] ELSE s[1]
ShortSide(s) == IF s[1] < s[2] THEN s[1] ELSE s[2]

(* Fraction computes with int: the largest numerator of the series is 3. *)
FitsInt(pixels) == 9 * pixels <= 2147483647

AbsDiff(a, b) == IF a < b THEN b - a ELSE a - b

(* Fraction::scale_pixel_count *)
scale_pixel_count(f, input) == (f.num * f.num * input) \div (f.den * f.den)

(* Mutant: always up to the next multiple. *)
roundUpAlways(value, multiple, max) == ((value + multiple - 1) \div multiple) * multiple

(* To a multiple, upwards if that is within max. *)
roundUp(value, multiple, max) ==
    LET rounded == ((value + multiple - 1) \div multiple) * multiple
    IN  IF rounded <= max THEN rounded ELSE (max \div multiple) * multiple

One == [num |-> 1, den |-> 1]

(* The factors 1, 3/4, 1/2, 3/8, 1/4 and so on; the last one leaves nothing *)
(* of a frame whose pixel counts fit an int.                                *)
Halves == {1, 2, 4, 8, 16, 32, 64, 128, 256, 512, 1024, 2048, 4096, 8192, 16384}
Series == {[num |-> 1, den |-> d] : d \in Halves}
            \cup {[num |-> 3, den |-> 2 * d] : d \in Halves \ {1}}

(* The next factor, alternately by 3/4 and 2/3. *)
ScaleDown(f) ==
    IF f.num % 3 = 0 /\ f.den % 2 = 0
    THEN [num |-> f.num \div 3, den |-> f.den \div 2]
    ELSE [num |-> f.num * 3, den |-> f.den * 4]

(* One iteration of FindScale's loop; l.min is min_pixel_diff, where NoDiff *)
(* is numeric_limits<int>::max(), larger than every difference.             *)
NoDiff == -1
Closer(diff, min) == min = NoDiff \/ diff < min

(* Mutant: the limit is not looked at. *)
IterateUnlimited(l, input, target, max) ==
    LET next == ScaleDown(l.cur)
        diff == AbsDiff(target, scale_pixel_count(next, input))
    IN  IF Closer(diff, l.min)
        THEN [cur |-> next, best |-> next, min |-> diff]
        ELSE [l EXCEPT !.cur = next]

(* Mutant: every factor within the limit is taken, also a worse one. *)
IterateToLast(l, input, target, max) ==
    LET next == ScaleDown(l.cur)
        diff == AbsDiff(target, scale_pixel_count(next, input))
    IN  IF scale_pixel_count(next, input) <= max
        THEN [cur |-> next, best |-> next, min |-> diff]
        ELSE [l EXCEPT !.cur = next]

Iterate(l, input, target, max) ==
    LET next == ScaleDown(l.cur)
        diff == AbsDiff(target, scale_pixel_count(next, input))
    IN  IF scale_pixel_count(next, input) <= max /\ Closer(diff, l.min)
        THEN [cur |-> next, best |-> next, min |-> diff]
        ELSE [l EXCEPT !.cur = next]

(* Two iterations quarter the pixels: after 32 of them no int is left. *)
MaxIterations == 32

FindScale(input, target, max) ==
    LET first == [cur |-> One, best |-> One,
                  min |-> IF input <= max THEN AbsDiff(input, target) ELSE NoDiff]
        loop[n \in 0 .. MaxIterations] ==
            IF n = 0 THEN first
            ELSE LET l == loop[n - 1]
                 IN  IF scale_pixel_count(l.cur, input) > target
                     THEN Iterate(l, input, target, max) ELSE l
    IN  IF target >= input THEN One ELSE loop[MaxIterations].best

(* The size of the scaled frame, each side cut to a multiple of the         *)
(* denominator; no aspect ratio is requested and the alignment is 1.        *)
ScaledSize(in, target, max) ==
    LET f == FindScale(Pixels(in), target, max)
        side(s) == (roundUp(s, f.den, s) \div f.den) * f.num
    IN  <<side(in[1]), side(in[2])>>
===========================================================================
