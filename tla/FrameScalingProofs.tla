------------------------ MODULE FrameScalingProofs ------------------------
(* What FindScale finds, for every frame whose pixel counts fit an int, and *)
(* what the sides of the scaled frame are.                                  *)
EXTENDS FrameScaling, TLAPS, WellFoundedInduction

(* Induction up to m, over a set. *)
LEMMA InductionUpTo ==
    ASSUME NEW m \in Nat, NEW S, 0 \in S, \A n \in 0 .. m : n < m /\ n \in S => n + 1 \in S
    PROVE  \A n \in 0 .. m : n \in S
<1>. DEFINE Bad == {n \in 0 .. m : n \notin S}
<1>. SUFFICES ASSUME Bad # {} PROVE FALSE
  OBVIOUS
<1>1. PICK x \in Bad : \A y \in Bad : ~(<<y, x>> \in OpToRel(<, Nat))
  <2>1. Bad \subseteq Nat
    OBVIOUS
  <2>. HIDE DEF Bad
  <2>. QED  BY <2>1, NatLessThanWellFounded, WFMin, Zenon
<1>2. x \in Nat /\ x # 0 /\ x <= m
  OBVIOUS
<1>3. <<x - 1, x>> \in OpToRel(<, Nat)
  <2>1. <<x - 1, x>> \in Nat \X Nat /\ <<x - 1, x>>[1] < <<x - 1, x>>[2]
    BY <1>2
  <2>. QED  BY <2>1 DEF OpToRel
<1>4. x - 1 \notin Bad
  BY <1>1, <1>3, Zenon
<1>5. x - 1 \in 0 .. m /\ x - 1 < m /\ x - 1 \in S
  BY <1>2, <1>4
<1>. QED  BY <1>2, <1>5

(* A step on a set of states can be iterated m times. *)
LEMMA IterationExists ==
    ASSUME NEW m \in Nat, NEW D, NEW first \in D, NEW step \in [D -> D]
    PROVE  \E f \in [0 .. m -> D] :
               /\ f[0] = first
               /\ \A n \in 1 .. m : f[n] = step[f[n - 1]]
<1>. DEFINE Runs(k) == {f \in [0 .. k -> D] :
                            /\ f[0] = first
                            /\ \A n \in 1 .. k : f[n] = step[f[n - 1]]}
            S == {k \in Nat : Runs(k) # {}}
<1>1. 0 \in S
  <2>1. [n \in 0 .. 0 |-> first] \in Runs(0)
    OBVIOUS
  <2>. QED  BY <2>1
<1>2. ASSUME NEW k \in 0 .. m, k \in S PROVE k + 1 \in S
  <2>1. PICK f \in [0 .. k -> D] : f[0] = first /\ \A n \in 1 .. k : f[n] = step[f[n - 1]]
    BY <1>2
  <2>. DEFINE g == [n \in 0 .. k + 1 |-> IF n = k + 1 THEN step[f[k]] ELSE f[n]]
  <2>2. g \in [0 .. k + 1 -> D]
    BY <2>1
  <2>3. g[0] = first
    BY <2>1
  <2>4. ASSUME NEW n \in 1 .. k + 1 PROVE g[n] = step[g[n - 1]]
    <3>1. CASE n = k + 1
      BY <3>1
    <3>2. CASE n # k + 1
      <4>1. n \in 1 .. k /\ n - 1 \in 0 .. k
        BY <3>2
      <4>. QED  BY <4>1, <2>1
    <3>. QED  BY <3>1, <3>2
  <2>. HIDE DEF g
  <2>. QED  BY <2>2, <2>3, <2>4
<1>3. m \in S
  <2>. HIDE DEF S
  <2>. QED  BY <1>1, <1>2, InductionUpTo
<1>. QED  BY <1>3

--------------------------------------------------------------------------
(* The loop of FindScale.                                                   *)

(* The factors of the series have the numerator 1 or 3, and can then be     *)
(* multiplied by 2/3.                                                       *)
Factors == {f \in [num : {1, 3}, den : Nat \ {0}] : f.num = 3 => f.den % 4 = 0}

LoopState == [cur : Factors, best : Factors, min : Nat \cup {NoDiff}]

First(input, target, max) ==
    [cur |-> One, best |-> One,
     min |-> IF input <= max THEN AbsDiff(input, target) ELSE NoDiff]

(* One turn of the while loop, or none any more. *)
Turn(l, input, target, max) ==
    IF scale_pixel_count(l.cur, input) > target THEN Iterate(l, input, target, max) ELSE l

(* f is a run of the loop. *)
Run(f, input, target, max) ==
    /\ f \in [0 .. MaxIterations -> LoopState]
    /\ f[0] = First(input, target, max)
    /\ \A n \in 1 .. MaxIterations : f[n] = Turn(f[n - 1], input, target, max)

(* Quotient and remainder. *)
LEMMA Division ==
    ASSUME NEW a \in Nat, NEW b \in Nat \ {0}
    PROVE  /\ a \div b \in Nat /\ a % b \in 0 .. b - 1
           /\ a = b * (a \div b) + (a % b)
OBVIOUS

(* A multiple of the divisor that is not above the dividend. *)
LEMMA QuotientAtLeast ==
    ASSUME NEW x \in Nat, NEW y \in Nat \ {0}, NEW z \in Nat, z * y <= x
    PROVE  z <= x \div y
<1>. DEFINE q == x \div y
            r == x % y
<1>1. q \in Nat /\ r \in 0 .. y - 1 /\ x = y * q + r
  BY Division
<1>. SUFFICES ASSUME ~(z <= q) PROVE FALSE
  OBVIOUS
<1>2. z >= q + 1
  BY <1>1
<1>. HIDE DEF q, r
<1>3. z * y >= (q + 1) * y
  BY <1>1, <1>2
<1>. QED  BY <1>1, <1>3

(* The square of a denominator is positive, and a pixel count is a number. *)
LEMMA PixelCount ==
    ASSUME NEW f \in Factors, NEW input \in Nat
    PROVE  /\ f.num * f.num * input \in Nat /\ f.den * f.den \in Nat \ {0}
           /\ scale_pixel_count(f, input) \in Nat
           /\ scale_pixel_count(f, input) * (f.den * f.den) <= f.num * f.num * input
<1>1. f.num \in {1, 3} /\ f.den \in Nat \ {0}
  BY DEF Factors
<1>2. f.num * f.num * input \in Nat
  BY <1>1
<1>3. f.den * f.den \in Nat \ {0}
  BY <1>1
<1>4. ASSUME NEW a \in Nat, NEW b \in Nat \ {0} PROVE a \div b \in Nat /\ (a \div b) * b <= a
  BY Division
<1>. QED  BY <1>2, <1>3, <1>4 DEF scale_pixel_count

(* ScaleDown stays in the series. *)
LEMMA ScaleDownFactor ==
    ASSUME NEW f \in Factors
    PROVE  /\ ScaleDown(f) \in Factors
           /\ f.num = 1 => ScaleDown(f) = [num |-> 3, den |-> 4 * f.den]
           /\ f.num = 3 => ScaleDown(f).num = 1 /\ 2 * ScaleDown(f).den = f.den
<1>1. f.num \in {1, 3} /\ f.den \in Nat \ {0} /\ (f.num = 3 => f.den % 4 = 0)
  BY DEF Factors
<1>2. CASE f.num = 1
  BY <1>1, <1>2 DEF ScaleDown, Factors
<1>3. CASE f.num = 3
  <2>1. f.den % 2 = 0 /\ f.den \div 2 \in Nat \ {0} /\ 2 * (f.den \div 2) = f.den
    BY <1>1, <1>3
  <2>2. ScaleDown(f) = [num |-> 1, den |-> f.den \div 2]
    BY <1>3, <2>1 DEF ScaleDown
  <2>. QED  BY <1>3, <2>1, <2>2 DEF Factors
<1>. QED  BY <1>1, <1>2, <1>3

(* A turn of the loop keeps the shape of its state. *)
LEMMA TurnTyped ==
    ASSUME NEW input \in Nat, NEW target \in Nat, NEW max \in Nat, NEW l \in LoopState
    PROVE  Turn(l, input, target, max) \in LoopState
<1>1. l.cur \in Factors /\ l.best \in Factors /\ l.min \in Nat \cup {NoDiff}
  BY DEF LoopState
<1>2. ScaleDown(l.cur) \in Factors
  BY <1>1, ScaleDownFactor
<1>3. scale_pixel_count(ScaleDown(l.cur), input) \in Nat
  BY <1>2, PixelCount
<1>4. AbsDiff(target, scale_pixel_count(ScaleDown(l.cur), input)) \in Nat
  BY <1>3 DEF AbsDiff
<1>. QED  BY <1>1, <1>2, <1>4 DEF Turn, Iterate, LoopState

(* The recursive function of FindScale exists: there is a run of the loop,  *)
(* and its last best scale is what FindScale returns.                       *)
LEMMA LoopRuns ==
    ASSUME NEW input \in Nat, NEW target \in Nat, NEW max \in Nat, target < input
    PROVE  \E f : /\ Run(f, input, target, max)
                  /\ FindScale(input, target, max) = f[MaxIterations].best
<1>. DEFINE step == [l \in LoopState |-> Turn(l, input, target, max)]
            first == First(input, target, max)
            F(f) == [n \in 0 .. MaxIterations |->
                        IF n = 0 THEN first
                        ELSE LET l == f[n - 1]
                             IN  IF scale_pixel_count(l.cur, input) > target
                                 THEN Iterate(l, input, target, max) ELSE l]
            loop == CHOOSE f : f = F(f)
<1>1. One \in Factors
  BY DEF One, Factors
<1>2. first \in LoopState
  BY <1>1 DEF First, LoopState, AbsDiff
<1>3. step \in [LoopState -> LoopState]
  BY TurnTyped
<1>4. MaxIterations \in Nat
  BY DEF MaxIterations
<1>5. PICK f \in [0 .. MaxIterations -> LoopState] :
          /\ f[0] = first
          /\ \A n \in 1 .. MaxIterations : f[n] = step[f[n - 1]]
  <2>. HIDE DEF step, first
  <2>. QED  BY <1>2, <1>3, <1>4, IterationExists
<1>6. ASSUME NEW n \in 1 .. MaxIterations PROVE f[n] = Turn(f[n - 1], input, target, max)
  <2>1. f[n - 1] \in LoopState
    BY <1>4, <1>5
  <2>. QED  BY <1>5, <2>1
<1>7. f = F(f)
  <2>1. ASSUME NEW n \in 0 .. MaxIterations PROVE f[n] = F(f)[n]
    <3>1. CASE n = 0
      BY <3>1, <1>4, <1>5
    <3>2. CASE n # 0
      BY <3>2, <1>4, <1>6 DEF Turn
    <3>. QED  BY <3>1, <3>2
  <2>. QED  BY <2>1, <1>5
<1>8. loop = F(loop)
  BY <1>7
<1>9. loop \in [0 .. MaxIterations -> LoopState]
      /\ loop[0] = first
      /\ \A n \in 1 .. MaxIterations : loop[n] = Turn(loop[n - 1], input, target, max)
  <2>. HIDE DEF loop, first
  <2>1. loop[0] = first
    BY <1>4, <1>8
  <2>2. ASSUME NEW n \in 1 .. MaxIterations
        PROVE  loop[n] = Turn(loop[n - 1], input, target, max)
    BY <1>4, <1>8 DEF Turn
  <2>. DEFINE S == {n \in 0 .. MaxIterations : loop[n] \in LoopState}
  <2>3. 0 \in S
    BY <1>2, <1>4, <2>1
  <2>4. \A n \in 0 .. MaxIterations : n < MaxIterations /\ n \in S => n + 1 \in S
    <3>. SUFFICES ASSUME NEW n \in 0 .. MaxIterations, n < MaxIterations, n \in S
                  PROVE  loop[n + 1] \in LoopState
      BY <1>4
    <3>1. n + 1 \in 1 .. MaxIterations /\ (n + 1) - 1 = n
      BY <1>4
    <3>2. loop[n + 1] = Turn(loop[n], input, target, max)
      BY <2>2, <3>1
    <3>. QED  BY <3>2, TurnTyped
  <2>5. \A n \in 0 .. MaxIterations : n \in S
    <3>. HIDE DEF S
    <3>. QED  BY <1>4, <2>3, <2>4, InductionUpTo
  <2>6. loop = [n \in 0 .. MaxIterations |-> loop[n]]
    BY <1>8
  <2>7. loop \in [0 .. MaxIterations -> LoopState]
    BY <2>5, <2>6
  <2>. QED  BY <2>1, <2>2, <2>7
<1>10. FindScale(input, target, max) = loop[MaxIterations].best
  BY DEF FindScale, First
<1>11. Run(loop, input, target, max)
  BY <1>9 DEF Run
<1>. HIDE DEF loop
<1>. QED  BY <1>10, <1>11

(* The loop invariant: as long as nothing within the limit was found,       *)
(* everything so far is above the limit; what was found is within it; and   *)
(* its denominator is bounded, since the factor before it was above the     *)
(* target.                                                                  *)
LoopInv(l, input, target, max) ==
    /\ l.min = NoDiff => scale_pixel_count(l.cur, input) > max
    /\ l.min # NoDiff => scale_pixel_count(l.best, input) <= max
    /\ l.best = One \/ l.best.den * l.best.den * target < 16 * input

(* The next factor after one that is above the target. *)
LEMMA NextDenominator ==
    ASSUME NEW f \in Factors, NEW input \in Nat, NEW target \in Nat,
           scale_pixel_count(f, input) > target
    PROVE  ScaleDown(f).den * ScaleDown(f).den * target < 16 * input
<1>. DEFINE p == scale_pixel_count(f, input)
            d == f.den
            e == ScaleDown(f).den
<1>. SUFFICES e * e * target < 16 * input
  OBVIOUS
<1>1. /\ f.num \in {1, 3} /\ d \in Nat \ {0} /\ p \in Nat /\ d * d \in Nat \ {0}
      /\ p * (d * d) <= f.num * f.num * input
  BY PixelCount DEF Factors
<1>2. e \in Nat \ {0}
  BY ScaleDownFactor DEF Factors
<1>3. target * (d * d) < p * (d * d)
  <2>1. ASSUME NEW a \in Nat, NEW b \in Nat, NEW c \in Nat \ {0}, a < b
        PROVE  a * c < b * c
    BY <2>1
  <2>2. target < p
    BY <1>1
  <2>. HIDE DEF p, d
  <2>. QED  BY <1>1, <2>1, <2>2
<1>4. target * (d * d) < f.num * f.num * input
  <2>. HIDE DEF p, d
  <2>. QED  BY <1>1, <1>3
<1>5. CASE f.num = 1
  <2>1. e = 4 * d
    BY <1>5, ScaleDownFactor
  <2>. HIDE DEF p, d, e
  <2>2. e * e = 16 * (d * d)
    BY <1>1, <2>1
  <2>3. target * (d * d) < input
    BY <1>4, <1>5
  <2>4. e * e * target = 16 * (target * (d * d))
    BY <1>1, <2>2
  <2>. QED  BY <1>1, <2>3, <2>4
<1>6. CASE f.num = 3
  <2>1. 2 * e = d
    BY <1>6, ScaleDownFactor
  <2>. HIDE DEF p, d, e
  <2>2. 4 * (e * e) = d * d
    BY <1>2, <2>1
  <2>3. target * (d * d) < 9 * input
    BY <1>4, <1>6
  <2>4. 4 * (e * e * target) = target * (d * d)
    BY <1>1, <1>2, <2>2
  <2>5. e * e * target \in Nat
    BY <1>2
  <2>. QED  BY <2>3, <2>4, <2>5
<1>. QED  BY <1>1, <1>5, <1>6

(* A turn keeps the loop invariant. *)
LEMMA TurnKeepsInv ==
    ASSUME NEW input \in Nat, NEW target \in Nat, NEW max \in Nat, NEW l \in LoopState,
           LoopInv(l, input, target, max)
    PROVE  LoopInv(Turn(l, input, target, max), input, target, max)
<1>. DEFINE next == ScaleDown(l.cur)
            diff == AbsDiff(target, scale_pixel_count(next, input))
<1>1. l.cur \in Factors /\ l.best \in Factors /\ l.min \in Nat \cup {NoDiff}
  BY DEF LoopState
<1>2. CASE ~(scale_pixel_count(l.cur, input) > target)
  BY <1>2 DEF Turn
<1>3. CASE scale_pixel_count(l.cur, input) > target
  <2>1. next \in Factors
    BY <1>1, ScaleDownFactor
  <2>2. scale_pixel_count(next, input) \in Nat
    BY <2>1, PixelCount
  <2>3. diff \in Nat /\ diff # NoDiff
    BY <2>2 DEF AbsDiff, NoDiff
  <2>4. next.den * next.den * target < 16 * input
    BY <1>1, <1>3, NextDenominator
  <2>5. CASE scale_pixel_count(next, input) <= max /\ Closer(diff, l.min)
    <3>1. Turn(l, input, target, max) = [cur |-> next, best |-> next, min |-> diff]
      BY <1>3, <2>5 DEF Turn, Iterate
    <3>. HIDE DEF next, diff
    <3>. QED  BY <2>3, <2>4, <2>5, <3>1 DEF LoopInv
  <2>6. CASE ~(scale_pixel_count(next, input) <= max /\ Closer(diff, l.min))
    <3>1. Turn(l, input, target, max) = [l EXCEPT !.cur = next]
      BY <1>3, <2>6 DEF Turn, Iterate
    <3>2. /\ Turn(l, input, target, max).cur = next
          /\ Turn(l, input, target, max).best = l.best
          /\ Turn(l, input, target, max).min = l.min
      BY <3>1 DEF LoopState
    <3>3. l.min = NoDiff => scale_pixel_count(next, input) > max
      BY <2>2, <2>6 DEF Closer
    <3>. HIDE DEF next
    <3>. QED  BY <3>2, <3>3 DEF LoopInv
  <2>. QED  BY <2>5, <2>6
<1>. QED  BY <1>2, <1>3

(* Two turns halve the factor. *)
LEMMA TwoTurns ==
    ASSUME NEW input \in Nat, NEW target \in Nat, NEW max \in Nat, NEW l \in LoopState,
           l.cur.num = 1,
           NEW m, m = Turn(l, input, target, max),
           NEW k, k = Turn(m, input, target, max)
    PROVE  \/ scale_pixel_count(k.cur, input) <= target
           \/ k.cur.num = 1 /\ k.cur.den = 2 * l.cur.den
<1>. DEFINE Next(s) == IF scale_pixel_count(s.cur, input) > target
                       THEN ScaleDown(s.cur) ELSE s.cur
<1>1. ASSUME NEW s \in LoopState PROVE Turn(s, input, target, max).cur = Next(s)
  BY DEF Turn, Iterate, LoopState
<1>2. m \in LoopState /\ k \in LoopState
  BY TurnTyped
<1>3. l.cur \in Factors /\ m.cur \in Factors /\ k.cur \in Factors
  BY <1>2 DEF LoopState
<1>4. /\ scale_pixel_count(l.cur, input) \in Nat
      /\ scale_pixel_count(m.cur, input) \in Nat
      /\ scale_pixel_count(k.cur, input) \in Nat
  BY <1>3, PixelCount
<1>5. CASE scale_pixel_count(l.cur, input) > target /\ scale_pixel_count(m.cur, input) > target
  <2>1. m.cur = ScaleDown(l.cur) /\ k.cur = ScaleDown(m.cur)
    BY <1>1, <1>2, <1>5
  <2>2. m.cur.num = 3 /\ m.cur.den = 4 * l.cur.den
    BY <1>3, <2>1, ScaleDownFactor
  <2>3. k.cur.num = 1 /\ 2 * k.cur.den = 4 * l.cur.den
    BY <1>3, <2>1, <2>2, ScaleDownFactor
  <2>4. k.cur.den \in Nat /\ l.cur.den \in Nat
    BY <1>3 DEF Factors
  <2>. QED  BY <2>3, <2>4
<1>6. CASE ~(scale_pixel_count(m.cur, input) > target)
  BY <1>1, <1>2, <1>4, <1>6
<1>7. CASE ~(scale_pixel_count(l.cur, input) > target)
  BY <1>1, <1>2, <1>4, <1>7
<1>. QED  BY <1>5, <1>6, <1>7

(* A step of a run, and of a run that has come to the target. *)
LEMMA RunSteps ==
    ASSUME NEW input \in Nat, NEW target \in Nat, NEW max \in Nat, NEW f,
           Run(f, input, target, max), NEW n \in 0 .. MaxIterations
    PROVE  /\ f[n] \in LoopState
           /\ n < MaxIterations => f[n + 1] = Turn(f[n], input, target, max)
           /\ n < MaxIterations /\ scale_pixel_count(f[n].cur, input) <= target
                => f[n + 1] = f[n]
<1>1. f[n] \in LoopState
  BY DEF Run
<1>2. n < MaxIterations => f[n + 1] = Turn(f[n], input, target, max)
  <2>1. n < MaxIterations => n + 1 \in 1 .. MaxIterations /\ (n + 1) - 1 = n
    BY DEF MaxIterations
  <2>. QED  BY <2>1 DEF Run
<1>3. scale_pixel_count(f[n].cur, input) \in Nat
  BY <1>1, PixelCount DEF LoopState
<1>. QED  BY <1>1, <1>2, <1>3 DEF Turn

(* Two turns after a factor 1/d the loop has come to the target or to 1/2d. *)
LEMMA RunHalves ==
    ASSUME NEW input \in Nat, NEW target \in Nat, NEW max \in Nat, NEW f,
           Run(f, input, target, max), NEW k \in 0 .. 15
    PROVE  /\ scale_pixel_count(f[2 * k].cur, input) <= target
                => scale_pixel_count(f[2 * k + 2].cur, input) <= target
           /\ f[2 * k].cur.num = 1
                => \/ scale_pixel_count(f[2 * k + 2].cur, input) <= target
                   \/ /\ f[2 * k + 2].cur.num = 1
                      /\ f[2 * k + 2].cur.den = 2 * f[2 * k].cur.den
<1>. DEFINE l == f[2 * k]
            m == f[2 * k + 1]
            r == f[2 * k + 2]
<1>1. /\ 2 * k \in 0 .. MaxIterations /\ 2 * k < MaxIterations
      /\ 2 * k + 1 \in 0 .. MaxIterations /\ 2 * k + 1 < MaxIterations
      /\ (2 * k + 1) + 1 = 2 * k + 2
  BY DEF MaxIterations
<1>2. l \in LoopState /\ m = Turn(l, input, target, max)
      /\ (scale_pixel_count(l.cur, input) <= target => m = l)
  BY <1>1, RunSteps
<1>3. r = Turn(m, input, target, max)
      /\ (scale_pixel_count(m.cur, input) <= target => r = m)
  <2>1. /\ f[(2 * k + 1) + 1] = Turn(m, input, target, max)
        /\ (scale_pixel_count(m.cur, input) <= target => f[(2 * k + 1) + 1] = m)
    BY <1>1, RunSteps
  <2>. QED  BY <1>1, <2>1
<1>. HIDE DEF l, m, r
<1>4. scale_pixel_count(l.cur, input) <= target => scale_pixel_count(r.cur, input) <= target
  BY <1>2, <1>3
<1>5. l.cur.num = 1 => \/ scale_pixel_count(r.cur, input) <= target
                       \/ r.cur.num = 1 /\ r.cur.den = 2 * l.cur.den
  <2>. SUFFICES ASSUME l.cur.num = 1
                PROVE  \/ scale_pixel_count(r.cur, input) <= target
                       \/ r.cur.num = 1 /\ r.cur.den = 2 * l.cur.den
    OBVIOUS
  <2>1. /\ l \in LoopState /\ l.cur.num = 1
        /\ m = Turn(l, input, target, max) /\ r = Turn(m, input, target, max)
    BY <1>2, <1>3
  <2>. QED  BY <2>1, TwoTurns
<1>. QED  BY <1>4, <1>5 DEF l, r

(* FindScale's loop comes to a factor at or below the target: an int is     *)
(* less than 4^16.                                                          *)
LEMMA LoopEnds ==
    ASSUME NEW input \in Nat, NEW target \in Nat, NEW max \in Nat, FitsInt(input),
           NEW f, Run(f, input, target, max)
    PROVE  scale_pixel_count(f[MaxIterations].cur, input) <= target
<1>. DEFINE Stopped(n) == scale_pixel_count(f[n].cur, input) <= target
            At(k, d) == Stopped(2 * k) \/ (f[2 * k].cur.num = 1 /\ f[2 * k].cur.den = d)
<1>1. At(0, 1)
  BY DEF Run, First, One
<1>2. \A k \in 0 .. 15 : \A d \in Nat : At(k, d) => At(k + 1, 2 * d)
  <2>. SUFFICES ASSUME NEW k \in 0 .. 15, NEW d \in Nat, At(k, d) PROVE At(k + 1, 2 * d)
    OBVIOUS
  <2>1. 2 * (k + 1) = 2 * k + 2
    OBVIOUS
  <2>2. CASE Stopped(2 * k)
    <3>1. Stopped(2 * k + 2)
      BY <2>2, RunHalves
    <3>. QED  BY <2>1, <3>1
  <2>3. CASE f[2 * k].cur.num = 1 /\ f[2 * k].cur.den = d
    <3>1. \/ Stopped(2 * k + 2)
          \/ f[2 * k + 2].cur.num = 1 /\ f[2 * k + 2].cur.den = 2 * f[2 * k].cur.den
      BY <2>3, RunHalves
    <3>. QED  BY <2>1, <2>3, <3>1
  <2>. QED  BY <2>2, <2>3
<1>3. At(16, 65536)
  <2>. HIDE DEF At
  <2>1. At(4, 16)
    BY <1>1, <1>2, SMT
  <2>2. At(8, 256)
    BY <1>2, <2>1, SMT
  <2>3. At(12, 4096)
    BY <1>2, <2>2, SMT
  <2>. QED  BY <1>2, <2>3, SMT
<1>4. Stopped(32) \/ (f[32].cur.num = 1 /\ f[32].cur.den = 65536)
  BY <1>3, SMT
<1>5. CASE Stopped(32)
  BY <1>5 DEF MaxIterations
<1>6. CASE f[32].cur.num = 1 /\ f[32].cur.den = 65536
  <2>1. scale_pixel_count(f[32].cur, input) = (1 * 1 * input) \div (65536 * 65536)
    BY <1>6, SMT DEF scale_pixel_count
  <2>2. ASSUME NEW a \in Nat, NEW b \in Nat, a < b PROVE a \div b = 0
    BY <2>2
  <2>3. input < 65536 * 65536
    BY SMT DEF FitsInt
  <2>4. (1 * 1 * input) \div (65536 * 65536) = 0
    <3>. DEFINE b == 65536 * 65536
    <3>1. b \in Nat /\ input < b /\ 1 * 1 * input = input
      BY <2>3, SMT
    <3>2. input \div b = 0
      <4>. HIDE DEF b
      <4>. QED  BY <2>2, <3>1
    <3>. QED  BY <3>1, <3>2, SMT
  <2>5. scale_pixel_count(f[32].cur, input) = 0
    BY <2>1, <2>4, SMT
  <2>. QED  BY <2>5 DEF MaxIterations
<1>. QED  BY <1>4, <1>5, <1>6, SMT

(* What FindScale returns, for a limit that is not below the target: a      *)
(* factor of the series that keeps the frame within the limit, with a       *)
(* bounded denominator.                                                     *)
LEMMA FindScaleFinds ==
    ASSUME NEW input \in Nat, NEW target \in Nat, NEW max \in Nat,
           FitsInt(input), target <= max
    PROVE  LET s == FindScale(input, target, max)
           IN  /\ s \in Factors
               /\ scale_pixel_count(s, input) <= max
               /\ s = One \/ s.den * s.den * target < 16 * input
<1>0. One \in Factors /\ scale_pixel_count(One, input) = input
  BY DEF One, Factors, scale_pixel_count
<1>1. CASE target >= input
  <2>1. FindScale(input, target, max) = One
    BY <1>1 DEF FindScale
  <2>. QED  BY <1>0, <1>1, <2>1
<1>2. CASE target < input
  <2>1. PICK f : /\ Run(f, input, target, max)
                 /\ FindScale(input, target, max) = f[MaxIterations].best
    BY <1>2, LoopRuns
  <2>. DEFINE S == {n \in 0 .. MaxIterations : LoopInv(f[n], input, target, max)}
  <2>2. MaxIterations \in Nat
    BY DEF MaxIterations
  <2>3. 0 \in S
    <3>1. f[0] = First(input, target, max)
      BY <2>1 DEF Run
    <3>. QED  BY <1>0, <2>2, <3>1 DEF LoopInv, First, NoDiff, AbsDiff
  <2>4. \A n \in 0 .. MaxIterations : n < MaxIterations /\ n \in S => n + 1 \in S
    <3>. SUFFICES ASSUME NEW n \in 0 .. MaxIterations, n < MaxIterations, n \in S
                  PROVE  n + 1 \in S
      OBVIOUS
    <3>1. n + 1 \in 0 .. MaxIterations
      BY <2>2
    <3>2. f[n] \in LoopState /\ f[n + 1] = Turn(f[n], input, target, max)
      BY <2>1, RunSteps
    <3>. QED  BY <3>1, <3>2, TurnKeepsInv
  <2>5. \A n \in 0 .. MaxIterations : n \in S
    <3>. HIDE DEF S
    <3>. QED  BY <2>2, <2>3, <2>4, InductionUpTo
  <2>6. LoopInv(f[MaxIterations], input, target, max)
    BY <2>2, <2>5
  <2>7. scale_pixel_count(f[MaxIterations].cur, input) <= target
    BY <2>1, LoopEnds
  <2>8. f[MaxIterations].cur \in Factors /\ f[MaxIterations].best \in Factors
    BY <2>1, <2>2, RunSteps DEF LoopState
  <2>9. scale_pixel_count(f[MaxIterations].cur, input) \in Nat
    BY <2>8, PixelCount
  <2>. QED  BY <2>1, <2>6, <2>7, <2>8, <2>9 DEF LoopInv
<1>. QED  BY <1>1, <1>2

--------------------------------------------------------------------------
(* What FindScale returns is the factor of the series that comes closest.   *)

(* f is not below g, both as fractions. *)
AtLeast(f, g) == f.num * g.den >= g.num * f.den

(* Two powers of two are at least a factor of two apart. *)
LEMMA HalvesApart ==
    ASSUME NEW d \in Halves, NEW e \in Halves
    PROVE  /\ d \in Nat \ {0} /\ (e <= d \/ e >= 2 * d)
           /\ d = 16384 \/ 2 * d \in Halves
           /\ d # 1 => d % 2 = 0 /\ d >= 2
BY SMT DEF Halves

(* The members of the series are factors. *)
LEMMA SeriesMember ==
    ASSUME NEW f \in Series
    PROVE  /\ f \in Factors
           /\ \E d \in Halves : \/ f = [num |-> 1, den |-> d]
                                \/ d # 1 /\ f = [num |-> 3, den |-> 2 * d]
<1>1. PICK d \in Halves : \/ f = [num |-> 1, den |-> d]
                          \/ d # 1 /\ f = [num |-> 3, den |-> 2 * d]
  BY DEF Series
<1>2. d \in Nat \ {0} /\ (d # 1 => d % 2 = 0)
  BY HalvesApart
<1>3. d # 1 => (2 * d) % 4 = 0
  BY <1>2
<1>4. f \in Factors
  BY <1>1, <1>2, <1>3 DEF Factors
<1>. QED  BY <1>1, <1>4

(* The last factor leaves no pixel of a frame whose counts fit an int. *)
LEMMA LastFactor ==
    ASSUME NEW input \in Nat, FitsInt(input)
    PROVE  scale_pixel_count([num |-> 1, den |-> 16384], input) = 0
<1>. DEFINE b == 16384 * 16384
<1>1. b \in Nat /\ input < b /\ 1 * 1 * input = input
  BY SMT DEF FitsInt
<1>2. input \div b = 0
  <2>1. ASSUME NEW a \in Nat, NEW c \in Nat, a < c PROVE a \div c = 0
    BY <2>1
  <2>. HIDE DEF b
  <2>. QED  BY <1>1, <2>1
<1>3. scale_pixel_count([num |-> 1, den |-> 16384], input) = (1 * 1 * input) \div b
  BY SMT DEF scale_pixel_count
<1>. QED  BY <1>1, <1>2, <1>3, SMT

(* ScaleDown takes the series in its order and leaves none out. *)
LEMMA NextInSeries ==
    ASSUME NEW f \in Series, f # [num |-> 1, den |-> 16384]
    PROVE  /\ ScaleDown(f) \in Series
           /\ \A g \in Series : AtLeast(g, ScaleDown(f)) => g = ScaleDown(f) \/ AtLeast(g, f)
<1>1. PICK d \in Halves : \/ f = [num |-> 1, den |-> d]
                          \/ d # 1 /\ f = [num |-> 3, den |-> 2 * d]
  BY SeriesMember
<1>2. f \in Factors /\ d \in Nat \ {0}
  BY SeriesMember, HalvesApart
<1>3. CASE f = [num |-> 1, den |-> d]
  <2>1. ScaleDown(f) = [num |-> 3, den |-> 4 * d]
    BY <1>2, <1>3, ScaleDownFactor
  <2>2. d # 16384
    BY <1>3
  <2>3. 2 * d \in Halves /\ 2 * d # 1 /\ 2 * (2 * d) = 4 * d
    BY <1>2, <2>2, HalvesApart
  <2>4. ScaleDown(f) \in Series
    BY <2>1, <2>3 DEF Series
  <2>5. ASSUME NEW g \in Series, AtLeast(g, ScaleDown(f))
        PROVE  g = ScaleDown(f) \/ AtLeast(g, f)
    <3>1. PICK e \in Halves : \/ g = [num |-> 1, den |-> e]
                              \/ e # 1 /\ g = [num |-> 3, den |-> 2 * e]
      BY SeriesMember
    <3>2. e \in Nat \ {0} /\ (e <= d \/ e >= 2 * d) /\ (e <= 2 * d \/ e >= 4 * d)
          /\ (2 * d <= e \/ 2 * d >= 2 * e)
      <4>1. e \in Nat \ {0} /\ (e <= d \/ e >= 2 * d)
        BY HalvesApart
      <4>2. e <= 2 * d \/ e >= 2 * (2 * d)
        BY <2>3, HalvesApart
      <4>3. 2 * d <= e \/ 2 * d >= 2 * e
        BY <2>3, HalvesApart
      <4>. QED  BY <1>2, <4>1, <4>2, <4>3
    <3>3. CASE g = [num |-> 1, den |-> e]
      BY <1>2, <1>3, <2>1, <2>5, <3>2, <3>3 DEF AtLeast
    <3>4. CASE g = [num |-> 3, den |-> 2 * e]
      BY <1>2, <1>3, <2>1, <2>5, <3>2, <3>4 DEF AtLeast
    <3>. QED  BY <3>1, <3>3, <3>4
  <2>. QED  BY <2>4, <2>5
<1>4. CASE d # 1 /\ f = [num |-> 3, den |-> 2 * d]
  <2>1. ScaleDown(f).num = 1 /\ 2 * ScaleDown(f).den = 2 * d /\ ScaleDown(f) \in Factors
    BY <1>2, <1>4, ScaleDownFactor
  <2>2. ScaleDown(f) = [num |-> 1, den |-> d]
    BY <1>2, <2>1 DEF Factors
  <2>3. ScaleDown(f) \in Series
    BY <2>2 DEF Series
  <2>4. ASSUME NEW g \in Series, AtLeast(g, ScaleDown(f))
        PROVE  g = ScaleDown(f) \/ AtLeast(g, f)
    <3>1. PICK e \in Halves : \/ g = [num |-> 1, den |-> e]
                              \/ e # 1 /\ g = [num |-> 3, den |-> 2 * e]
      BY SeriesMember
    <3>2. e \in Nat \ {0} /\ (e <= d \/ e >= 2 * d) /\ (d <= e \/ d >= 2 * e)
      BY HalvesApart
    <3>3. CASE g = [num |-> 1, den |-> e]
      BY <1>2, <1>4, <2>2, <2>4, <3>2, <3>3 DEF AtLeast
    <3>4. CASE g = [num |-> 3, den |-> 2 * e]
      BY <1>2, <1>4, <2>2, <2>4, <3>2, <3>4 DEF AtLeast
    <3>. QED  BY <3>1, <3>3, <3>4
  <2>. QED  BY <2>3, <2>4
<1>. QED  BY <1>1, <1>3, <1>4

(* A smaller factor leaves no more pixels. *)
LEMMA SmallerFactor ==
    ASSUME NEW f \in Factors, NEW g \in Factors, ~AtLeast(g, f), NEW input \in Nat
    PROVE  scale_pixel_count(g, input) <= scale_pixel_count(f, input)
<1>. DEFINE z == scale_pixel_count(g, input)
            A == g.num * g.num
            B == g.den * g.den
            C == f.num * f.num
            D == f.den * f.den
<1>1. /\ g.num \in Nat \ {0} /\ g.den \in Nat \ {0}
      /\ f.num \in Nat \ {0} /\ f.den \in Nat \ {0}
  BY DEF Factors
<1>2. z \in Nat /\ z * B <= A * input
  BY PixelCount
<1>3. A \in Nat /\ B \in Nat \ {0} /\ C \in Nat /\ D \in Nat \ {0}
  BY <1>1
<1>4. A * D <= C * B
  <2>. DEFINE x == g.num * f.den
              y == f.num * g.den
  <2>1. x \in Nat /\ y \in Nat /\ x <= y
    BY <1>1 DEF AtLeast
  <2>2. A * D = x * x /\ C * B = y * y
    BY <1>1
  <2>3. x * x <= y * y
    <3>. HIDE DEF x, y
    <3>1. x * x <= x * y /\ x * y <= y * y
      BY <2>1
    <3>2. x * x \in Nat /\ x * y \in Nat /\ y * y \in Nat
      BY <2>1
    <3>. QED  BY <3>1, <3>2
  <2>. QED  BY <2>2, <2>3
<1>5. z * D <= C * input
  <2>. HIDE DEF z, A, B, C, D
  <2>1. (z * D) * B = (z * B) * D
    BY <1>2, <1>3
  <2>2. (z * B) * D <= (A * input) * D
    <3>1. ASSUME NEW a \in Nat, NEW b \in Nat, NEW c \in Nat, a <= b PROVE a * c <= b * c
      BY <3>1
    <3>2. z * B \in Nat /\ A * input \in Nat
      BY <1>2, <1>3
    <3>. QED  BY <1>2, <1>3, <3>1, <3>2
  <2>3. (A * input) * D = (A * D) * input
    BY <1>3
  <2>4. (A * D) * input <= (C * B) * input
    <3>1. ASSUME NEW a \in Nat, NEW b \in Nat, NEW c \in Nat, a <= b PROVE a * c <= b * c
      BY <3>1
    <3>2. A * D \in Nat /\ C * B \in Nat
      BY <1>3
    <3>. QED  BY <1>4, <3>1, <3>2
  <2>5. (C * B) * input = (C * input) * B
    BY <1>3
  <2>6. z * D \in Nat /\ C * input \in Nat
    BY <1>2, <1>3
  <2>7. (z * D) * B <= (C * input) * B
    <3>. DEFINE p == (z * D) * B
                q == (A * D) * input
                r == (C * input) * B
    <3>1. p \in Int /\ q \in Int /\ r \in Int
      BY <1>2, <1>3
    <3>2. p <= q /\ q <= r
      BY <2>1, <2>2, <2>3, <2>4, <2>5
    <3>. HIDE DEF p, q, r
    <3>3. p <= r
      BY <3>1, <3>2
    <3>. QED  BY <3>3 DEF p, r
  <2>8. ASSUME NEW a \in Nat, NEW b \in Nat, a * B <= b * B PROVE a <= b
    BY <1>3, <2>8
  <2>. QED  BY <2>6, <2>7, <2>8
<1>6. C * input \in Nat /\ scale_pixel_count(f, input) = (C * input) \div D
  BY <1>1 DEF scale_pixel_count
<1>7. z <= (C * input) \div D
  <2>. DEFINE x == C * input
  <2>1. x \in Nat /\ z * D <= x
    BY <1>5, <1>6
  <2>2. z <= x \div D
    <3>. HIDE DEF x, D, z
    <3>. QED  BY <1>2, <1>3, <2>1, QuotientAtLeast
  <2>. QED  BY <2>2
<1>. QED  BY <1>6, <1>7

(* The loop invariant: of the factors tried so far the best one is the      *)
(* closest to the target within the limit, and l.min is how close it is.    *)
ClosestSoFar(l, input, target, max) ==
    /\ l.cur \in Series
    /\ l.min # NoDiff =>
          /\ l.best \in Series /\ scale_pixel_count(l.best, input) <= max
          /\ l.min = AbsDiff(target, scale_pixel_count(l.best, input))
    /\ \A g \in Series : AtLeast(g, l.cur) /\ scale_pixel_count(g, input) <= max
          => l.min # NoDiff /\ l.min <= AbsDiff(target, scale_pixel_count(g, input))

(* Before the loop only the factor 1 was tried. *)
LEMMA FirstClosest ==
    ASSUME NEW input \in Nat, NEW target \in Nat, NEW max \in Nat
    PROVE  ClosestSoFar(First(input, target, max), input, target, max)
<1>. DEFINE l == First(input, target, max)
<1>1. One \in Series /\ scale_pixel_count(One, input) = input
  BY DEF One, Series, Halves, scale_pixel_count
<1>2. /\ l.cur = One /\ l.best = One
      /\ input <= max => l.min = AbsDiff(input, target)
      /\ ~(input <= max) => l.min = NoDiff
  BY DEF First
<1>3. /\ AbsDiff(input, target) = AbsDiff(target, input) /\ AbsDiff(input, target) \in Nat
      /\ AbsDiff(input, target) # NoDiff
  BY DEF AbsDiff, NoDiff
<1>4. ASSUME NEW g \in Series, AtLeast(g, One) PROVE g = One
  <2>1. PICK e \in Halves : \/ g = [num |-> 1, den |-> e]
                            \/ e # 1 /\ g = [num |-> 3, den |-> 2 * e]
    BY SeriesMember
  <2>2. e \in Nat \ {0} /\ (e # 1 => e >= 2)
    BY HalvesApart
  <2>. QED  BY <1>4, <2>1, <2>2 DEF AtLeast, One
<1>. HIDE DEF l
<1>5. ClosestSoFar(l, input, target, max)
  BY <1>1, <1>2, <1>3, <1>4 DEF ClosestSoFar
<1>. QED  BY <1>5 DEF l

(* A turn tries the next factor of the series. *)
LEMMA TurnKeepsClosest ==
    ASSUME NEW input \in Nat, FitsInt(input), NEW target \in Nat, NEW max \in Nat,
           NEW l \in LoopState, ClosestSoFar(l, input, target, max)
    PROVE  ClosestSoFar(Turn(l, input, target, max), input, target, max)
<1>. DEFINE next == ScaleDown(l.cur)
            count == scale_pixel_count(next, input)
            diff == AbsDiff(target, count)
            m == Turn(l, input, target, max)
<1>1. l.cur \in Series /\ l.min \in Nat \cup {NoDiff}
  BY DEF LoopState, ClosestSoFar
<1>2. CASE ~(scale_pixel_count(l.cur, input) > target)
  BY <1>2 DEF Turn
<1>3. CASE scale_pixel_count(l.cur, input) > target
  <2>1. l.cur # [num |-> 1, den |-> 16384]
    BY <1>3, LastFactor
  <2>2. /\ next \in Series
        /\ \A g \in Series : AtLeast(g, next) => g = next \/ AtLeast(g, l.cur)
    BY <1>1, <2>1, NextInSeries
  <2>3. count \in Nat
    BY <2>2, SeriesMember, PixelCount
  <2>4. diff \in Nat /\ diff # NoDiff
    BY <2>3 DEF AbsDiff, NoDiff
  <2>5. ASSUME NEW g \in Series, AtLeast(g, l.cur), scale_pixel_count(g, input) <= max
        PROVE  /\ l.min # NoDiff /\ l.min \in Nat
               /\ l.min <= AbsDiff(target, scale_pixel_count(g, input))
               /\ AbsDiff(target, scale_pixel_count(g, input)) \in Nat
    <3>1. scale_pixel_count(g, input) \in Nat
      BY SeriesMember, PixelCount
    <3>2. AbsDiff(target, scale_pixel_count(g, input)) \in Nat
      BY <3>1 DEF AbsDiff
    <3>. QED  BY <1>1, <2>5, <3>2 DEF ClosestSoFar
  <2>6. CASE count <= max /\ Closer(diff, l.min)
    <3>1. m = [cur |-> next, best |-> next, min |-> diff]
      BY <1>3, <2>6 DEF Turn, Iterate
    <3>2. m.cur = next /\ m.best = next /\ m.min = diff
      BY <3>1
    <3>3. ASSUME NEW g \in Series, AtLeast(g, next), scale_pixel_count(g, input) <= max
          PROVE  diff <= AbsDiff(target, scale_pixel_count(g, input))
      <4>1. CASE g = next
        BY <2>4, <4>1
      <4>2. CASE AtLeast(g, l.cur)
        <5>1. /\ l.min # NoDiff /\ l.min \in Nat
              /\ l.min <= AbsDiff(target, scale_pixel_count(g, input))
              /\ AbsDiff(target, scale_pixel_count(g, input)) \in Nat
          BY <2>5, <3>3, <4>2
        <5>2. diff < l.min
          BY <2>6, <5>1 DEF Closer
        <5>. HIDE DEF diff
        <5>. QED  BY <2>4, <5>1, <5>2
      <4>. QED  BY <2>2, <3>3, <4>1, <4>2
    <3>4. count <= max /\ count = scale_pixel_count(m.best, input)
          /\ m.min = AbsDiff(target, scale_pixel_count(m.best, input))
      BY <2>6, <3>2
    <3>5. \A g \in Series : AtLeast(g, m.cur) /\ scale_pixel_count(g, input) <= max
            => m.min # NoDiff /\ m.min <= AbsDiff(target, scale_pixel_count(g, input))
      BY <2>4, <3>2, <3>3
    <3>6. m.cur \in Series /\ m.best \in Series
      BY <2>2, <3>2
    <3>. HIDE DEF m, next, count, diff
    <3>7. ClosestSoFar(m, input, target, max)
      BY <3>4, <3>5, <3>6 DEF ClosestSoFar
    <3>. QED  BY <3>7 DEF m
  <2>7. CASE ~(count <= max /\ Closer(diff, l.min))
    <3>1. m = [l EXCEPT !.cur = next]
      BY <1>3, <2>7 DEF Turn, Iterate
    <3>2. m.cur = next /\ m.best = l.best /\ m.min = l.min
      BY <3>1 DEF LoopState
    <3>3. ASSUME NEW g \in Series, AtLeast(g, next), scale_pixel_count(g, input) <= max
          PROVE  l.min # NoDiff /\ l.min <= AbsDiff(target, scale_pixel_count(g, input))
      <4>1. CASE g = next
        <5>1. l.min # NoDiff /\ ~(diff < l.min)
          BY <2>7, <3>3, <4>1 DEF Closer
        <5>2. l.min <= diff
          <6>. HIDE DEF diff
          <6>. QED  BY <1>1, <2>4, <5>1
        <5>. QED  BY <4>1, <5>1, <5>2
      <4>2. CASE AtLeast(g, l.cur)
        BY <2>5, <3>3, <4>2
      <4>. QED  BY <2>2, <3>3, <4>1, <4>2
    <3>4. \A g \in Series : AtLeast(g, m.cur) /\ scale_pixel_count(g, input) <= max
            => m.min # NoDiff /\ m.min <= AbsDiff(target, scale_pixel_count(g, input))
      BY <3>2, <3>3
    <3>5. m.cur \in Series
      BY <2>2, <3>2
    <3>. HIDE DEF m, next, count, diff
    <3>6. ClosestSoFar(m, input, target, max)
      BY <3>2, <3>4, <3>5 DEF ClosestSoFar
    <3>. QED  BY <3>6 DEF m
  <2>. QED  BY <2>6, <2>7
<1>. QED  BY <1>2, <1>3

(* What FindScale returns below the size of the frame: a factor of the      *)
(* series within the limit, and none within it comes closer to the target.  *)
THEOREM FindScaleClosest ==
    ASSUME NEW input \in Nat, FitsInt(input), NEW target \in Nat, NEW max \in Nat,
           target < input, target <= max
    PROVE  LET found == FindScale(input, target, max)
           IN  /\ found \in Series
               /\ scale_pixel_count(found, input) <= max
               /\ \A g \in Series : scale_pixel_count(g, input) <= max =>
                      AbsDiff(target, scale_pixel_count(found, input))
                        <= AbsDiff(target, scale_pixel_count(g, input))
<1>1. PICK f : /\ Run(f, input, target, max)
               /\ FindScale(input, target, max) = f[MaxIterations].best
  BY LoopRuns
<1>. DEFINE S == {n \in 0 .. MaxIterations : ClosestSoFar(f[n], input, target, max)}
<1>2. MaxIterations \in Nat
  BY DEF MaxIterations
<1>3. 0 \in S
  <2>1. f[0] = First(input, target, max)
    BY <1>1 DEF Run
  <2>. QED  BY <1>2, <2>1, FirstClosest
<1>4. \A n \in 0 .. MaxIterations : n < MaxIterations /\ n \in S => n + 1 \in S
  <2>. SUFFICES ASSUME NEW n \in 0 .. MaxIterations, n < MaxIterations, n \in S
                PROVE  n + 1 \in S
    OBVIOUS
  <2>1. n + 1 \in 0 .. MaxIterations
    BY <1>2
  <2>2. f[n] \in LoopState /\ f[n + 1] = Turn(f[n], input, target, max)
    BY <1>1, RunSteps
  <2>. QED  BY <2>1, <2>2, TurnKeepsClosest
<1>5. \A n \in 0 .. MaxIterations : n \in S
  <2>. HIDE DEF S
  <2>. QED  BY <1>2, <1>3, <1>4, InductionUpTo
<1>. DEFINE l == f[MaxIterations]
<1>6. /\ ClosestSoFar(l, input, target, max) /\ l \in LoopState
      /\ scale_pixel_count(l.cur, input) <= target
  BY <1>1, <1>2, <1>5, LoopEnds, RunSteps
<1>. HIDE DEF l
<1>7. l.cur \in Series /\ scale_pixel_count(l.cur, input) \in Nat
  BY <1>6, SeriesMember, PixelCount DEF ClosestSoFar
<1>8. AtLeast(l.cur, l.cur) /\ scale_pixel_count(l.cur, input) <= max
  <2>1. l.cur.num \in Nat /\ l.cur.den \in Nat
    BY <1>7, SeriesMember DEF Factors
  <2>2. l.cur.num * l.cur.den \in Nat
    BY <2>1
  <2>. QED  BY <1>6, <1>7, <2>2 DEF AtLeast
<1>9. l.min # NoDiff /\ l.min \in Nat
      /\ l.min <= AbsDiff(target, scale_pixel_count(l.cur, input))
  BY <1>6, <1>7, <1>8 DEF ClosestSoFar, LoopState
<1>10. /\ l.best \in Series /\ scale_pixel_count(l.best, input) <= max
       /\ l.min = AbsDiff(target, scale_pixel_count(l.best, input))
  BY <1>6, <1>9 DEF ClosestSoFar
<1>11. ASSUME NEW g \in Series, scale_pixel_count(g, input) <= max
       PROVE  l.min <= AbsDiff(target, scale_pixel_count(g, input))
  <2>1. CASE AtLeast(g, l.cur)
    BY <1>6, <1>11, <2>1 DEF ClosestSoFar
  <2>2. CASE ~AtLeast(g, l.cur)
    <3>1. scale_pixel_count(g, input) <= scale_pixel_count(l.cur, input)
      BY <1>7, <2>2, SeriesMember, SmallerFactor
    <3>2. scale_pixel_count(g, input) \in Nat
      BY SeriesMember, PixelCount
    <3>. QED  BY <1>6, <1>7, <1>9, <3>1, <3>2 DEF AbsDiff
  <2>. QED  BY <2>1, <2>2
<1>. QED  BY <1>1, <1>10, <1>11 DEF l

--------------------------------------------------------------------------
(* The sides of the scaled frame.                                           *)

Side(f, s) == (roundUp(s, f.den, s) \div f.den) * f.num

(* roundUp within the side itself cuts it to a multiple of the denominator. *)
LEMMA RoundUpCuts ==
    ASSUME NEW s \in Nat, NEW d \in Nat \ {0}
    PROVE  roundUp(s, d, s) \div d = s \div d
<1>. DEFINE q == s \div d
            r == s % d
            u == (s + d - 1) \div d
<1>1. q \in Nat /\ r \in 0 .. d - 1 /\ s = d * q + r
  BY Division
<1>2. u \in Nat /\ d * u <= s + d - 1 /\ s <= d * u
  <2>1. s + d - 1 \in Nat
    OBVIOUS
  <2>2. /\ u \in Nat /\ (s + d - 1) % d \in 0 .. d - 1
        /\ s + d - 1 = d * u + ((s + d - 1) % d)
    BY <2>1, Division
  <2>. QED  BY <2>2
<1>3. (q * d) \div d = q
  <2>1. ASSUME NEW a \in Nat PROVE (a * d) \div d = a
    OBVIOUS
  <2>. HIDE DEF q
  <2>. QED  BY <1>1, <2>1
<1>4. CASE u * d <= s
  <2>1. u * d = s
    <3>. HIDE DEF u
    <3>. QED  BY <1>2, <1>4
  <2>2. roundUp(s, d, s) = s
    BY <1>4, <2>1 DEF roundUp
  <2>. QED  BY <2>2
<1>5. CASE ~(u * d <= s)
  <2>1. roundUp(s, d, s) = q * d
    BY <1>5 DEF roundUp
  <2>. QED  BY <1>3, <2>1
<1>. QED  BY <1>4, <1>5

(* A side, cut and scaled. *)
LEMMA SideShrinks ==
    ASSUME NEW f \in Factors, NEW s \in Nat \ {0}
    PROVE  /\ Side(f, s) \in Nat /\ Side(f, s) <= s
           /\ Side(f, s) * f.den <= f.num * s
           /\ f.den <= s => Side(f, s) > 0
<1>. DEFINE a == s \div f.den
            d == f.den
            m == f.num
<1>1. m \in {1, 3} /\ d \in Nat \ {0} /\ m <= d
  BY DEF Factors
<1>2. Side(f, s) = a * m
  BY <1>1, RoundUpCuts DEF Side
<1>3. a \in Nat /\ s % d \in 0 .. d - 1 /\ s = d * a + (s % d)
  BY <1>1, Division
<1>4. a * d <= s
  <2>. HIDE DEF a, d
  <2>. QED  BY <1>1, <1>3
<1>5. d <= s => a > 0
  <2>. HIDE DEF a, d
  <2>. QED  BY <1>1, <1>3
<1>. HIDE DEF a, d, m
<1>6. a * m <= a * d
  BY <1>1, <1>3
<1>7. (a * m) * d <= m * s
  <2>1. (a * m) * d = m * (a * d)
    BY <1>1, <1>3
  <2>2. m * (a * d) <= m * s
    BY <1>1, <1>3, <1>4
  <2>. QED  BY <1>1, <1>3, <2>1, <2>2
<1>8. a * m \in Nat /\ (a > 0 => a * m > 0)
  BY <1>1, <1>3
<1>9. /\ a * m \in Nat /\ a * m <= s /\ (a * m) * d <= m * s
      /\ d <= s => a * m > 0
  BY <1>1, <1>3, <1>4, <1>5, <1>6, <1>7, <1>8
<1>. QED  BY <1>2, <1>9 DEF d, m

(* Cutting both sides leaves no more pixels than scale_pixel_count says. *)
LEMMA SidesWithinCount ==
    ASSUME NEW f \in Factors, NEW w \in Nat \ {0}, NEW h \in Nat \ {0}
    PROVE  Side(f, w) * Side(f, h) <= scale_pixel_count(f, w * h)
<1>. DEFINE a == Side(f, w)
            b == Side(f, h)
            d == f.den
            m == f.num
            D == d * d
            P == m * m * (w * h)
<1>1. /\ a \in Nat /\ b \in Nat /\ a * d <= m * w /\ b * d <= m * h
      /\ m \in {1, 3} /\ d \in Nat \ {0}
  BY SideShrinks DEF Factors
<1>2. (a * b) * D <= P
  <2>. HIDE DEF a, b, d, m
  <2>1. ASSUME NEW x \in Nat, NEW y \in Nat, NEW u \in Nat, NEW v \in Nat, x <= u, y <= v
        PROVE  x * y <= u * v
    <3>1. x * y <= x * v /\ x * v <= u * v
      BY <2>1
    <3>. QED  BY <3>1
  <2>2. (a * d) * (b * d) <= (m * w) * (m * h)
    BY <1>1, <2>1
  <2>3. (a * d) * (b * d) = (a * b) * D /\ (m * w) * (m * h) = P
    BY <1>1
  <2>. QED  BY <2>2, <2>3
<1>3. a * b \in Nat /\ D \in Nat \ {0} /\ P \in Nat
  <2>. HIDE DEF a, b, d, m
  <2>. QED  BY <1>1
<1>4. a * b <= P \div D
  <2>. DEFINE c == a * b
  <2>1. c \in Nat /\ c * D <= P
    BY <1>2, <1>3
  <2>2. c <= P \div D
    <3>. HIDE DEF c, D, P
    <3>. QED  BY <1>3, <2>1, QuotientAtLeast
  <2>. QED  BY <2>2
<1>. QED  BY <1>4 DEF scale_pixel_count

(* A bounded denominator is not above the shorter side, if the target is    *)
(* not too small for the shape of the frame.                                *)
LEMMA DenominatorFits ==
    ASSUME NEW d \in Nat \ {0}, NEW target \in Nat, NEW short \in Nat \ {0},
           NEW long \in Nat \ {0}, d * d * target < 16 * (long * short),
           target * short >= 16 * long
    PROVE  d <= short
<1>. SUFFICES ASSUME d > short PROVE FALSE
  OBVIOUS
<1>. DEFINE t == target * short
<1>1. t \in Nat /\ t >= 16 * long
  OBVIOUS
<1>2. (d * d) * target >= (d * short) * target
  <2>1. d * d >= d * short
    OBVIOUS
  <2>2. d * d \in Nat /\ d * short \in Nat
    OBVIOUS
  <2>3. ASSUME NEW a \in Nat, NEW b \in Nat, a >= b PROVE a * target >= b * target
    BY <2>3
  <2>. QED  BY <2>1, <2>2, <2>3
<1>3. (d * short) * target = d * t
  OBVIOUS
<1>4. d * t >= short * t /\ short * t >= short * (16 * long)
  <2>. HIDE DEF t
  <2>1. d * t >= short * t
    BY <1>1
  <2>2. short * t >= short * (16 * long)
    BY <1>1
  <2>. QED  BY <2>1, <2>2
<1>5. short * (16 * long) = 16 * (long * short)
  OBVIOUS
<1>. DEFINE a == (d * d) * target
            b == 16 * (long * short)
            c == short * t
            e == d * t
<1>6. a \in Int /\ b \in Int /\ c \in Int /\ e \in Int /\ a < b /\ a >= e /\ e >= c /\ c >= b
  BY <1>2, <1>3, <1>4, <1>5
<1>. HIDE DEF a, b, c, e
<1>. QED  BY <1>6

(* The size a frame is scaled to: within the limit, no side larger than it  *)
(* was, and no side gone unless the target is too small for the shape.      *)
THEOREM ScaledSizeInBounds ==
    ASSUME NEW in \in (Nat \ {0}) \X (Nat \ {0}), FitsInt(Pixels(in)),
           NEW target \in Nat, NEW max \in Nat, target <= max
    PROVE  LET out == ScaledSize(in, target, max)
           IN  /\ out \in Nat \X Nat
               /\ Pixels(out) <= max
               /\ out[1] <= in[1] /\ out[2] <= in[2]
               /\ target * ShortSide(in) >= 16 * LongSide(in) => out[1] > 0 /\ out[2] > 0
<1>. DEFINE w == in[1]
            h == in[2]
            f == FindScale(Pixels(in), target, max)
            out == ScaledSize(in, target, max)
<1>1. w \in Nat \ {0} /\ h \in Nat \ {0} /\ Pixels(in) = w * h /\ w * h \in Nat
  BY DEF Pixels
<1>2. /\ f \in Factors
      /\ scale_pixel_count(f, w * h) <= max
      /\ f = One \/ f.den * f.den * target < 16 * (w * h)
  <2>. DEFINE input == Pixels(in)
  <2>1. input \in Nat /\ input = w * h
    BY <1>1
  <2>2. LET s == FindScale(input, target, max)
        IN  /\ s \in Factors
            /\ scale_pixel_count(s, input) <= max
            /\ s = One \/ s.den * s.den * target < 16 * input
    <3>1. FitsInt(input)
      OBVIOUS
    <3>. HIDE DEF input
    <3>. QED  BY <2>1, <3>1, FindScaleFinds
  <2>. QED  BY <2>1, <2>2
<1>3. out = <<Side(f, w), Side(f, h)>>
  BY DEF ScaledSize, Side
<1>. HIDE DEF f, out, w, h
<1>4. /\ Side(f, w) \in Nat /\ Side(f, w) <= w /\ (f.den <= w => Side(f, w) > 0)
      /\ Side(f, h) \in Nat /\ Side(f, h) <= h /\ (f.den <= h => Side(f, h) > 0)
  BY <1>1, <1>2, SideShrinks
<1>5. Pixels(out) <= max
  <2>1. Side(f, w) * Side(f, h) <= scale_pixel_count(f, w * h)
    BY <1>1, <1>2, SidesWithinCount
  <2>2. scale_pixel_count(f, w * h) \in Nat
    BY <1>1, <1>2, PixelCount
  <2>3. Pixels(out) = Side(f, w) * Side(f, h)
    BY <1>3 DEF Pixels
  <2>4. Side(f, w) * Side(f, h) \in Nat
    BY <1>4
  <2>. QED  BY <1>2, <2>1, <2>2, <2>3, <2>4
<1>6. ASSUME target * ShortSide(in) >= 16 * LongSide(in) PROVE out[1] > 0 /\ out[2] > 0
  <2>. DEFINE short == ShortSide(in)
              long == LongSide(in)
  <2>1. /\ short \in Nat \ {0} /\ long \in Nat \ {0} /\ w * h = long * short
        /\ short <= w /\ short <= h
    BY <1>1 DEF ShortSide, LongSide, w, h
  <2>2. f.den \in Nat \ {0} /\ (f = One => f.den = 1)
    BY <1>2 DEF Factors, One
  <2>3. target * short >= 16 * long
    BY <1>6
  <2>. HIDE DEF short, long
  <2>4. f.den <= short
    <3>1. CASE f = One
      BY <2>1, <2>2, <3>1
    <3>2. CASE f.den * f.den * target < 16 * (w * h)
      <4>. DEFINE d == f.den
      <4>1. d \in Nat \ {0}
        BY <2>2
      <4>2. d * d * target < 16 * (long * short)
        BY <2>1, <3>2
      <4>. HIDE DEF d
      <4>3. d <= short
        BY <2>1, <2>3, <4>1, <4>2, DenominatorFits
      <4>. QED  BY <4>3 DEF d
    <3>. QED  BY <1>2, <3>1, <3>2
  <2>5. f.den <= w /\ f.den <= h
    BY <1>1, <2>1, <2>2, <2>4
  <2>. QED  BY <1>3, <1>4, <2>5
<1>7. out \in Nat \X Nat /\ out[1] <= in[1] /\ out[2] <= in[2]
  BY <1>3, <1>4 DEF w, h
<1>. QED  BY <1>5, <1>6, <1>7 DEF out
===========================================================================
