---------------------------- MODULE PlannerProofs ----------------------------
(***************************************************************************)
(* Proofs about Planner, for source frames and bounds of any size.         *)
(***************************************************************************)
EXTENDS Planner, TLAPS

(***************************************************************************)
(* Arithmetic.                                                             *)
(***************************************************************************)
LEMMA ProductMono ==
    ASSUME NEW a \in Nat, NEW b \in Nat, NEW k \in Nat, a <= b
    PROVE  a * k \in Nat /\ b * k \in Nat /\ a * k <= b * k
OBVIOUS

LEMMA ProductLess ==
    ASSUME NEW a \in Nat, NEW b \in Nat, NEW k \in Nat \ {0}, a < b
    PROVE  a * k + k <= b * k
<1>1. (a + 1) * k = a * k + k /\ a + 1 \in Nat
  OBVIOUS
<1>2. (a + 1) * k <= b * k
  BY <1>1, ProductMono
<1>3. QED
  BY <1>1, <1>2

LEMMA DivMod ==
    ASSUME NEW p \in Nat, NEW q \in Nat \ {0}
    PROVE  /\ p \div q \in Nat
           /\ (p % q) \in Nat
           /\ (p % q) < q
           /\ p = ((p \div q) * q) + (p % q)
OBVIOUS

\* round() is off by half a unit at most.
LEMMA RoundNear ==
    ASSUME NEW p \in Nat, NEW q \in Nat \ {0}
    PROVE  /\ Round(p, q) \in Nat
           /\ 2 * (Round(p, q) * q) <= 2 * p + q
           /\ 2 * p <= 2 * (Round(p, q) * q) + q
<1> DEFINE d == p \div q
           m == p % q
<1>1. /\ d \in Nat /\ m \in Nat /\ m < q /\ p = d * q + m /\ d * q \in Nat
      /\ (d + 1) * q = d * q + q
  BY DivMod
<1>2. Round(p, q) = IF 2 * m < q \/ (2 * m = q /\ d % 2 = 0) THEN d ELSE d + 1
  BY DEF Round
<1> HIDE DEF d, m
<1>3. CASE Round(p, q) = d /\ 2 * m <= q
  BY <1>1, <1>3
<1>4. CASE Round(p, q) = d + 1 /\ 2 * m >= q
  BY <1>1, <1>4
<1>5. QED
  BY <1>1, <1>2, <1>3, <1>4

\* So it crosses no integer.
LEMMA RoundBounds ==
    ASSUME NEW p \in Nat, NEW q \in Nat \ {0}, NEW b \in Nat
    PROVE  /\ p <= b * q => Round(p, q) <= b
           /\ b * q <= p => b <= Round(p, q)
<1> DEFINE r == Round(p, q)
<1>1. r \in Nat /\ 2 * (r * q) <= 2 * p + q /\ 2 * p <= 2 * (r * q) + q /\ r * q \in Nat /\ b * q \in Nat
  BY RoundNear
<1> HIDE DEF r
<1>2. b < r => b * q + q <= r * q
  BY <1>1, ProductLess
<1>3. r < b => r * q + q <= b * q
  BY <1>1, ProductLess
<1>4. (p <= b * q => r <= b) /\ (b * q <= p => b <= r)
  BY <1>1, <1>2, <1>3
<1>5. QED
  BY <1>4 DEF r

\* A side is rounded to the nearest multiple of its unit, but not to nothing.
Unit(even) == IF even THEN 2 ELSE 1

LEMMA RoundSideUnit ==
    ASSUME NEW p \in Nat, NEW q \in Nat \ {0}, NEW even \in BOOLEAN
    PROVE  LET u == Unit(even) IN
           RoundSide(p, q, even) = Larger(u * Round(p, u * q), u)
<1>1. CASE even
  BY <1>1 DEF RoundSide, Unit
<1>2. CASE ~ even
  <2>1. Round(p, q) \in Nat /\ 1 * q = q
    BY RoundNear
  <2>2. QED
    BY <1>2, <2>1 DEF RoundSide, Unit
<1>3. QED
  BY <1>1, <1>2

\* The side is positive, a multiple of its unit, and within a unit of what was
\* asked for unless that was less than a pixel.
LEMMA RoundSideNear ==
    ASSUME NEW p \in Nat, NEW q \in Nat \ {0}, NEW even \in BOOLEAN
    PROVE  /\ RoundSide(p, q, even) \in Nat \ {0}
           /\ RoundSide(p, q, even) >= Unit(even)
           /\ even => RoundSide(p, q, even) % 2 = 0
           /\ \/ p < q
              \/ /\ RoundSide(p, q, even) * q - p <= q
                 /\ p - RoundSide(p, q, even) * q <= q
<1> DEFINE u == Unit(even)
           r == Round(p, u * q)
           s == RoundSide(p, q, even)
<1>1. u \in {1, 2} /\ u * q \in Nat \ {0} /\ (even => u = 2)
  BY DEF Unit
<1>2. /\ r \in Nat /\ r * (u * q) \in Nat
      /\ 2 * (r * (u * q)) <= 2 * p + u * q
      /\ 2 * p <= 2 * (r * (u * q)) + u * q
  <2> DEFINE v == u * q
  <2>1. v \in Nat \ {0}
    BY <1>1
  <2> HIDE DEF v
  <2>2. /\ Round(p, v) \in Nat
        /\ 2 * (Round(p, v) * v) <= 2 * p + v
        /\ 2 * p <= 2 * (Round(p, v) * v) + v
    BY <2>1, RoundNear
  <2>3. Round(p, v) * v \in Nat
    BY <2>1, <2>2, ProductMono
  <2>4. QED
    BY <2>2, <2>3 DEF v
<1>3. s = IF r = 0 THEN u ELSE u * r
  BY <1>1, <1>2, RoundSideUnit DEF Larger
<1> HIDE DEF u, r, s
<1>4. s \in Nat \ {0} /\ s >= u
  BY <1>1, <1>2, <1>3
<1>5. even => s % 2 = 0
  BY <1>1, <1>2, <1>3
<1>6. CASE r = 0
  <2>1. r * (u * q) = 0 /\ s * q = u * q
    BY <1>1, <1>3, <1>6
  <2>2. u * q = q \/ u * q = 2 * q
    BY <1>1
  <2>3. p < q \/ (s * q - p <= q /\ p - s * q <= q)
    BY <1>1, <1>2, <2>1, <2>2
  <2>4. QED
    BY <1>4, <1>5, <2>3 DEF s, u
<1>7. CASE r # 0
  <2>1. r * (u * q) = s * q
    BY <1>1, <1>2, <1>3, <1>7
  <2>2. u * q = q \/ u * q = 2 * q
    BY <1>1
  <2>3. s * q - p <= q /\ p - s * q <= q
    BY <1>1, <1>2, <1>4, <2>1, <2>2
  <2>4. QED
    BY <1>4, <1>5, <2>3 DEF s, u
<1>8. QED
  BY <1>6, <1>7

\* Rounding crosses no bound that is itself a multiple of the unit.
LEMMA RoundSideBounds ==
    ASSUME NEW p \in Nat, NEW q \in Nat \ {0}, NEW even \in BOOLEAN,
           NEW b \in Nat \ {0}, even => b % 2 = 0
    PROVE  /\ p <= b * q => RoundSide(p, q, even) <= b
           /\ b * q <= p => b <= RoundSide(p, q, even)
<1> DEFINE u == Unit(even)
           r == Round(p, u * q)
<1>1. u \in {1, 2} /\ u * q \in Nat \ {0}
  BY DEF Unit
<1>2. PICK c \in Nat \ {0} : b = u * c
  <2>1. CASE even
    <3>1. b = 2 * (b \div 2) /\ b \div 2 \in Nat \ {0}
      BY <2>1
    <3>2. QED
      BY <2>1, <3>1 DEF Unit
  <2>2. CASE ~ even
    BY <2>2 DEF Unit
  <2>3. QED
    BY <2>1, <2>2
<1>3. /\ r \in Nat
      /\ p <= c * (u * q) => r <= c
      /\ c * (u * q) <= p => c <= r
  BY <1>1, <1>2, RoundNear, RoundBounds
<1>4. b * q = c * (u * q)
  BY <1>1, <1>2
<1>5. RoundSide(p, q, even) = Larger(u * r, u)
  BY RoundSideUnit
<1> HIDE DEF u, r
<1>6. QED
  BY <1>1, <1>2, <1>3, <1>4, <1>5 DEF Larger
----------------------------------------------------------------------------
(***************************************************************************)
(* clamp_dimensions().                                                     *)
(***************************************************************************)
LEMMA RulesTyped ==
    ASSUME NEW r \in Rules
    PROVE  /\ r.shortMin \in Nat \ {0}
           /\ r.shortMax \in Nat \ {0} /\ r.longMax \in Nat \ {0}
           /\ r.shortMin <= r.shortMax
           /\ r.faststart \in BOOLEAN
<1>1. /\ r \in [shortMin : ShortMins, shortMax : ShortMaxs, longMax : LongMaxs,
                faststart : BOOLEAN]
      /\ r.shortMin <= r.shortMax
  BY DEF Rules
<1>2. /\ r.shortMin \in ShortMins /\ r.shortMax \in ShortMaxs /\ r.longMax \in LongMaxs
      /\ r.faststart \in BOOLEAN
  BY <1>1
<1>3. r.shortMin \in Nat \ {0} /\ r.shortMax \in Nat \ {0} /\ r.longMax \in Nat \ {0}
  BY <1>2, BoundsAssumption
<1>4. QED
  BY <1>1, <1>2, <1>3

LEMMA SidesTyped ==
    ASSUME NEW f \in Frames
    PROVE  /\ f.w \in Nat \ {0} /\ f.h \in Nat \ {0}
           /\ Short(f) \in Nat \ {0} /\ Long(f) \in Nat \ {0}
           /\ Short(f) <= f.w /\ Short(f) <= f.h /\ f.w <= Long(f) /\ f.h <= Long(f)
           /\ \/ Short(f) = f.w /\ Long(f) = f.h
              \/ Short(f) = f.h /\ Long(f) = f.w
BY DEF Frames, Short, Long, Smaller, Larger

LEMMA ShortScaleFits ==
    ASSUME NEW f \in Frames, NEW r \in Rules
    PROVE  LET s == ShortScale(f, r) IN
           /\ s.num \in Nat \ {0} /\ s.den \in Nat \ {0}
           /\ Short(f) * s.num <= r.shortMax * s.den
           /\ r.shortMin * s.den <= Short(f) * s.num
<1> DEFINE s == ShortScale(f, r)
           a == Short(f)
<1>1. /\ a \in Nat \ {0} /\ r.shortMin \in Nat \ {0} /\ r.shortMax \in Nat \ {0}
      /\ r.shortMin <= r.shortMax
  BY RulesTyped, SidesTyped
<1>2. r.shortMin * a <= r.shortMax * a
  BY <1>1, ProductMono
<1>3. CASE a < r.shortMin
  <2>1. s.num = r.shortMin /\ s.den = a
    BY <1>3 DEF ShortScale
  <2>2. QED
    BY <1>1, <1>2, <2>1
<1>4. CASE a >= r.shortMin /\ a > r.shortMax
  <2>1. s.num = r.shortMax /\ s.den = a
    BY <1>1, <1>4 DEF ShortScale
  <2>2. QED
    BY <1>1, <1>2, <2>1
<1>5. CASE a >= r.shortMin /\ a <= r.shortMax
  <2>1. s.num = 1 /\ s.den = 1
    BY <1>1, <1>5 DEF ShortScale
  <2>2. QED
    BY <1>1, <1>5, <2>1
<1>6. QED
  BY <1>1, <1>3, <1>4, <1>5

\* The scale keeps both caps, and the minimum unless the long side is at its cap.
LEMMA ScaleFits ==
    ASSUME NEW f \in Frames, NEW r \in Rules
    PROVE  LET s == Scale(f, r) IN
           /\ s.num \in Nat \ {0} /\ s.den \in Nat \ {0}
           /\ Long(f) * s.num <= r.longMax * s.den
           /\ Short(f) * s.num <= r.shortMax * s.den
           /\ \/ r.shortMin * s.den <= Short(f) * s.num
              \/ Long(f) * s.num = r.longMax * s.den
<1> DEFINE s == Scale(f, r)
           t == ShortScale(f, r)
           a == Short(f)
           b == Long(f)
           c == r.shortMax
           d == r.longMax
<1>1. a \in Nat \ {0} /\ b \in Nat \ {0} /\ c \in Nat \ {0} /\ d \in Nat \ {0}
  BY RulesTyped, SidesTyped
<1>2. t.num \in Nat \ {0} /\ t.den \in Nat \ {0} /\ a * t.num <= c * t.den
      /\ r.shortMin * t.den <= a * t.num
  BY ShortScaleFits
<1>3. CASE b * t.num > d * t.den
  <2>1. s.num = d /\ s.den = b
    BY <1>3 DEF Scale
  <2>2. a * d <= c * b
    <3>1. SUFFICES ASSUME c * b + 1 <= a * d PROVE FALSE
      BY <1>1
    <3> HIDE DEF a, b, c, d, t
    <3>2. (d * t.den) * a + a <= (b * t.num) * a
      BY <1>1, <1>2, <1>3, ProductLess
    <3>3. (a * t.num) * b <= (c * t.den) * b
      BY <1>1, <1>2, ProductMono
    <3>4. (c * b + 1) * t.den <= (a * d) * t.den
      BY <1>1, <1>2, <3>1, ProductMono
    <3>5. (b * t.num) * a = (a * t.num) * b /\ (d * t.den) * a = (a * d) * t.den
          /\ (c * b + 1) * t.den = (c * t.den) * b + t.den
      BY <1>1, <1>2
    <3>6. QED
      BY <1>1, <1>2, <3>2, <3>3, <3>4, <3>5
  <2>3. QED
    BY <1>1, <2>1, <2>2
<1>4. CASE ~ (b * t.num > d * t.den)
  <2>1. s = t
    BY <1>4 DEF Scale
  <2>2. b * t.num <= d * t.den
    BY <1>1, <1>2, <1>4
  <2>3. QED
    BY <1>2, <2>1, <2>2
<1>5. QED
  BY <1>3, <1>4

EvenBounds(r) == \A b \in {r.shortMin, r.shortMax, r.longMax} : b % 2 = 0

\* Without the step back, and with it.
Rounded(f, r, even) ==
    Frame(RoundSide(f.w * Scale(f, r).num, Scale(f, r).den, even),
          RoundSide(f.h * Scale(f, r).num, Scale(f, r).den, even))

InBounds(f, r) ==
    /\ Short(f) <= r.shortMax
    /\ Long(f) <= r.longMax
    /\ Short(f) >= r.shortMin \/ Long(f) = r.longMax

\* A frame in its bounds is not stepped back.
LEMMA NoStepBack ==
    ASSUME NEW f \in Frames, NEW r \in Rules, NEW even \in BOOLEAN,
           InBounds(Rounded(f, r, even), r)
    PROVE  ClampDimensions(f, r, even) = Rounded(f, r, even)
BY DEF ClampDimensions, StepLongBack, StepShortBack, InBounds, Rounded

\* Bounds that the unit divides are kept by the rounding itself.
LEMMA RoundedFits ==
    ASSUME NEW f \in Frames, NEW r \in Rules, NEW even \in BOOLEAN, even => EvenBounds(r)
    PROVE  /\ Rounded(f, r, even) \in Frames
           /\ InBounds(Rounded(f, r, even), r)
           /\ even => Rounded(f, r, even).w % 2 = 0 /\ Rounded(f, r, even).h % 2 = 0
<1> DEFINE s == Scale(f, r)
           rs(n) == RoundSide(n * s.num, s.den, even)
           a == Short(f)
           b == Long(f)
<1>1. /\ s.num \in Nat \ {0} /\ s.den \in Nat \ {0}
      /\ b * s.num <= r.longMax * s.den
      /\ a * s.num <= r.shortMax * s.den
      /\ r.shortMin * s.den <= a * s.num \/ b * s.num = r.longMax * s.den
  BY ScaleFits
<1>2. /\ a \in Nat \ {0} /\ b \in Nat \ {0} /\ a <= b
      /\ a * s.num \in Nat /\ b * s.num \in Nat /\ a * s.num <= b * s.num
  BY <1>1, SidesTyped, ProductMono
<1>3. /\ r.shortMin \in Nat \ {0} /\ r.shortMax \in Nat \ {0} /\ r.longMax \in Nat \ {0}
      /\ even => r.shortMin % 2 = 0 /\ r.shortMax % 2 = 0 /\ r.longMax % 2 = 0
  BY RulesTyped DEF EvenBounds
<1>4. /\ rs(a) \in Nat \ {0} /\ rs(b) \in Nat \ {0}
      /\ even => rs(a) % 2 = 0 /\ rs(b) % 2 = 0
  BY <1>1, <1>2, RoundSideNear
<1>5. rs(a) <= r.longMax /\ rs(b) <= r.longMax
  <2>1. a * s.num <= r.longMax * s.den
    <3>1. r.longMax * s.den \in Nat
      BY <1>1, <1>3, ProductMono
    <3>2. QED
      BY <1>1, <1>2, <3>1
  <2>2. QED
    BY <1>1, <1>2, <1>3, <2>1, RoundSideBounds
<1>6. rs(a) <= r.shortMax
  BY <1>1, <1>2, <1>3, RoundSideBounds
<1>7. \/ rs(a) >= r.shortMin /\ rs(b) >= r.shortMin
      \/ rs(b) = r.longMax
  <2>1. CASE r.shortMin * s.den <= a * s.num
    <3>1. r.shortMin * s.den <= b * s.num
      <4>1. r.shortMin * s.den \in Nat
        BY <1>1, <1>3, ProductMono
      <4>2. QED
        BY <1>2, <2>1, <4>1
    <3>2. r.shortMin <= rs(a) /\ r.shortMin <= rs(b)
      BY <1>1, <1>2, <1>3, <2>1, <3>1, RoundSideBounds
    <3>3. QED
      BY <1>3, <1>4, <3>2
  <2>2. CASE b * s.num = r.longMax * s.den
    <3>1. r.longMax * s.den <= b * s.num
      BY <1>1, <1>2, <1>3, <2>2
    <3>2. r.longMax <= rs(b)
      BY <1>1, <1>2, <1>3, <3>1, RoundSideBounds
    <3>3. QED
      BY <1>3, <1>4, <1>5, <3>2
  <2>3. QED
    BY <1>1, <2>1, <2>2
<1>8. /\ Rounded(f, r, even).w = rs(f.w) /\ Rounded(f, r, even).h = rs(f.h)
      /\ Rounded(f, r, even) = [w |-> rs(f.w), h |-> rs(f.h)]
  BY DEF Rounded, Frame
<1>9. (a = f.w /\ b = f.h) \/ (a = f.h /\ b = f.w)
  BY SidesTyped
<1> HIDE DEF s, rs, a, b
<1>10. \/ Rounded(f, r, even) = [w |-> rs(a), h |-> rs(b)]
       \/ Rounded(f, r, even) = [w |-> rs(b), h |-> rs(a)]
  BY <1>8, <1>9
<1>11. InBounds(Rounded(f, r, even), r)
  BY <1>3, <1>4, <1>5, <1>6, <1>7, <1>10 DEF InBounds, Short, Long, Smaller, Larger
<1>12. Rounded(f, r, even) \in Frames
  BY <1>4, <1>10 DEF Frames
<1>13. QED
  BY <1>4, <1>10, <1>11, <1>12

\* With bounds that video frames can meet, the clamped frame is the rounded one.
LEMMA ClampFits ==
    ASSUME NEW f \in Frames, NEW r \in Rules, NEW even \in BOOLEAN, even => EvenBounds(r)
    PROVE  LET c == ClampDimensions(f, r, even) IN
           /\ c = Rounded(f, r, even)
           /\ c \in Frames
           /\ InBounds(c, r)
           /\ even => c.w % 2 = 0 /\ c.h % 2 = 0
BY NoStepBack, RoundedFits

\* A step back takes one pixel or two from a side above a cap, which leaves
\* nothing of it only under a cap of one pixel.
LEMMA StepLeaves ==
    ASSUME NEW side \in Nat, NEW cap \in Nat \ {0}, NEW even \in BOOLEAN,
           side > cap
    PROVE  LET step == IF even THEN 2 ELSE 1 IN
           /\ side - step \in Nat
           /\ side - step = 0 => even /\ cap = 1
OBVIOUS

\* Only for a video under a cap of one pixel is a side stepped back to nothing.
LEMMA ClampTyped ==
    ASSUME NEW f \in Frames, NEW r \in Rules, NEW even \in BOOLEAN
    PROVE  /\ ClampDimensions(f, r, even) \in Targets
           /\ \/ ClampDimensions(f, r, even) \in Frames
              \/ even /\ 1 \in {r.shortMax, r.longMax}
<1> DEFINE g == Rounded(f, r, even)
           step == IF even THEN 2 ELSE 1
           k == StepLongBack(g, r.longMax, step)
           c == ClampDimensions(f, r, even)
           tight == even /\ 1 \in {r.shortMax, r.longMax}
<1>1. r.shortMax \in Nat \ {0} /\ r.longMax \in Nat \ {0}
  BY RulesTyped
<1>2. g.w \in Nat \ {0} /\ g.h \in Nat \ {0} /\ g = Frame(g.w, g.h)
  <2>1. Scale(f, r).num \in Nat \ {0} /\ Scale(f, r).den \in Nat \ {0}
    BY ScaleFits
  <2>2. f.w * Scale(f, r).num \in Nat /\ f.h * Scale(f, r).num \in Nat
    BY <2>1, SidesTyped, ProductMono
  <2>3. /\ g.w = RoundSide(f.w * Scale(f, r).num, Scale(f, r).den, even)
        /\ g.h = RoundSide(f.h * Scale(f, r).num, Scale(f, r).den, even)
        /\ g = Frame(g.w, g.h)
    BY DEF Rounded, Frame
  <2>4. QED
    BY <2>1, <2>2, <2>3, RoundSideNear
<1>3. c = StepShortBack(k, r.shortMax, step)
  BY DEF ClampDimensions, Rounded
<1> HIDE DEF g
<1>4. \/ k = g
      \/ k = Frame(g.w - step, g.h) /\ g.w > r.longMax
      \/ k = Frame(g.w, g.h - step) /\ g.h > r.longMax
  BY <1>1, <1>2 DEF StepLongBack, Long, Larger
<1>5. /\ k.w \in Nat /\ k.h \in Nat /\ k = Frame(k.w, k.h)
      /\ ~ tight => k.w # 0 /\ k.h # 0
  <2>1. CASE k = g
    BY <1>2, <2>1
  <2>2. CASE k = Frame(g.w - step, g.h) /\ g.w > r.longMax
    BY <1>1, <1>2, <2>2, StepLeaves DEF Frame
  <2>3. CASE k = Frame(g.w, g.h - step) /\ g.h > r.longMax
    BY <1>1, <1>2, <2>3, StepLeaves DEF Frame
  <2>4. QED
    BY <1>4, <2>1, <2>2, <2>3
<1> HIDE DEF k
<1>6. \/ c = k
      \/ c = Frame(k.w - step, k.h) /\ k.w > r.shortMax
      \/ c = Frame(k.w, k.h - step) /\ k.h > r.shortMax
  BY <1>1, <1>3, <1>5 DEF StepShortBack, Short, Smaller
<1> HIDE DEF c
<1>7. /\ c.w \in Nat /\ c.h \in Nat /\ c = Frame(c.w, c.h)
      /\ ~ tight => c.w # 0 /\ c.h # 0
  <2>1. CASE c = k
    BY <1>5, <2>1
  <2>2. CASE c = Frame(k.w - step, k.h) /\ k.w > r.shortMax
    BY <1>1, <1>5, <2>2, StepLeaves DEF Frame
  <2>3. CASE c = Frame(k.w, k.h - step) /\ k.h > r.shortMax
    BY <1>1, <1>5, <2>3, StepLeaves DEF Frame
  <2>4. QED
    BY <1>6, <2>1, <2>2, <2>3
<1>8. c \in Targets /\ (c \in Frames \/ tight)
  BY <1>7 DEF Frame, Frames, Targets
<1>9. QED
  BY <1>8 DEF c

\* A frame that satisfies the bounds is left alone.
LEMMA ClampIdle ==
    ASSUME NEW f \in Frames, NEW r \in Rules, NEW even \in BOOLEAN, InBounds(f, r),
           even => f.w % 2 = 0 /\ f.h % 2 = 0
    PROVE  ClampDimensions(f, r, even) = f
<1> DEFINE s == Scale(f, r)
           a == Short(f)
           b == Long(f)
<1>1. /\ a \in Nat \ {0} /\ b \in Nat \ {0} /\ f.w \in Nat \ {0} /\ f.h \in Nat \ {0}
      /\ f = [w |-> f.w, h |-> f.h]
  BY SidesTyped DEF Frames
<1>2. /\ r.shortMin \in Nat \ {0} /\ r.shortMax \in Nat \ {0} /\ r.longMax \in Nat \ {0}
      /\ a <= r.shortMax /\ b <= r.longMax /\ (a >= r.shortMin \/ b = r.longMax)
  BY RulesTyped DEF InBounds
<1>3. s.num \in Nat \ {0} /\ s.den = s.num
  <2>1. CASE a >= r.shortMin
    <3>1. ShortScale(f, r) = [num |-> 1, den |-> 1]
      BY <1>1, <1>2, <2>1 DEF ShortScale
    <3>2. s = [num |-> 1, den |-> 1]
      BY <1>1, <1>2, <3>1 DEF Scale
    <3>3. QED
      BY <3>2
  <2>2. CASE a < r.shortMin /\ b = r.longMax
    <3>1. ShortScale(f, r) = [num |-> r.shortMin, den |-> a]
      BY <2>2 DEF ShortScale
    <3>2. b * r.shortMin > r.longMax * a
      <4>1. a * b + b <= r.shortMin * b
        BY <1>1, <1>2, <2>2, ProductLess
      <4>2. QED
        BY <1>1, <1>2, <2>2, <4>1
    <3>3. s = [num |-> r.longMax, den |-> b]
      BY <3>1, <3>2 DEF Scale
    <3>4. QED
      BY <1>2, <2>2, <3>3
  <2>3. QED
    BY <1>1, <1>2, <2>1, <2>2
<1>4. ASSUME NEW n \in Nat \ {0}, even => n % 2 = 0
      PROVE  RoundSide(n * s.num, s.den, even) = n
  <2> HIDE DEF s
  <2>1. n * s.num \in Nat /\ n * s.num = n * s.den
    BY <1>3, <1>4, ProductMono
  <2>2. RoundSide(n * s.num, s.den, even) <= n /\ n <= RoundSide(n * s.num, s.den, even)
    BY <1>3, <1>4, <2>1, RoundSideBounds
  <2>3. RoundSide(n * s.num, s.den, even) \in Nat
    BY <1>3, <2>1, RoundSideNear
  <2>4. QED
    BY <1>4, <2>2, <2>3
<1>5. Rounded(f, r, even) = f
  BY <1>1, <1>4 DEF Rounded, Frame
<1>6. QED
  BY <1>5, NoStepBack
----------------------------------------------------------------------------
(***************************************************************************)
(* plan_video(), and what becomes of a plan.                               *)
(***************************************************************************)
LEMMA VideoPlanTyped ==
    ASSUME NEW i \in Infos(Frames), NEW r \in Rules
    PROVE  /\ VideoPlan(i, r) \in Plans(Targets)
           /\ VideoPlan(i, r).frame = ClampDimensions(i.frame, r, TRUE)
           /\ VideoPlan(i, r).frame \in Frames \/ 1 \in {r.shortMax, r.longMax}
<1>1. i.frame \in Frames /\ i.hdr \in BOOLEAN /\ i.rotated \in BOOLEAN
  BY DEF Infos
<1>2. /\ ClampDimensions(i.frame, r, TRUE) \in Targets
      /\ ClampDimensions(i.frame, r, TRUE) \in Frames \/ 1 \in {r.shortMax, r.longMax}
  BY <1>1, ClampTyped
<1>3. VideoPlan(i, r).frame = ClampDimensions(i.frame, r, TRUE)
  BY DEF VideoPlan, NeedsVideoEncode, Plan
<1>4. i.frame \in Targets
  BY <1>1 DEF Frames, Targets
<1>5. VideoPlan(i, r) \in Plans(Targets)
  BY <1>1, <1>2, <1>4 DEF VideoPlan, NeedsVideoEncode, NeedsAudioEncode, Plan, Plans
<1>6. QED
  BY <1>2, <1>3, <1>5

\* The file made has sides whatever the target.
LEMMA ScaledTyped ==
    ASSUME NEW from \in Frames, NEW to \in Targets
    PROVE  Scaled(from, to) \in Frames /\ (to \in Frames => Scaled(from, to) = to)
BY DEF Frames, Targets, Scaled, Frame

LEMMA RenderedTyped ==
    ASSUME NEW i \in Infos(Frames), NEW p \in Plans(Targets), NEW r \in Rules
    PROVE  /\ Rendered(i, p, r) \in Infos(Frames)
           /\ Rendered(i, p, r).container = "fit"
           /\ Rendered(i, p, r).faststart = IF r.faststart THEN "yes" ELSE "no"
           /\ Rendered(i, p, r).animated = i.animated
           /\ p.frame \in Frames => /\ Rendered(i, p, r).frame = p.frame
                                    /\ PostCheckPasses(Rendered(i, p, r), p, r)
<1>1. p.frame \in Targets /\ p.video \in BOOLEAN /\ p.audio \in BOOLEAN
  BY DEF Plans
<1>2. i.frame \in Frames /\ i.hdr \in BOOLEAN /\ i.rotated \in BOOLEAN
  BY DEF Infos
<1>3. Scaled(i.frame, p.frame) \in Frames
      /\ (p.frame \in Frames => Scaled(i.frame, p.frame) = p.frame)
  BY <1>1, <1>2, ScaledTyped
<1>4. QED
  BY <1>1, <1>2, <1>3, ZenonT(40) DEF Rendered, Infos, PostCheckPasses

\* What the rules ask of a video stream, but for its frame.
StreamsComply(i) ==
    /\ ~ i.rotated
    /\ ~ i.hdr /\ i.codec = "fit" /\ i.fps = "within" /\ i.audio # "other"
    /\ i.container = "fit"
    /\ rules.faststart => i.faststart = "yes"

\* A plan of plan_video() makes everything comply that does not yet, and leaves
\* nothing to do to a file that complies.
LEMMA StreamsFixed ==
    ASSUME NEW i \in Infos(Frames), rules \in Rules,
           i.container = "fit" => i.faststart # "none"
    PROVE  LET p == VideoPlan(i, rules) IN
           /\ p.kind = "unchanged" => StreamsComply(i) /\ p.frame = i.frame
           /\ p.kind # "unchanged" => StreamsComply(Rendered(i, p, rules))
           /\ /\ StreamsComply(i)
              /\ ClampDimensions(i.frame, rules, TRUE) = i.frame
              => p.kind = "unchanged"
<1> DEFINE p == VideoPlan(i, rules)
           q == Rendered(i, p, rules)
<1>1. /\ i.codec \in {"fit", "other"} /\ i.fps \in {"within", "over"}
      /\ i.audio \in {"none", "fit", "other"} /\ i.container \in {"fit", "other"}
      /\ i.faststart \in {"yes", "no", "none"} /\ i.hdr \in BOOLEAN /\ i.rotated \in BOOLEAN
  BY DEF Infos
<1>2. p.kind = "unchanged" => StreamsComply(i) /\ p.frame = i.frame
  BY <1>1 DEF VideoPlan, NeedsVideoEncode, NeedsAudioEncode, NeedsRemux, Plan, StreamsComply
<1>3. ASSUME p.kind # "unchanged" PROVE StreamsComply(q)
  <2>1. /\ p.video \/ (~ i.rotated /\ ~ i.hdr /\ i.codec = "fit" /\ i.fps = "within")
        /\ p.audio \/ i.audio # "other"
    BY <1>1, <1>3 DEF VideoPlan, NeedsVideoEncode, NeedsAudioEncode, Plan
  <2>2. /\ q.rotated = (i.rotated /\ ~ p.video)
        /\ q.hdr = (i.hdr /\ ~ p.video)
        /\ q.codec = IF p.video THEN "fit" ELSE i.codec
        /\ q.fps = IF p.video THEN "within" ELSE i.fps
        /\ q.audio = IF p.audio THEN "fit" ELSE i.audio
        /\ q.container = "fit"
        /\ q.faststart = IF rules.faststart THEN "yes" ELSE "no"
    BY DEF Rendered, Infos
  <2>3. QED
    BY <2>1, <2>2 DEF StreamsComply
<1>4. /\ StreamsComply(i) /\ ClampDimensions(i.frame, rules, TRUE) = i.frame
      => p.kind = "unchanged"
  BY <1>1 DEF VideoPlan, NeedsVideoEncode, NeedsAudioEncode, NeedsRemux, Plan, StreamsComply
<1>5. QED
  BY <1>2, <1>3, <1>4
----------------------------------------------------------------------------
(***************************************************************************)
(* The passes of one medium.                                               *)
(***************************************************************************)
\* Where the plan and the file come from.
OriginInv ==
    /\ info.container = "fit" => info.faststart # "none"
    /\ pc \in {"given", "planned", "made"} => passes < MaxPasses
    /\ pc \in {"planned", "made"} => media = "video"
    /\ pc = "planned" => plan = VideoPlan(info, rules)
    /\ pc = "made" => /\ plan = VideoPlan(origin, rules)
                      /\ info = Rendered(origin, plan, rules)
                      /\ Attainable => Complies(info)
    /\ pc = "checked" => info.frame = ClampDimensions(origin.frame, rules, media = "video")
    /\ info.animated = origin.animated
    /\ PostCheckFair

\* An animation is looked at once, and stays.
AnimationInv ==
    origin.animated => /\ info = origin /\ media = "image"
                       /\ passes = 0 /\ pc \in {"given", "settled"}

\* A file that has been through a job complies, and so needs no other job.
IdleInv ==
    Attainable =>
        /\ passes > 0 => pc # "made" /\ (pc # "failed" => Complies(info))
        /\ pc = "checked" => passes > 0

IInv ==
    /\ TypeOK
    /\ OriginInv
    /\ AnimationInv
    /\ IdleInv
    /\ ResultComplies
    /\ SecondPassIsIdle

LEMMA CompliesSplit ==
    ASSUME NEW i
    PROVE  /\ media = "image" => (Complies(i) <=> InBounds(i.frame, rules) /\ ~ i.rotated)
           /\ media = "video" => (Complies(i) <=> /\ InBounds(i.frame, rules)
                                                 /\ i.frame.w % 2 = 0 /\ i.frame.h % 2 = 0
                                                 /\ StreamsComply(i))
BY DEF Complies, InBounds, StreamsComply

\* One job makes a video comply, and finds nothing to do in one that does.
LEMMA VideoJob ==
    ASSUME TypeOK, media = "video", info.container = "fit" => info.faststart # "none"
    PROVE  LET p == VideoPlan(info, rules) IN
           /\ Attainable /\ p.kind = "unchanged" => Complies(info)
           /\ Attainable /\ p.kind # "unchanged" => Complies(Rendered(info, p, rules))
           /\ Complies(info) => p.kind = "unchanged"
<1> DEFINE p == VideoPlan(info, rules)
           q == Rendered(info, p, rules)
<1>1. info \in Infos(Frames) /\ info.frame \in Frames /\ rules \in Rules
  BY DEF TypeOK, Infos
<1>2. p \in Plans(Targets) /\ p.frame = ClampDimensions(info.frame, rules, TRUE)
  BY <1>1, VideoPlanTyped
<1>3. p.frame \in Frames => q.frame = p.frame
  BY <1>1, <1>2, RenderedTyped
<1>4. Attainable => EvenBounds(rules)
  BY DEF Attainable, EvenRules, EvenBounds
<1>5. Attainable => /\ p.frame \in Frames /\ InBounds(p.frame, rules)
                    /\ p.frame.w % 2 = 0 /\ p.frame.h % 2 = 0
  BY <1>1, <1>2, <1>4, ClampFits
<1>6. /\ p.kind = "unchanged" => StreamsComply(info) /\ p.frame = info.frame
      /\ p.kind # "unchanged" => StreamsComply(q)
      /\ /\ StreamsComply(info)
         /\ ClampDimensions(info.frame, rules, TRUE) = info.frame
         => p.kind = "unchanged"
  BY <1>1, StreamsFixed
<1>7. Complies(info) => ClampDimensions(info.frame, rules, TRUE) = info.frame
  BY <1>1, ClampIdle, CompliesSplit
<1> HIDE DEF p, q
<1>8. /\ Attainable /\ p.kind = "unchanged" => Complies(info)
      /\ Attainable /\ p.kind # "unchanged" => Complies(q)
      /\ Complies(info) => p.kind = "unchanged"
  BY <1>3, <1>5, <1>6, <1>7, CompliesSplit
<1>9. QED
  BY <1>8 DEF p, q

\* So does one job of an image.
LEMMA ImageJob ==
    ASSUME TypeOK, media = "image"
    PROVE  LET target == ClampDimensions(info.frame, rules, FALSE) IN
           /\ target \in Frames /\ target \in Targets
           /\ InBounds(target, rules)
           /\ Complies(info) => target = info.frame /\ ~ info.rotated
<1>1. info.frame \in Frames /\ rules \in Rules
  BY DEF TypeOK, Infos
<1>2. QED
  BY <1>1, ClampFits, ClampTyped, ClampIdle, CompliesSplit

LEMMA InvInitially == Init => IInv
<1> SUFFICES ASSUME Init PROVE IInv
  OBVIOUS
<1>1. SourceFrames \subseteq Frames
  BY SidesAssumption DEF SourceFrames, Frames, Frame
<1>2. info \in Infos(Frames)
  BY <1>1 DEF Init, Sources, Infos
<1>3. TypeOK
  <2>1. plan \in Plans(Targets)
    BY DEF Init, NoPlan, Plan, Plans, Frame, Targets
  <2>2. QED
    BY <1>2, <2>1 DEF Init, TypeOK, MaxPasses
<1>4. /\ info.container = "fit" => info.faststart # "none"
      /\ info.animated => media = "image"
  BY DEF Init, Sources, Media
<1>5. QED
  BY <1>3, <1>4
     DEF Init, IInv, OriginInv, AnimationInv, IdleInv, ResultComplies, SecondPassIsIdle, PostCheckFair,
         MaxPasses

\* The rules and the kind of medium stay, so what they ask for does.
LEMMA SameRules ==
    ASSUME UNCHANGED <<media, rules>>
    PROVE  (Attainable' <=> Attainable) /\ \A i : Complies(i)' <=> Complies(i)
BY DEF Attainable, EvenRules, Complies

LEMMA InvStep == IInv /\ [Next]_vars => IInv'
<1> SUFFICES ASSUME IInv, [Next]_vars PROVE IInv'
  OBVIOUS
<1> USE DEF IInv
<1>1. CASE PlanVideo
  <2>1. /\ pc = "given" /\ pc' = "planned" /\ media = "video"
        /\ plan' = VideoPlan(info, rules) /\ UNCHANGED <<media, rules, info, origin, passes>>
    BY <1>1 DEF PlanVideo
  <2>2. plan' \in Plans(Targets)
    BY <2>1, VideoPlanTyped DEF TypeOK
  <2>3. TypeOK'
    BY <2>1, <2>2 DEF TypeOK
  <2>4. OriginInv' /\ AnimationInv'
    BY <2>1 DEF OriginInv, AnimationInv, PostCheckFair
  <2>5. Complies(info) => plan'.kind = "unchanged"
    BY <2>1, VideoJob DEF OriginInv
  <2>6. IdleInv' /\ ResultComplies' /\ SecondPassIsIdle'
    BY <2>1, <2>5, SameRules DEF IdleInv, ResultComplies, SecondPassIsIdle
  <2>7. QED
    BY <2>3, <2>4, <2>6
<1>2. CASE Unchanged
  <2>1. /\ pc = "planned" /\ pc' = "settled" /\ plan.kind = "unchanged"
        /\ UNCHANGED <<media, rules, info, origin, plan, passes>>
    BY <1>2 DEF Unchanged
  <2>2. media = "video" /\ plan = VideoPlan(info, rules)
    BY <2>1 DEF OriginInv
  <2>3. TypeOK' /\ OriginInv' /\ AnimationInv'
    BY <2>1 DEF TypeOK, OriginInv, AnimationInv, PostCheckFair
  <2>4. Attainable => Complies(info)
    BY <2>1, <2>2, VideoJob DEF OriginInv
  <2>5. ~ origin.animated
    BY <2>1 DEF AnimationInv
  <2>6. IdleInv' /\ ResultComplies' /\ SecondPassIsIdle'
    BY <2>1, <2>4, <2>5, SameRules DEF IdleInv, ResultComplies, SecondPassIsIdle
  <2>7. QED
    BY <2>3, <2>6
<1>3. CASE Render
  <2>1. /\ media = "video" /\ plan = VideoPlan(info, rules) /\ plan.kind # "unchanged"
        /\ UNCHANGED <<media, rules, plan, passes>>
        /\ origin' = info /\ info' = Rendered(info, plan, rules)
        /\ pc = "planned" /\ pc' = "made" /\ passes < MaxPasses
    BY <1>3 DEF Render, OriginInv
  <2>2. info \in Infos(Frames) /\ rules \in Rules /\ plan \in Plans(Targets)
    BY <2>1, VideoPlanTyped DEF TypeOK
  <2>3. /\ info' \in Infos(Frames) /\ info'.faststart # "none"
        /\ info'.animated = info.animated
    BY <2>1, <2>2, RenderedTyped
  <2>4. TypeOK'
    BY <2>1, <2>2, <2>3 DEF TypeOK
  <2>5. Attainable => Complies(info')
    BY <2>1, VideoJob DEF OriginInv
  <2>6. OriginInv'
    BY <2>1, <2>2, <2>3, <2>5, SameRules DEF OriginInv, PostCheckFair
  <2>7. ~ origin'.animated
    BY <2>1 DEF AnimationInv, OriginInv
  <2>8. Attainable => passes = 0
    BY <2>1 DEF SecondPassIsIdle, TypeOK
  <2>9. AnimationInv' /\ IdleInv' /\ ResultComplies' /\ SecondPassIsIdle'
    BY <2>1, <2>7, <2>8, SameRules DEF AnimationInv, IdleInv, ResultComplies, SecondPassIsIdle
  <2>10. QED
    BY <2>4, <2>6, <2>9
<1>4. CASE PostCheck
  <2>1. /\ plan = VideoPlan(origin, rules) /\ info = Rendered(origin, plan, rules)
        /\ media = "video" /\ pc = "made" /\ passes < MaxPasses
        /\ UNCHANGED <<media, rules, info, origin, plan>>
    BY <1>4 DEF PostCheck, OriginInv
  <2>2. origin \in Infos(Frames) /\ rules \in Rules /\ passes \in Nat
    BY DEF TypeOK
  <2>3. /\ plan \in Plans(Targets) /\ plan.frame \in Targets
        /\ plan.frame = ClampDimensions(origin.frame, rules, TRUE)
        /\ plan.frame \in Frames \/ 1 \in {rules.shortMax, rules.longMax}
    BY <2>1, <2>2, VideoPlanTyped DEF Plans
  <2>4. Attainable => Complies(info)
    BY <2>1 DEF OriginInv
  <2>5. ~ origin.animated
    BY <2>1 DEF AnimationInv
  <2>6. CASE PostCheckPasses(info, plan, rules)
    <3>1. pc' = "checked" /\ passes' = passes + 1
      BY <1>4, <2>6 DEF PostCheck
    <3>2. info.frame = plan.frame
      BY <2>6 DEF PostCheckPasses
    <3>3. TypeOK'
      BY <2>1, <2>2, <3>1 DEF TypeOK, MaxPasses
    <3>4. OriginInv' /\ AnimationInv'
      BY <2>1, <2>3, <2>5, <3>1, <3>2 DEF OriginInv, AnimationInv, PostCheckFair
    <3>5. IdleInv' /\ ResultComplies' /\ SecondPassIsIdle'
      BY <2>1, <2>2, <2>4, <2>5, <3>1, SameRules
         DEF IdleInv, ResultComplies, SecondPassIsIdle
    <3>6. QED
      BY <3>3, <3>4, <3>5
  <2>7. CASE ~ PostCheckPasses(info, plan, rules)
    <3>1. pc' = "failed" /\ passes' = passes
      BY <1>4, <2>7 DEF PostCheck
    <3>2. plan.frame \notin Frames
      BY <2>1, <2>2, <2>3, <2>7, RenderedTyped
    <3>3. 0 \in {plan.frame.w, plan.frame.h} /\ 1 \in {rules.shortMax, rules.longMax}
      BY <2>3, <3>2 DEF Frames, Targets
    <3>4. TypeOK'
      BY <2>1, <3>1 DEF TypeOK
    <3>5. OriginInv' /\ AnimationInv'
      BY <2>1, <2>5, <3>1, <3>3 DEF OriginInv, AnimationInv, PostCheckFair
    <3>6. IdleInv' /\ ResultComplies' /\ SecondPassIsIdle'
      BY <2>1, <3>1, SameRules DEF IdleInv, ResultComplies, SecondPassIsIdle
    <3>7. QED
      BY <3>4, <3>5, <3>6
  <2>8. QED
    BY <2>6, <2>7
<1>5. CASE NormaliseImage
  <2> DEFINE target == ClampDimensions(info.frame, rules, FALSE)
  <2>1. media = "image" /\ UNCHANGED <<media, rules>> /\ pc = "given" /\ passes < MaxPasses
    BY <1>5 DEF NormaliseImage, OriginInv
  <2>2. /\ target \in Frames /\ target \in Targets /\ InBounds(target, rules)
        /\ Complies(info) => target = info.frame /\ ~ info.rotated
    BY <2>1, ImageJob
  <2>3. info \in Infos(Frames) /\ passes \in Nat
    BY DEF TypeOK
  <2>4. CASE info.animated \/ (target = info.frame /\ ~ info.rotated)
    <3>1. /\ pc' = "settled" /\ plan' = Plan("unchanged", info.frame, FALSE, FALSE)
          /\ UNCHANGED <<info, origin, passes>>
      BY <1>5, <2>4 DEF NormaliseImage
    <3>2. TypeOK'
      <4>1. plan' \in Plans(Targets)
        BY <2>3, <3>1 DEF Plan, Plans, Infos, Frames, Targets
      <4>2. QED
        BY <2>1, <3>1, <4>1 DEF TypeOK
    <3>3. OriginInv' /\ AnimationInv'
      BY <2>1, <3>1 DEF OriginInv, AnimationInv, PostCheckFair
    <3>4. ~ info.animated => Complies(info)
      BY <2>1, <2>2, <2>4, CompliesSplit
    <3>5. (info.animated <=> origin.animated) /\ (origin.animated => info = origin /\ passes = 0)
      BY DEF OriginInv, AnimationInv
    <3>6. IdleInv' /\ ResultComplies' /\ SecondPassIsIdle'
      BY <2>1, <2>3, <3>1, <3>4, <3>5, SameRules
         DEF IdleInv, ResultComplies, SecondPassIsIdle, Plan
    <3>7. QED
      BY <3>2, <3>3, <3>6
  <2>5. CASE ~ (info.animated \/ (target = info.frame /\ ~ info.rotated))
    <3>1. /\ pc' = "checked" /\ plan' = Plan("encode", target, TRUE, FALSE)
          /\ origin' = info
          /\ info' = [info EXCEPT !.frame = target, !.rotated = FALSE]
          /\ passes' = passes + 1
      BY <1>5, <2>5 DEF NormaliseImage
    <3>2. /\ info' \in Infos(Frames) /\ info'.frame = target /\ ~ info'.rotated
          /\ info'.container = info.container /\ info'.faststart = info.faststart
          /\ info'.animated = info.animated
      BY <2>2, <2>3, <3>1 DEF Infos
    <3>3. TypeOK'
      <4>1. plan' \in Plans(Targets)
        BY <2>2, <3>1 DEF Plan, Plans
      <4>2. QED
        <5>1. passes' \in 0..MaxPasses
          BY <2>1, <2>3, <3>1 DEF MaxPasses
        <5>2. QED
          BY <2>1, <2>3, <3>1, <3>2, <4>1, <5>1 DEF TypeOK
    <3>4. ~ origin'.animated
      BY <2>5, <3>1
    <3>5. OriginInv' /\ AnimationInv'
      BY <2>1, <3>1, <3>2, <3>4 DEF OriginInv, AnimationInv, PostCheckFair
    <3>6. Complies(info')
      BY <2>1, <2>2, <3>2, CompliesSplit
    <3>7. IdleInv' /\ ResultComplies' /\ SecondPassIsIdle'
      BY <2>1, <2>3, <3>1, <3>4, <3>6, SameRules DEF IdleInv, ResultComplies, SecondPassIsIdle
    <3>8. QED
      BY <3>3, <3>5, <3>7
  <2>6. QED
    BY <2>4, <2>5
<1>6. CASE SendAgain
  <2>1. /\ pc = "checked" /\ pc' = "given" /\ passes < MaxPasses
        /\ UNCHANGED <<media, rules, info, origin, plan, passes>>
    BY <1>6 DEF SendAgain
  <2>2. TypeOK' /\ OriginInv' /\ AnimationInv'
    BY <2>1 DEF TypeOK, OriginInv, AnimationInv, PostCheckFair
  <2>3. IdleInv' /\ ResultComplies' /\ SecondPassIsIdle'
    BY <2>1, SameRules DEF IdleInv, ResultComplies, SecondPassIsIdle
  <2>4. QED
    BY <2>2, <2>3
<1>7. CASE UNCHANGED vars
  <2>1. UNCHANGED <<pc, media, rules, info, origin, plan, passes>>
    BY <1>7 DEF vars
  <2>2. TypeOK' /\ OriginInv' /\ AnimationInv'
    BY <2>1, SameRules DEF TypeOK, OriginInv, AnimationInv, PostCheckFair
  <2>3. IdleInv' /\ ResultComplies' /\ SecondPassIsIdle'
    BY <2>1, SameRules DEF IdleInv, ResultComplies, SecondPassIsIdle
  <2>4. QED
    BY <2>2, <2>3
<1>8. QED
  BY <1>1, <1>2, <1>3, <1>4, <1>5, <1>6, <1>7 DEF Next

LEMMA Invariance == Spec => []IInv
BY InvInitially, InvStep, PTL DEF Spec

\* Every file a job starts from or makes has two sides, whatever its frame and the
\* bounds of the request, and no job is planned past its passes (clamp_dimensions).
THEOREM TypeCorrect == Spec => []TypeOK
<1>1. IInv => TypeOK
  BY DEF IInv
<1>2. QED
  BY <1>1, Invariance, PTL

\* Every file a caller ends with satisfies all the rules, for frames and bounds of
\* any size that a video can meet, or is the animation it sent (clamp_dimensions,
\* plan_video, process_image).
THEOREM EveryResultComplies == Spec => []ResultComplies
<1>1. IInv => ResultComplies
  BY DEF IInv
<1>2. QED
  BY <1>1, Invariance, PTL

\* An output sent in again is unchanged.
THEOREM SecondPassIdle == Spec => []SecondPassIsIdle
<1>1. IInv => SecondPassIsIdle
  BY DEF IInv
<1>2. QED
  BY <1>1, Invariance, PTL

\* The post-check accepts whatever an obedient ffmpeg makes of a plan, unless a cap
\* of one pixel has left the target a side of nothing (_post_check).
THEOREM PostCheckAccepts == Spec => []PostCheckFair
<1>1. IInv => PostCheckFair
  BY DEF IInv, OriginInv
<1>2. QED
  BY <1>1, Invariance, PTL

\* One scale for both sides, and no side is off by more than a pixel.
THEOREM AspectStays == Spec => []AspectKept
<1>1. ASSUME IInv, Attainable, pc = "checked" PROVE AspectKept
  <2> DEFINE even == media = "video"
             f == origin.frame
             s == Scale(f, rules)
  <2>1. f \in Frames /\ rules \in Rules /\ even \in BOOLEAN /\ (even => EvenBounds(rules))
    BY <1>1 DEF IInv, TypeOK, Infos, Media, Attainable, EvenRules, EvenBounds
  <2>2. info.frame = Rounded(f, rules, even)
    BY <1>1, <2>1, ClampFits DEF IInv, OriginInv
  <2>3. /\ s.num \in Nat \ {0} /\ s.den \in Nat \ {0}
        /\ f.w \in Nat /\ f.h \in Nat
    BY <2>1, ScaleFits, SidesTyped
  <2>4. f.w * s.num \in Nat /\ f.h * s.num \in Nat
    BY <2>3, ProductMono
  <2>5. /\ info.frame.w = RoundSide(f.w * s.num, s.den, even)
        /\ info.frame.h = RoundSide(f.h * s.num, s.den, even)
    BY <2>2 DEF Rounded, Frame
  <2>6. /\ \/ f.w * s.num < s.den
           \/ /\ info.frame.w * s.den - f.w * s.num <= s.den
              /\ f.w * s.num - info.frame.w * s.den <= s.den
        /\ \/ f.h * s.num < s.den
           \/ /\ info.frame.h * s.den - f.h * s.num <= s.den
              /\ f.h * s.num - info.frame.h * s.den <= s.den
    BY <2>1, <2>3, <2>4, <2>5, RoundSideNear
  <2>7. QED
    BY <2>6 DEF AspectKept
<1>2. IInv => AspectKept
  BY <1>1 DEF AspectKept
<1>3. QED
  BY <1>2, Invariance, PTL
=============================================================================
