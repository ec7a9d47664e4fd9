------------------------ MODULE SpeedControl_proofs ------------------------
(***************************************************************************)
(* Proofs about SpeedControl, for any sensors, configurations and curves:  *)
(* the tick drives the worker as HidProtocol has it, speeds are bytes and  *)
(* rise with the temperature, and, when no two sensors have one key, a     *)
(* batch is complete and a punctual device ends up with what it asks for.  *)
(***************************************************************************)
EXTENDS SpeedControl, HidProtocol_proofs

-----------------------------------------------------------------------------
\* Division and truncation.

\* What the quotient of a division is.
LEMMA Quotient ==
  ASSUME NEW n \in Int, NEW d \in Nat \ {0}
  PROVE  /\ n \div d \in Int
         /\ d * (n \div d) <= n /\ n < d * (n \div d) + d
  OBVIOUS

\* Rounding down keeps the order of a fraction and a whole number.
LEMMA QuotientBounds ==
  ASSUME NEW n \in Int, NEW d \in Nat \ {0}, NEW k \in Int
  PROVE  /\ n <= k * d => n \div d <= k
         /\ k * d <= n => k <= n \div d
<1> DEFINE q == n \div d
<1>1. q \in Int /\ d * q <= n /\ n < d * q + d
  BY Quotient
<1> HIDE DEF q
<1>2. ASSUME n <= k * d, k < q PROVE FALSE
  <2>1. q - k >= 1 /\ q - k \in Int /\ q - k - 1 \in Nat
    BY <1>1, <1>2
  <2>2. d * (q - k - 1) >= 0
    BY <2>1
  <2>3. d * (q - k - 1) = d * q - k * d - d
    BY <1>1
  <2> QED
    BY <1>1, <1>2, <2>2, <2>3
<1>3. ASSUME k * d <= n, q < k PROVE FALSE
  <2>1. k - q - 1 \in Nat
    BY <1>1, <1>3
  <2>2. d * (k - q - 1) >= 0
    BY <2>1
  <2>3. d * (k - q - 1) = k * d - d * q - d
    BY <1>1
  <2> QED
    BY <1>1, <1>3, <2>2, <2>3
<1> QED
  BY <1>1, <1>2, <1>3 DEF q

\* Truncation loses one at most.
LEMMA TruncatedNear ==
  ASSUME NEW n \in Nat, NEW d \in Nat \ {0}, NEW exact, NEW x \in Truncated(n, d, exact)
  PROVE  /\ x \in Nat
         /\ x <= n \div d /\ n \div d <= x + 1
<1>1. n \div d \in Int /\ 0 <= n \div d
  <2>1. 0 * d <= n
    OBVIOUS
  <2> QED
    BY <2>1, Quotient, QuotientBounds
<1>2. x = n \div d \/ (x = n \div d - 1 /\ n \div d > 0)
  BY DEF Truncated
<1> QED
  BY <1>1, <1>2

\* A point on the line from a to b lies between them.
LEMMA OnLine ==
  ASSUME NEW a \in Nat, NEW b \in Nat, NEW d \in Nat \ {0}, NEW t \in 0 .. d
  PROVE  LET n == a * (d - t) + b * t
         IN  /\ n \in Nat
             /\ \A k \in Nat : a <= k /\ b <= k => n <= k * d
             /\ \A k \in Nat : k <= a /\ k <= b => k * d <= n
<1> DEFINE n == a * (d - t) + b * t
<1>1. t \in Nat /\ d - t \in Nat
  OBVIOUS
<1>2. a * (d - t) \in Nat /\ b * t \in Nat
  BY <1>1
<1>3. ASSUME NEW k \in Nat, a <= k, b <= k PROVE n <= k * d
  <2>1. (k - a) * (d - t) >= 0 /\ (k - b) * t >= 0
    <3>1. k - a \in Nat /\ k - b \in Nat
      BY <1>3
    <3> QED
      BY <1>1, <3>1
  <2>2. k * d - n = (k - a) * (d - t) + (k - b) * t
    BY <1>1
  <2> QED
    BY <1>1, <1>2, <2>1, <2>2
<1>4. ASSUME NEW k \in Nat, k <= a, k <= b PROVE k * d <= n
  <2>1. (a - k) * (d - t) >= 0 /\ (b - k) * t >= 0
    <3>1. a - k \in Nat /\ b - k \in Nat
      BY <1>4
    <3> QED
      BY <1>1, <3>1
  <2>2. n - k * d = (a - k) * (d - t) + (b - k) * t
    BY <1>1
  <2> QED
    BY <1>1, <1>2, <2>1, <2>2
<1> QED
  BY <1>2, <1>3, <1>4

-----------------------------------------------------------------------------
\* Curves.

\* An element of a sequence.
LEMMA ElementIn ==
  ASSUME NEW S, NEW s \in Seq(S), NEW i \in DOMAIN s
  PROVE  s[i] \in S
  OBVIOUS

\* A byte is a small number.
LEMMA ByteRange == \A b \in Byte : b \in Nat /\ b <= 255
  BY DEF Byte

\* The least element of a set of indices, and the greatest of a bounded one.
LEMMA LeastIndex ==
  ASSUME NEW S, S \subseteq Nat, S # {}
  PROVE  Least(S) \in S /\ \A y \in S : Least(S) <= y
<1>1. \E x \in S : \A y \in S : x <= y
  BY Minimum
<1> QED
  BY <1>1 DEF Least

LEMMA GreatestIndex ==
  ASSUME NEW n \in Nat, NEW S, S \subseteq 0 .. n, S # {}
  PROVE  Greatest(S) \in S /\ \A y \in S : y <= Greatest(S)
<1>1. \E x \in S : \A y \in S : y <= x
  BY Maximum
<1> QED
  BY <1>1 DEF Greatest

\* What a step curve gives within a segment lies between the speeds at its two
\* ends, or one below.
LEMMA Between ==
  ASSUME NEW tmps \in Seq(Int), NEW spds \in Seq(Byte), Len(tmps) = Len(spds),
         NEW T \in Int, NEW i \in Segments(tmps, T),
         NEW x \in Interpolated(tmps, spds, i, T)
  PROVE  /\ x \in Nat
         /\ \A k \in Nat : spds[i] <= k /\ spds[i + 1] <= k => x <= k
         /\ \A k \in Nat : k <= spds[i] /\ k <= spds[i + 1] => k <= x + 1
<1> DEFINE d == tmps[i + 1] - tmps[i]
           t == T - tmps[i]
           n == spds[i] * (d - t) + spds[i + 1] * t
<1>1. /\ i \in 1 .. Len(tmps) - 1 /\ tmps[i] <= T /\ T < tmps[i + 1]
      /\ Len(tmps) \in Nat
  BY DEF Segments
<1>2. /\ tmps[i] \in Int /\ tmps[i + 1] \in Int
      /\ spds[i] \in Nat /\ spds[i + 1] \in Nat
  <2>1. i \in 1 .. Len(tmps) /\ i + 1 \in 1 .. Len(tmps)
    BY <1>1
  <2>2. spds[i] \in Byte /\ spds[i + 1] \in Byte
    BY <2>1
  <2>3. spds[i] \in Nat /\ spds[i + 1] \in Nat
    BY <2>2, ByteRange, Zenon
  <2> QED
    BY <2>1, <2>3
<1>3. d \in Nat \ {0} /\ t \in 0 .. d /\ d - t = tmps[i + 1] - T
  BY <1>1, <1>2
<1>4. x \in Truncated(n, d, T = tmps[i])
  BY <1>3, Zenon DEF Interpolated
<1> HIDE DEF d, t
<1>5. /\ n \in Nat
      /\ \A k \in Nat : spds[i] <= k /\ spds[i + 1] <= k => n <= k * d
      /\ \A k \in Nat : k <= spds[i] /\ k <= spds[i + 1] => k * d <= n
  BY <1>2, <1>3, OnLine
<1> HIDE DEF n
<1>6. n \div d \in Int /\ x \in Nat /\ x <= n \div d /\ n \div d <= x + 1
  <2>1. x \in Nat /\ x <= n \div d /\ n \div d <= x + 1
    BY <1>3, <1>4, <1>5, TruncatedNear, Zenon
  <2> QED
    BY <1>3, <1>5, <2>1, Quotient
<1>7. \A k \in Nat : /\ spds[i] <= k /\ spds[i + 1] <= k => n \div d <= k
                     /\ k <= spds[i] /\ k <= spds[i + 1] => k <= n \div d
  <2> SUFFICES ASSUME NEW k \in Nat
               PROVE  /\ spds[i] <= k /\ spds[i + 1] <= k => n \div d <= k
                      /\ k <= spds[i] /\ k <= spds[i + 1] => k <= n \div d
    OBVIOUS
  <2>1. n \in Int /\ k \in Int
    BY <1>5
  <2>2. (n <= k * d => n \div d <= k) /\ (k * d <= n => k <= n \div d)
    BY <1>3, <2>1, QuotientBounds, Zenon
  <2> QED
    BY <1>5, <2>2
<1> QED
  BY <1>6, <1>7

\* The speeds of a step curve are bytes.
LEMMA StepTyped ==
  ASSUME NEW tmps \in Seq(Int), NEW spds \in Seq(Byte), NEW T \in Int
  PROVE  StepSpeeds(tmps, spds, T) \subseteq Byte
<1> SUFFICES ASSUME NEW x \in StepSpeeds(tmps, spds, T) PROVE x \in Byte
  OBVIOUS
<1>1. Len(tmps) = Len(spds) /\ tmps # <<>>
  BY DEF StepSpeeds
<1>2. CASE Segments(tmps, T) # {}
  <2> DEFINE i == Least(Segments(tmps, T))
  <2>1. Segments(tmps, T) \subseteq 1 .. Len(tmps) - 1 /\ Len(tmps) \in Nat
    BY DEF Segments
  <2>2. i \in Segments(tmps, T)
    BY <1>2, <2>1, LeastIndex
  <2>3. x \in Interpolated(tmps, spds, i, T)
    BY <1>1, <1>2 DEF StepSpeeds
  <2> HIDE DEF i
  <2>4. spds[i] \in Byte /\ spds[i + 1] \in Byte
    BY <1>1, <2>1, <2>2
  <2>5. x \in Nat /\ \A k \in Nat : spds[i] <= k /\ spds[i + 1] <= k => x <= k
    BY <1>1, <2>2, <2>3, Between, Zenon
  <2>6. 255 \in Nat /\ spds[i] <= 255 /\ spds[i + 1] <= 255
    BY <2>4, ByteRange
  <2>7. x <= 255
    BY <2>5, <2>6, Zenon
  <2> QED
    BY <2>5, <2>7 DEF Byte
<1>3. CASE Segments(tmps, T) = {}
  <2>1. x \in {spds[1], spds[Len(spds)]}
    BY <1>1, <1>3 DEF StepSpeeds
  <2>2. Len(spds) \in Nat /\ Len(spds) # 0
    BY <1>1
  <2> QED
    BY <2>1, <2>2
<1> QED
  BY <1>2, <1>3

\* A clamped speed is a percentage.
LEMMA ClampedTyped ==
  ASSUME NEW y \in Int
  PROVE  Clamped(y) \in 0 .. 100
  BY DEF Clamped

\* The speeds of a Bezier curve are percentages, wherever its points are.
LEMMA BezierTyped ==
  ASSUME NEW points \in Seq([x : Int, y : Int]), NEW T \in Int
  PROVE  BezierSpeeds(points, T) \subseteq 0 .. 100
<1> SUFFICES ASSUME Len(points) = 4 PROVE BezierSpeeds(points, T) \subseteq 0 .. 100
  BY DEF BezierSpeeds
<1> DEFINE xs == {points[i].x : i \in DOMAIN points}
           ys == {points[i].y : i \in DOMAIN points}
           edge(x) == {i \in DOMAIN points : points[i].x = x}
<1>1. DOMAIN points = 1 .. 4 /\ 1 \in DOMAIN points
  OBVIOUS
<1>2. \A i \in DOMAIN points : points[i].x \in Int /\ points[i].y \in Int
  <2>1. \A i \in DOMAIN points : points[i] \in [x : Int, y : Int]
    BY ElementIn, Zenon
  <2> QED
    BY <2>1
<1>3. /\ Least(xs) \in xs /\ Greatest(xs) \in xs
      /\ Least(ys) \in Int /\ Greatest(ys) \in Int
  <2>1. ASSUME NEW S, NEW a \in Int, NEW b \in Int, NEW c \in Int, NEW d \in Int,
               S = {a, b, c, d}
        PROVE  Least(S) \in S /\ Greatest(S) \in S
    <3>1. \E x \in S : \A y \in S : x <= y
      BY <2>1
    <3>2. \E x \in S : \A y \in S : y <= x
      BY <2>1
    <3> QED
      BY <3>1, <3>2 DEF Least, Greatest
  <2>2. /\ points[1].x \in Int /\ points[2].x \in Int /\ points[3].x \in Int
        /\ points[4].x \in Int /\ points[1].y \in Int /\ points[2].y \in Int
        /\ points[3].y \in Int /\ points[4].y \in Int
    BY <1>1, <1>2
  <2>3. xs = {points[1].x, points[2].x, points[3].x, points[4].x}
    BY <1>1
  <2>4. ys = {points[1].y, points[2].y, points[3].y, points[4].y}
    BY <1>1
  <2> HIDE DEF xs, ys
  <2>5. Least(xs) \in xs /\ Greatest(xs) \in xs
    BY <2>1, <2>2, <2>3, Zenon
  <2>6. Least(ys) \in ys /\ Greatest(ys) \in ys
    BY <2>1, <2>2, <2>4, Zenon
  <2> QED
    BY <2>2, <2>4, <2>5, <2>6
<1>4. \A x \in xs : /\ points[Least(edge(x))].y \in Int
                    /\ points[Greatest(edge(x))].y \in Int
  <2> SUFFICES ASSUME NEW x \in xs
               PROVE  Least(edge(x)) \in DOMAIN points /\ Greatest(edge(x)) \in DOMAIN points
    BY <1>2
  <2> DEFINE S == edge(x)
  <2>1. S \subseteq 0 .. 4 /\ S # {} /\ S \subseteq DOMAIN points
    BY <1>1
  <2> HIDE DEF S
  <2>2. S \subseteq Nat
    BY <2>1
  <2>3. Least(S) \in S /\ Greatest(S) \in S
    BY <2>1, <2>2, LeastIndex, GreatestIndex
  <2>4. Least(S) \in DOMAIN points /\ Greatest(S) \in DOMAIN points
    BY <2>1, <2>3
  <2> QED
    BY <2>4 DEF S
<1>5. Clamped(points[Least(edge(Least(xs)))].y) \in 0 .. 100
  BY <1>3, <1>4, ClampedTyped
<1>6. Clamped(points[Greatest(edge(Greatest(xs)))].y) \in 0 .. 100
  BY <1>3, <1>4, ClampedTyped
<1>7. Clamped(Least(ys) - 1) .. Clamped(Greatest(ys)) \subseteq 0 .. 100
  <2> HIDE DEF ys
  <2>1. Least(ys) - 1 \in Int
    BY <1>3
  <2>2. Clamped(Least(ys) - 1) \in 0 .. 100 /\ Clamped(Greatest(ys)) \in 0 .. 100
    BY <1>3, <2>1, ClampedTyped
  <2>3. \A a, b \in 0 .. 100 : a .. b \subseteq 0 .. 100
    OBVIOUS
  <2> QED
    BY <2>2, <2>3
<1>8. BezierSpeeds(points, T) =
         IF T <= Least(xs) THEN {Clamped(points[Least(edge(Least(xs)))].y)}
         ELSE IF T >= Greatest(xs) THEN {Clamped(points[Greatest(edge(Greatest(xs)))].y)}
         ELSE Clamped(Least(ys) - 1) .. Clamped(Greatest(ys))
  BY Zenon DEF BezierSpeeds
<1> HIDE DEF xs, ys, edge
<1> QED
  BY <1>5, <1>6, <1>7, <1>8

\* The speed of a fan, 80 % of a dummy curve included, fits in the u8 that goes
\* into the report.
LEMMA SpeedsTyped ==
  ASSUME NEW curve \in Curve, NEW T \in Int
  PROVE  Speeds(curve, T) \subseteq Byte
<1>1. CASE curve.kind = "constant"
  <2>1. curve.speed \in Byte
    BY <1>1 DEF Curve
  <2> QED
    BY <1>1, <2>1 DEF Speeds
<1>2. CASE curve.kind = "step"
  <2>1. curve.tmps \in Seq(Int) /\ curve.spds \in Seq(Byte)
    BY <1>2 DEF Curve
  <2> QED
    BY <1>2, <2>1, StepTyped DEF Speeds
<1>3. CASE curve.kind = "bezier"
  <2>1. curve.points \in Seq([x : Int, y : Int])
    BY <1>3 DEF Curve
  <2>2. BezierSpeeds(curve.points, T) \subseteq 0 .. 100
    BY <2>1, BezierTyped
  <2>3. Speeds(curve, T) = BezierSpeeds(curve.points, T)
    BY <1>3 DEF Speeds
  <2> QED
    BY <2>2, <2>3 DEF Byte
<1> QED
  BY <1>1, <1>2, <1>3 DEF Curve

\* Within one segment of a curve that rises, hotter is no slower, up to what
\* truncation cuts.
LEMMA SegmentRises ==
  ASSUME NEW a \in Nat, NEW b \in Nat, a <= b, NEW d \in Nat \ {0},
         NEW t \in 0 .. d, NEW u \in 0 .. d, t <= u, NEW exact, NEW same,
         NEW x \in Truncated(a * (d - t) + b * t, d, exact),
         NEW y \in Truncated(a * (d - u) + b * u, d, same)
  PROVE  x <= y + 1
<1> DEFINE n == a * (d - t) + b * t
           m == a * (d - u) + b * u
<1>1. n \in Nat /\ m \in Nat
  BY OnLine
<1>2. n <= m
  <2>1. b - a \in Nat /\ u - t \in Nat
    OBVIOUS
  <2>2. (b - a) * (u - t) >= 0
    BY <2>1
  <2>3. m - n = (b - a) * (u - t)
    OBVIOUS
  <2> QED
    BY <1>1, <2>2, <2>3
<1>3. x \in Truncated(n, d, exact) /\ y \in Truncated(m, d, same)
  OBVIOUS
<1> HIDE DEF n, m
<1>4. x \in Nat /\ x <= n \div d
  BY <1>1, <1>3, TruncatedNear, Zenon
<1>5. y \in Nat /\ m \div d <= y + 1
  BY <1>1, <1>3, TruncatedNear, Zenon
<1> DEFINE q == n \div d
           r == m \div d
<1>6. q \in Int /\ d * q <= n /\ r \in Int
  BY <1>1, Quotient
<1>7. q <= r
  <2>1. q * d <= m
    <3> HIDE DEF q
    <3>1. q * d = d * q
      BY <1>6
    <3> QED
      BY <1>1, <1>2, <1>6, <3>1
  <2>2. q \in Int /\ m \in Int
    BY <1>1, <1>6
  <2> HIDE DEF q
  <2> QED
    BY <2>1, <2>2, QuotientBounds
<1> QED
  BY <1>4, <1>5, <1>6, <1>7

\* Where two temperatures of one segment lie in it.
LEMMA Offsets ==
  ASSUME NEW v \in Int, NEW w \in Int, NEW T \in Int, NEW U \in Int,
         v <= T, T <= U, T < w, U < w
  PROVE  /\ w - v \in Nat \ {0} /\ T - v \in 0 .. w - v /\ U - v \in 0 .. w - v
         /\ T - v <= U - v /\ (w - v) - (T - v) = w - T /\ (w - v) - (U - v) = w - U
OBVIOUS

\* Along a whole curve that rises, hotter is no slower, up to what truncation
\* cuts.
LEMMA StepRises ==
  ASSUME NEW tmps \in Seq(Int), NEW spds \in Seq(Byte), Len(tmps) = Len(spds),
         \A i, j \in DOMAIN tmps : i < j => tmps[i] < tmps[j] /\ spds[i] <= spds[j],
         NEW T \in Int, NEW U \in Int, T <= U,
         NEW x \in StepSpeeds(tmps, spds, T), NEW y \in StepSpeeds(tmps, spds, U)
  PROVE  x <= y + 1
<1> DEFINE n == Len(tmps)
<1>1. /\ n \in Nat \ {0} /\ DOMAIN tmps = 1 .. n /\ n = Len(spds)
      /\ \A i \in 1 .. n : tmps[i] \in Int /\ spds[i] \in Byte
  BY DEF StepSpeeds
<1>2. \A i \in 1 .. n : spds[i] \in Nat
  BY <1>1, ByteRange
<1>3. x \in Nat /\ y \in Nat
  BY StepTyped, ByteRange
<1>4. ASSUME NEW V \in Int, NEW z \in StepSpeeds(tmps, spds, V)
      PROVE  \/ \E i \in Segments(tmps, V) : z \in Interpolated(tmps, spds, i, V)
             \/ V < tmps[1] /\ z = spds[1]
             \/ tmps[n] <= V /\ z = spds[n]
  <2>1. CASE Segments(tmps, V) # {}
    <3>1. Segments(tmps, V) \subseteq Nat
      BY <1>1 DEF Segments
    <3>2. Least(Segments(tmps, V)) \in Segments(tmps, V)
      BY <2>1, <3>1, LeastIndex
    <3>3. z \in Interpolated(tmps, spds, Least(Segments(tmps, V)), V)
      BY <1>4, <2>1 DEF StepSpeeds
    <3> QED
      BY <3>2, <3>3
  <2>2. CASE Segments(tmps, V) = {}
    <3>1. z = IF V < tmps[1] THEN spds[1] ELSE spds[n]
      BY <1>1, <1>4, <2>2 DEF StepSpeeds
    <3>2. ASSUME ~(V < tmps[1]) PROVE tmps[n] <= V
      <4> DEFINE low == {i \in 1 .. n : tmps[i] <= V}
      <4>1. 1 \in low /\ low \subseteq 0 .. n
        BY <1>1, <1>4, <3>2
      <4>2. PICK i \in low : \A j \in low : j <= i
        BY <1>1, <4>1, Maximum
      <4>3. CASE i = n
        BY <4>2, <4>3
      <4>4. CASE i # n
        <5>1. i \in 1 .. n /\ n \in Nat
          BY <1>1, <4>2
        <5>2. i \in 1 .. n - 1 /\ i + 1 \in 1 .. n /\ ~(i + 1 <= i)
          <6> HIDE DEF n, low
          <6> QED
            BY <4>4, <5>1
        <5>3. i + 1 \notin low
          BY <4>2, <5>2
        <5>4. tmps[i] <= V /\ ~(tmps[i + 1] <= V)
          BY <4>2, <5>2, <5>3
        <5>5. V < tmps[i + 1]
          <6>1. tmps[i + 1] \in Int
            BY <1>1, <5>2
          <6> QED
            BY <5>4, <6>1
        <5>6. i \in Segments(tmps, V)
          BY <5>2, <5>4, <5>5 DEF Segments
        <5> QED
          BY <2>2, <5>6
      <4> QED
        BY <4>3, <4>4
    <3> QED
      BY <3>1, <3>2
  <2> QED
    BY <2>1, <2>2
<1>5. ASSUME NEW V \in Int, NEW i \in Segments(tmps, V),
             NEW z \in Interpolated(tmps, spds, i, V)
      PROVE  /\ i \in 1 .. n - 1 /\ i \in 1 .. n /\ i + 1 \in 1 .. n
             /\ tmps[i] <= V /\ V < tmps[i + 1]
             /\ spds[i] <= spds[i + 1]
             /\ z <= spds[i + 1] /\ spds[i] <= z + 1
  <2>1. i \in 1 .. n - 1 /\ tmps[i] <= V /\ V < tmps[i + 1]
    BY <1>5 DEF Segments
  <2>2. i \in 1 .. n /\ i + 1 \in 1 .. n /\ i < i + 1
    BY <1>1, <2>1
  <2>3. spds[i] <= spds[i + 1] /\ spds[i] \in Nat /\ spds[i + 1] \in Nat
    BY <1>1, <1>2, <2>2
  <2>4. /\ \A k \in Nat : spds[i] <= k /\ spds[i + 1] <= k => z <= k
        /\ \A k \in Nat : k <= spds[i] /\ k <= spds[i + 1] => k <= z + 1
    BY <1>5, Between, Zenon
  <2>5. spds[i] <= spds[i] /\ spds[i + 1] <= spds[i + 1]
    BY <2>3
  <2>6. z <= spds[i + 1] /\ spds[i] <= z + 1
    BY <2>3, <2>4, <2>5, Zenon
  <2> QED
    BY <2>1, <2>2, <2>3, <2>6
<1> HIDE DEF n
<1>6. \A i, j \in 1 .. n : i <= j => tmps[i] <= tmps[j] /\ spds[i] <= spds[j]
  BY <1>1, <1>2
<1>7. CASE \E i \in Segments(tmps, T) : x \in Interpolated(tmps, spds, i, T)
  <2>1. PICK i \in Segments(tmps, T) : x \in Interpolated(tmps, spds, i, T)
    BY <1>7
  <2>2. /\ i \in 1 .. n - 1 /\ i \in 1 .. n /\ i + 1 \in 1 .. n
        /\ tmps[i] <= T /\ T < tmps[i + 1] /\ spds[i] <= spds[i + 1]
        /\ x <= spds[i + 1]
    BY <1>5, <2>1
  <2>3. CASE \E j \in Segments(tmps, U) : y \in Interpolated(tmps, spds, j, U)
    <3>1. PICK j \in Segments(tmps, U) : y \in Interpolated(tmps, spds, j, U)
      BY <2>3
    <3>2. /\ j \in 1 .. n - 1 /\ j \in 1 .. n /\ j + 1 \in 1 .. n
          /\ tmps[j] <= U /\ U < tmps[j + 1] /\ spds[j] <= y + 1
      BY <1>5, <3>1
    <3>3. CASE i = j
      <4> DEFINE a == spds[i]
                 b == spds[i + 1]
                 d == tmps[i + 1] - tmps[i]
                 t == T - tmps[i]
                 u == U - tmps[i]
      <4>1. /\ a \in Nat /\ b \in Nat /\ a <= b /\ d \in Nat \ {0}
            /\ t \in 0 .. d /\ u \in 0 .. d /\ t <= u
            /\ d - t = tmps[i + 1] - T /\ d - u = tmps[i + 1] - U
        <5>1. a \in Nat /\ b \in Nat /\ a <= b
          BY <1>2, <2>2
        <5>2. /\ tmps[i] \in Int /\ tmps[i + 1] \in Int
              /\ tmps[i] <= T /\ T < tmps[i + 1] /\ U < tmps[i + 1]
          BY <1>1, <2>2, <3>2, <3>3
        <5> DEFINE v == tmps[i]
                   w == tmps[i + 1]
        <5>3. v \in Int /\ w \in Int /\ v <= T /\ T < w /\ U < w
          BY <5>2
        <5>4. /\ d \in Nat \ {0} /\ t \in 0 .. d /\ u \in 0 .. d /\ t <= u
              /\ d - t = w - T /\ d - u = w - U
          <6> HIDE DEF v, w
          <6>1. /\ w - v \in Nat \ {0} /\ T - v \in 0 .. w - v /\ U - v \in 0 .. w - v
                /\ T - v <= U - v /\ (w - v) - (T - v) = w - T
                /\ (w - v) - (U - v) = w - U
            BY <5>3, Offsets
          <6> QED
            BY <6>1, Zenon DEF v, w
        <5> HIDE DEF d, t, u
        <5> QED
          BY <5>1, <5>4, Zenon
      <4>2. x \in Truncated(a * (d - t) + b * t, d, T = tmps[i])
        BY <2>1, <4>1, Zenon DEF Interpolated
      <4>3. y \in Truncated(a * (d - u) + b * u, d, U = tmps[i])
        BY <3>1, <3>3, <4>1, Zenon DEF Interpolated
      <4> HIDE DEF a, b, d, t, u
      <4> QED
        BY <4>1, <4>2, <4>3, SegmentRises, Zenon
    <3>4. CASE i # j
      <4>1. i + 1 <= j
        <5> SUFFICES ASSUME j < i PROVE FALSE
          BY <2>2, <3>2, <3>4
        <5>1. j + 1 <= i
          BY <2>2, <3>2
        <5>2. tmps[j + 1] <= tmps[i]
          BY <1>6, <2>2, <3>2, <5>1
        <5> QED
          BY <1>1, <2>2, <3>2, <5>2
      <4>2. spds[i + 1] <= spds[j]
        BY <1>6, <2>2, <3>2, <4>1
      <4>3. spds[i + 1] \in Nat /\ spds[j] \in Nat
        BY <1>2, <2>2, <3>2
      <4> QED
        BY <1>3, <2>2, <3>2, <4>2, <4>3
    <3> QED
      BY <3>3, <3>4
  <2>4. CASE U < tmps[1]
    <3>1. 1 \in 1 .. n /\ 1 <= i
      BY <1>1, <2>2
    <3>2. tmps[1] <= tmps[i]
      BY <1>6, <2>2, <3>1
    <3> QED
      BY <1>1, <2>2, <2>4, <3>1, <3>2
  <2>5. CASE y = spds[n]
    <3>1. n \in 1 .. n /\ i + 1 <= n
      BY <1>1, <2>2
    <3>2. spds[i + 1] <= spds[n]
      BY <1>6, <2>2, <3>1
    <3>3. spds[i + 1] \in Nat /\ spds[n] \in Nat
      BY <1>2, <2>2, <3>1
    <3> QED
      BY <1>3, <2>2, <2>5, <3>2, <3>3
  <2> QED
    BY <1>4, <2>3, <2>4, <2>5
<1>8. ASSUME x = spds[1] PROVE x <= y + 1
  <2>1. CASE \E j \in Segments(tmps, U) : y \in Interpolated(tmps, spds, j, U)
    <3>1. PICK j \in Segments(tmps, U) : y \in Interpolated(tmps, spds, j, U)
      BY <2>1
    <3>2. j \in 1 .. n /\ spds[j] <= y + 1
      BY <1>5, <3>1
    <3>3. spds[1] <= spds[j] /\ 1 \in 1 .. n
      BY <1>1, <1>6, <3>2
    <3> QED
      BY <1>2, <1>3, <1>8, <3>2, <3>3
  <2>2. CASE y \in {spds[1], spds[n]}
    <3>1. spds[1] <= spds[n] /\ spds[1] \in Nat /\ spds[n] \in Nat
      BY <1>1, <1>2, <1>6
    <3> QED
      BY <1>8, <2>2, <3>1
  <2> QED
    BY <1>4, <2>1, <2>2
<1>9. ASSUME tmps[n] <= T, x = spds[n] PROVE x <= y + 1
  <2>1. tmps[n] <= U /\ \A i \in 1 .. n : tmps[i] <= U
    BY <1>1, <1>6, <1>9
  <2>2. y = spds[n]
    <3>1. ~(U < tmps[1])
      BY <1>1, <2>1
    <3>2. ASSUME NEW j \in Segments(tmps, U), y \in Interpolated(tmps, spds, j, U)
          PROVE  FALSE
      <4>1. j + 1 \in 1 .. n /\ U < tmps[j + 1]
        BY <1>5, <3>2
      <4> QED
        BY <1>1, <2>1, <4>1
    <3> QED
      BY <1>4, <3>1, <3>2
  <2> QED
    BY <1>3, <1>9, <2>2
<1> QED
  BY <1>4, <1>7, <1>8, <1>9

\* A rising curve never gives the hotter of two temperatures the lower speed,
\* but for one percent that truncation may cut (calculate_speed, cfg.rs:273).
THEOREM RisingSpeeds ==
  ASSUME NEW curve \in Curve, Rising(curve), NEW T \in Int, NEW U \in Int, T <= U,
         NEW x \in Speeds(curve, T), NEW y \in Speeds(curve, U)
  PROVE  x <= y + 1
<1>1. curve.kind = "step" /\ Len(curve.tmps) = Len(curve.spds)
  BY DEF Rising
<1>2. curve.tmps \in Seq(Int) /\ curve.spds \in Seq(Byte)
  BY <1>1 DEF Curve
<1>3. /\ x \in StepSpeeds(curve.tmps, curve.spds, T)
      /\ y \in StepSpeeds(curve.tmps, curve.spds, U)
  BY <1>1 DEF Speeds
<1>4. \A i, j \in DOMAIN curve.tmps :
         i < j => curve.tmps[i] < curve.tmps[j] /\ curve.spds[i] <= curve.spds[j]
  BY DEF Rising
<1> QED
  BY <1>1, <1>2, <1>3, <1>4, StepRises, Zenon

-----------------------------------------------------------------------------
\* The configurations and the sensors.

\* What the tick relies on in a configuration.
Configured(cfg) ==
    /\ \A i \in DOMAIN cfg.mappings : \A fan \in cfg.mappings[i].targets :
          fan \in [controller : {fan.controller}, channel : Nat]
    /\ \A i \in DOMAIN cfg.curves : i \in Nat /\ cfg.curves[i].curve \in Curve

\* What a list with one more element at its end holds.
LEMMA OneMore ==
  ASSUME NEW s, IsList(s), NEW x, NEW i \in DOMAIN Append(s, x)
  PROVE  i \in Nat /\ \/ i \in DOMAIN s /\ Append(s, x)[i] = s[i]
                      \/ Append(s, x)[i] = x
<1> DEFINE S == {s[k] : k \in DOMAIN s} \union {x}
<1>1. s \in Seq(S) /\ x \in S
  <2>1. s \in Seq({s[k] : k \in DOMAIN s})
    BY DEF IsList
  <2>2. Len(s) \in Nat /\ DOMAIN s = 1 .. Len(s)
    BY <2>1
  <2>3. \A k \in 1 .. Len(s) : s[k] \in S
    BY <2>2
  <2> QED
    BY <2>1, <2>2, <2>3
<1> HIDE DEF S
<1>2. Len(s) \in Nat /\ DOMAIN s = 1 .. Len(s) /\ DOMAIN Append(s, x) = 1 .. Len(s) + 1
  BY <1>1
<1>3. CASE i = Len(s) + 1
  BY <1>1, <1>2, <1>3
<1>4. CASE i # Len(s) + 1
  <2>1. i \in 1 .. Len(s)
    BY <1>2, <1>4
  <2> QED
    BY <1>1, <1>2, <2>1
<1> QED
  BY <1>3, <1>4

\* The loaded configurations, and the empty one, are such.
LEMMA AdoptableConfigured == \A cfg \in Adoptable : Configured(cfg)
<1>1. Configured(NoMappings)
  BY DEF Configured, NoMappings
<1>2. ASSUME NEW c \in Configs PROVE Configured(Loaded(c))
  <2> DEFINE cfg == ConfigOf[c]
             targets == UNION {{[controller |-> cfg.controllers[i].id, channel |-> n] :
                              n \in 1 .. cfg.controllers[i].fans} :
                          i \in {j \in DOMAIN cfg.controllers :
                                    cfg.controllers[j].id \in cfg.generated}}
             m == [sensor |-> DummySensor, targets |-> targets]
             k == [id |-> DummyCurve, curve |-> Constant(80)]
  <2>1. /\ cfg \in [controllers : {cfg.controllers}, generated : {cfg.generated},
                    mappings : {cfg.mappings}, active : {cfg.active},
                    curves : {cfg.curves}]
        /\ IsList(cfg.mappings) /\ IsList(cfg.active) /\ IsList(cfg.curves)
        /\ \A i \in DOMAIN cfg.controllers : cfg.controllers[i].fans \in Nat
        /\ \A i \in DOMAIN cfg.mappings : \A fan \in cfg.mappings[i].targets :
              fan \in [controller : {fan.controller}, channel : Nat]
        /\ \A i \in DOMAIN cfg.curves : cfg.curves[i].curve \in Curve
    BY <1>2, ConfigAssumption
  <2>2. \A fan \in targets : fan \in [controller : {fan.controller}, channel : Nat]
    <3> TAKE fan \in targets
    <3>1. PICK i \in DOMAIN cfg.controllers : \E n \in 1 .. cfg.controllers[i].fans :
             fan = [controller |-> cfg.controllers[i].id, channel |-> n]
      OBVIOUS
    <3>2. PICK n \in 1 .. cfg.controllers[i].fans :
             fan = [controller |-> cfg.controllers[i].id, channel |-> n]
      BY <3>1
    <3>3. n \in Nat
      BY <2>1, <3>1
    <3> QED
      BY <3>2, <3>3
  <2>3. k.curve \in Curve
    <3>1. Constant(80) \in Curve
      BY DEF Constant, Curve, Byte
    <3> QED
      BY <3>1
  <2>4. /\ Loaded(c).mappings = Append(cfg.mappings, m)
        /\ Loaded(c).curves = Append(cfg.curves, k)
    <3>1. Loaded(c) = [cfg EXCEPT
              !.mappings = Append(@, m),
              !.active   = Append(@, [curve |-> DummyCurve, targets |-> targets]),
              !.curves   = Append(@, k)]
      BY DEF Loaded, EnsureMappings
    <3> HIDE DEF cfg, m, k, targets
    <3> QED
      BY <2>1, <3>1
  <2>5. m.targets = targets
    OBVIOUS
  <2> HIDE DEF cfg, m, k, targets
  <2>6. ASSUME NEW i \in DOMAIN Loaded(c).mappings, NEW fan \in Loaded(c).mappings[i].targets
        PROVE  fan \in [controller : {fan.controller}, channel : Nat]
    <3>1. \/ i \in DOMAIN cfg.mappings /\ fan \in cfg.mappings[i].targets
          \/ fan \in targets
      BY <2>1, <2>4, <2>5, <2>6, OneMore
    <3> QED
      BY <2>1, <2>2, <3>1, Zenon
  <2>7. ASSUME NEW i \in DOMAIN Loaded(c).curves
        PROVE  i \in Nat /\ Loaded(c).curves[i].curve \in Curve
    <3>1. /\ i \in Nat
          /\ \/ i \in DOMAIN cfg.curves /\ Loaded(c).curves[i] = cfg.curves[i]
             \/ Loaded(c).curves[i] = k
      BY <2>1, <2>4, <2>7, OneMore
    <3> QED
      BY <2>1, <2>3, <3>1
  <2> QED
    BY <2>6, <2>7 DEF Configured
<1> QED
  BY <1>1, <1>2 DEF Adoptable

\* The fans of a sensor are fans, and the speeds they are given are bytes.
LEMMA FansAreFans ==
  ASSUME NEW cfg, Configured(cfg), NEW s, NEW fan \in FansForSensor(cfg, s)
  PROVE  fan.channel \in Nat /\ fan = [controller |-> fan.controller, channel |-> fan.channel]
<1>1. fan \in [controller : {fan.controller}, channel : Nat]
  BY DEF Configured, FansForSensor
<1> QED
  BY <1>1

LEMMA CurvesAreCurves ==
  ASSUME NEW cfg, Configured(cfg), NEW fan
  PROVE  CurvesOf(cfg, fan) \subseteq Curve
<1> DEFINE name == CurveNameOf(cfg, fan)
<1>1. CASE Naming(cfg, fan) = {} \/ Named(cfg, name) = {}
  BY <1>1 DEF CurvesOf
<1>2. CASE ~(Naming(cfg, fan) = {} \/ Named(cfg, name) = {})
  <2>1. CurvesOf(cfg, fan) = {cfg.curves[Least(Named(cfg, name))].curve}
    BY <1>2 DEF CurvesOf
  <2> HIDE DEF name
  <2>2. Named(cfg, name) \subseteq Nat /\ Named(cfg, name) \subseteq DOMAIN cfg.curves
    BY DEF Named, Configured
  <2>3. Least(Named(cfg, name)) \in Named(cfg, name)
    BY <1>2, <2>2, LeastIndex
  <2>4. cfg.curves[Least(Named(cfg, name))].curve \in Curve
    BY <2>2, <2>3 DEF Configured
  <2> QED
    BY <2>1, <2>4
<1> QED
  BY <1>1, <1>2

\* A speed that a fan is given is a byte.
LEMMA SpeedsAreBytes ==
  ASSUME NEW cfg, Configured(cfg), NEW fan, NEW T \in Int
  PROVE  SpeedsOf(cfg, fan, T) \subseteq Byte
<1>1. \A c \in CurvesOf(cfg, fan) : c \in Curve
  BY CurvesAreCurves
<1>2. \A c \in CurvesOf(cfg, fan) : Speeds(c, T) \subseteq Byte
  BY <1>1, SpeedsTyped
<1> QED
  BY <1>2, Zenon DEF SpeedsOf

\* The sensors are numbered from 1 on.
LEMMA KeysTyped ==
  /\ SensorKeys \in Seq(SensorSet) /\ Len(SensorKeys) \in Nat
  /\ DOMAIN SensorKeys = 1 .. Len(SensorKeys)
  /\ \A i \in 1 .. Len(SensorKeys) : SensorKeys[i] \in SensorSet
<1>1. SensorKeys \in Seq(SensorSet)
  BY KeysAssumption DEF IsList, SensorSet
<1> QED
  BY <1>1

-----------------------------------------------------------------------------
\* The tick drives the worker as HidProtocol has it.

\* What a tick has in hand, and that it has nothing in hand between two ticks.
TickTyped ==
    /\ active \in Adoptable
    /\ commits \in 0 .. MaxCommits /\ changes \in 0 .. MaxChanges
    /\ climate \in [SensorSet -> Temps \union {Failed, DummyTemperature}]
    /\ readings \in [SensorSet -> Temps \union {Failed, DummyTemperature}]
    /\ tick \in {"starting", "initializing", "waiting", "reading", "awaiting"}
    /\ next \in 1 .. Len(SensorKeys) + 1
    /\ batch \in Seq(Entry)

\* The fans without a speed are some of those of the last sensor read, and it
\* was read.
Walk ==
    /\ tick \notin {"reading", "awaiting"} => batch = <<>> /\ pending = {}
    /\ tick = "awaiting" => pending = {} /\ next = Len(SensorKeys) + 1
    /\ pending # {} => /\ next - 1 \in DOMAIN SensorKeys
                       /\ readings[LastRead] # Failed
                       /\ pending \subseteq FansForSensor(active, LastRead)

\* Before the first tick nothing is in hand.
LEMMA WalkInit == Init => TickTyped /\ Walk
<1> SUFFICES ASSUME Init PROVE TickTyped /\ Walk
  OBVIOUS
<1>1. active \in Adoptable
  BY SpeedAssumption DEF Init, Adoptable
<1>2. commits \in 0 .. MaxCommits /\ changes \in 0 .. MaxChanges
  BY SpeedAssumption DEF Init
<1>3. climate \in [SensorSet -> Temps \union {Failed, DummyTemperature}]
  BY DEF Init
<1>4. readings \in [SensorSet -> Temps \union {Failed, DummyTemperature}]
  BY DEF Init, Unread
<1>5. next \in 1 .. Len(SensorKeys) + 1 /\ batch \in Seq(Entry)
  BY KeysTyped DEF Init
<1>6. tick = "starting" /\ batch = <<>> /\ pending = {}
  BY DEF Init
<1> QED
  BY <1>1, <1>2, <1>3, <1>4, <1>5, <1>6 DEF TickTyped, Walk

\* The fan whose turn it is and the speeds it may be given.
LEMMA InTurn ==
  ASSUME TickTyped, Walk, NEW fan \in pending
  PROVE  /\ fan \in FansForSensor(active, LastRead)
         /\ fan.channel \in Nat
         /\ fan = [controller |-> fan.controller, channel |-> fan.channel]
         /\ SpeedsOf(active, fan, readings[LastRead]) \subseteq Byte
<1>1. fan \in FansForSensor(active, LastRead) /\ Configured(active)
  BY AdoptableConfigured DEF TickTyped, Walk
<1>2. readings[LastRead] \in Int
  <2>1. next - 1 \in DOMAIN SensorKeys /\ readings[LastRead] # Failed
    BY DEF Walk
  <2>2. LastRead \in SensorSet
    BY <2>1, KeysTyped DEF LastRead
  <2>3. readings[LastRead] \in Temps \/ readings[LastRead] = DummyTemperature
    BY <2>1, <2>2 DEF TickTyped
  <2>4. Temps \subseteq Int
    BY SpeedAssumption
  <2>5. DummyTemperature \in Int
    BY DEF DummyTemperature
  <2> QED
    BY <2>3, <2>4, <2>5
<1> QED
  BY <1>1, <1>2, FansAreFans, SpeedsAreBytes

\* A reading is taken: what pending and next become.
LEMMA ReadTyped ==
  ASSUME TickTyped, Walk, ReadSensor
  PROVE  TickTyped' /\ Walk'
<1>1. /\ next \in 1 .. Len(SensorKeys) /\ Len(SensorKeys) \in Nat
      /\ SensorKeys[next] \in SensorSet /\ next \in DOMAIN SensorKeys
  BY KeysTyped DEF ReadSensor, TickTyped
<1>2. next' = next + 1 /\ next' \in 1 .. Len(SensorKeys) + 1 /\ next' - 1 = next
  BY <1>1 DEF ReadSensor
<1>3. /\ tick' = "reading" /\ batch' = batch /\ active' = active /\ commits' = commits
      /\ climate' = climate /\ changes' = changes
  BY DEF ReadSensor, cache, weather
<1>4. readings' = [readings EXCEPT ![SensorKeys[next]] = climate[SensorKeys[next]]]
  BY DEF ReadSensor
<1>5. readings' \in [SensorSet -> Temps \union {Failed, DummyTemperature}]
  BY <1>1, <1>4 DEF TickTyped
<1>6. TickTyped'
  BY <1>2, <1>3, <1>5 DEF TickTyped
<1>7. LastRead' = SensorKeys[next]
  BY <1>2 DEF LastRead
<1>8. readings'[SensorKeys[next]] = climate[SensorKeys[next]]
  BY <1>1, <1>4 DEF TickTyped
<1>9. pending' # {} => /\ climate[SensorKeys[next]] # Failed
                       /\ pending' = FansForSensor(active, SensorKeys[next])
  BY DEF ReadSensor
<1> QED
  BY <1>1, <1>2, <1>3, <1>6, <1>7, <1>8, <1>9 DEF Walk

\* One fan is given its speed.
LEMMA PushTyped ==
  ASSUME TickTyped, Walk, NEW fan \in pending,
         NEW s \in SpeedsOf(active, fan, readings[LastRead]), PushFan(fan, s)
  PROVE  TickTyped' /\ Walk'
<1>1. s \in Byte /\ fan.channel \in Nat
  BY InTurn
<1>2. [fan |-> fan.channel, speed |-> s] \in Entry
  BY <1>1 DEF Entry
<1>3. batch' \in Seq(Entry)
  BY <1>2 DEF PushFan, TickTyped
<1>4. /\ tick' = "reading" /\ active' = active /\ commits' = commits
      /\ climate' = climate /\ changes' = changes /\ next' = next /\ readings' = readings
      /\ pending' \subseteq pending /\ tick = tick'
  BY DEF PushFan, cache, weather
<1>5. TickTyped'
  BY <1>3, <1>4 DEF TickTyped
<1>6. LastRead' = LastRead
  BY <1>4 DEF LastRead
<1> QED
  BY <1>4, <1>5, <1>6 DEF Walk

\* Every step keeps what is in hand typed and, for the worker, is a step of
\* HidProtocol or none.
LEMMA WalkStep == TickTyped /\ Walk /\ [Next]_vars => TickTyped' /\ Walk' /\ [HidNext]_hidVars
<1> SUFFICES ASSUME TickTyped, Walk, [Next]_vars
             PROVE  TickTyped' /\ Walk' /\ [HidNext]_hidVars
  OBVIOUS
<1> DEFINE kept == TickTyped' /\ Walk'
<1>1. ASSUME UNCHANGED <<monitor, cache, weather>> PROVE kept
  BY <1>1 DEF TickTyped, Walk, LastRead, monitor, cache, weather
<1>2. CASE Initialize
  <2>1. HidNext
    BY <1>2 DEF Initialize, HidNext, Begin, Command
  <2> QED
    BY <1>2, <2>1 DEF Initialize, TickTyped, Walk, LastRead, cache, weather
<1>3. CASE Initialized
  BY <1>3 DEF Initialized, TickTyped, Walk, LastRead, cache, weather
<1>4. CASE \E cfg \in Adoptable : Adopt(cfg)
  <2>1. PICK cfg \in Adoptable : Adopt(cfg)
    BY <1>4
  <2>2. active' \in Adoptable /\ tick = "waiting"
    BY <2>1 DEF Adopt, MayAdopt
  <2>3. commits' \in 0 .. MaxCommits
    BY <2>1, SpeedAssumption DEF Adopt, TickTyped
  <2>4. UNCHANGED <<monitor, weather>> /\ hidVars' = hidVars
    BY <2>1 DEF Adopt
  <2>5. TickTyped'
    BY <2>2, <2>3, <2>4 DEF TickTyped, monitor, weather
  <2>6. Walk'
    BY <2>2, <2>4 DEF Walk, monitor
  <2> QED
    BY <2>4, <2>5, <2>6
<1>5. CASE Tick
  <2>1. /\ tick' = "reading" /\ next' = 1 /\ readings' = Unread /\ pending' = {}
        /\ batch' = <<>> /\ UNCHANGED <<hidVars, cache, weather>>
    BY <1>5 DEF Tick
  <2>2. TickTyped'
    BY <2>1, KeysTyped DEF TickTyped, Unread, cache, weather
  <2>3. Walk'
    BY <2>1 DEF Walk
  <2> QED
    BY <2>1, <2>2, <2>3
<1>6. CASE \E s \in SensorSet, T \in Temps \union {Failed} : Weather(s, T)
  <2>1. PICK s \in SensorSet, T \in Temps \union {Failed} : Weather(s, T)
    BY <1>6
  <2>2. climate' \in [SensorSet -> Temps \union {Failed, DummyTemperature}]
    BY <2>1 DEF Weather, TickTyped
  <2>3. changes' \in 0 .. MaxChanges
    BY <2>1, SpeedAssumption DEF Weather, TickTyped
  <2>4. UNCHANGED <<monitor, cache>> /\ hidVars' = hidVars
    BY <2>1 DEF Weather
  <2>5. TickTyped'
    BY <2>2, <2>3, <2>4 DEF TickTyped, monitor, cache
  <2>6. Walk'
    BY <2>4 DEF Walk, LastRead, monitor, cache
  <2> QED
    BY <2>4, <2>5, <2>6
<1>7. CASE ReadSensor
  <2>1. hidVars' = hidVars
    BY <1>7 DEF ReadSensor
  <2> QED
    BY <1>7, <2>1, ReadTyped
<1>8. CASE \E fan \in pending : NoSpeed(fan)
  <2>1. /\ tick' = "waiting" /\ next' = 1 /\ readings' = Unread /\ pending' = {}
        /\ batch' = <<>> /\ UNCHANGED <<hidVars, cache, weather>>
    BY <1>8 DEF NoSpeed
  <2>2. TickTyped'
    BY <2>1, KeysTyped DEF TickTyped, Unread, cache, weather
  <2>3. Walk'
    BY <2>1 DEF Walk
  <2> QED
    BY <2>1, <2>2, <2>3
<1>9. CASE \E fan \in pending : \E s \in SpeedsOf(active, fan, readings[LastRead]) :
               PushFan(fan, s)
  <2>1. PICK fan \in pending : \E s \in SpeedsOf(active, fan, readings[LastRead]) :
                                  PushFan(fan, s)
    BY <1>9
  <2>2. PICK s \in SpeedsOf(active, fan, readings[LastRead]) : PushFan(fan, s)
    BY <2>1
  <2>3. hidVars' = hidVars
    BY <2>2 DEF PushFan
  <2> QED
    BY <2>2, <2>3, PushTyped
<1>10. CASE Send
  <2>1. HidNext
    BY <1>10 DEF Send, HidNext, Begin, Command, TickTyped
  <2>2. pending = {} /\ next > Len(SensorKeys)
    BY <1>10 DEF Send, Collected
  <2>3. next = Len(SensorKeys) + 1
    BY <2>2, KeysTyped DEF TickTyped
  <2> QED
    BY <1>10, <2>1, <2>2, <2>3 DEF Send, TickTyped, Walk, cache, weather
<1>11. CASE Answered
  <2>1. pending = {}
    BY <1>11 DEF Answered, Collected, Walk
  <2>2. /\ tick' = "waiting" /\ next' = 1 /\ readings' = Unread /\ pending' = {}
        /\ batch' = <<>> /\ UNCHANGED <<hidVars, cache, weather>>
    BY <1>11, <2>1 DEF Answered
  <2>3. TickTyped'
    BY <2>2, KeysTyped DEF TickTyped, Unread, cache, weather
  <2>4. Walk'
    BY <2>2 DEF Walk
  <2> QED
    BY <2>2, <2>3, <2>4
<1>12. CASE SendColors
  <2> DEFINE colors == [f \in 1 .. Listed |-> [fan |-> f, speed |-> 0]]
  <2>1. colors \in Seq(Entry)
    BY HidAssumption DEF Entry, Byte
  <2> HIDE DEF colors
  <2>2. [kind |-> "Colors", batch |-> colors] \in Command
    BY <2>1 DEF Command
  <2>3. Begin([kind |-> "Colors", batch |-> colors])
    BY <1>12 DEF SendColors, colors
  <2>4. HidNext
    BY <2>2, <2>3 DEF HidNext, Begin
  <2> QED
    BY <1>1, <1>12, <2>4 DEF SendColors
<1>13. CASE Hid
  BY <1>1, <1>13 DEF Hid, HidNext
<1>14. CASE UNCHANGED vars
  BY <1>1, <1>14 DEF vars
<1> QED
  BY <1>2, <1>3, <1>4, <1>5, <1>6, <1>7, <1>8, <1>9, <1>10, <1>11, <1>12, <1>13,
     <1>14 DEF Next

\* Whatever the sensors and the configurations, the worker and its device
\* behave as HidProtocol says, so all that is proved there holds here.
THEOREM Drives == Spec => HidSpec
<1>1. Init => HidInit
  BY DEF Init
<1> QED
  BY <1>1, WalkInit, WalkStep, PTL DEF Spec, HidSpec

\* What the tick, the worker and the device have in hand is of its type.
THEOREM WellTyped == Spec => []TypeOK
<1>1. Spec => [](TickTyped /\ Walk)
  BY WalkInit, WalkStep, PTL DEF Spec
<1>2. TickTyped /\ Walk /\ HidTypeOK => TypeOK
  <2> SUFFICES ASSUME TickTyped, Walk, HidTypeOK PROVE TypeOK
    OBVIOUS
  <2>1. \A fan \in pending : fan.channel \in Nat
    BY InTurn
  <2> QED
    BY <2>1 DEF TypeOK, TickTyped
<1> QED
  BY <1>1, <1>2, Drives, TypeCorrect, PTL

\* So on the way from the temperatures to the fans, colours and all, answers
\* are never mistaken before one is late, and statistics mean what was written.
THEOREM Inherited == Spec => []OwnAnswer /\ StatsMeanWritten
  BY Drives, Paired, Truthful, PTL

-----------------------------------------------------------------------------
\* What a batch holds while the tick walks over the sensors.

\* No two sensors have one key.  The file's ids are meant to be unique and are
\* not checked; with two alike a reading could replace an earlier one.
UniqueKeys ==
    \A i, j \in DOMAIN SensorKeys : SensorKeys[i] = SensorKeys[j] => i = j

\* A reading is of this tick, and of a sensor that has been walked past.
Fresh ==
    /\ tick \notin {"reading", "awaiting"} => readings = Unread
    /\ \A i \in DOMAIN SensorKeys : readings[SensorKeys[i]] # Failed => i < next

\* The sensors read in this tick that have already had a speed for the fan.
Given(fan) ==
    {i \in SensorsOf(active, fan, readings) : i < next /\ ~(i = next - 1 /\ fan \in pending)}

OwnFan(channel) == [controller |-> Here, channel |-> channel]

\* Each of them could tell the speed, and put it into the batch if the fan is
\* one of Here.
Spoken ==
    \A i \in DOMAIN SensorKeys : \A fan \in FansForSensor(active, SensorKeys[i]) :
        i \in Given(fan) =>
            /\ SpeedsOf(active, fan, readings[SensorKeys[i]]) # {}
            /\ fan.controller = Here =>
                  \E e \in DOMAIN batch :
                      /\ batch[e].fan = fan.channel
                      /\ batch[e].speed \in SpeedsOf(active, fan, readings[SensorKeys[i]])

\* Each entry of the batch is from such a sensor.
Heard ==
    \A e \in DOMAIN batch : \E i \in Given(OwnFan(batch[e].fan)) :
        batch[e].speed \in SpeedsOf(active, OwnFan(batch[e].fan), readings[SensorKeys[i]])

\* The last entry for a fan is from the last of its sensors.
LastEntry(e) == \A k \in DOMAIN batch : batch[k].fan = batch[e].fan => k <= e
Newest ==
    \A e \in DOMAIN batch : LastEntry(e) =>
        \E g \in Given(OwnFan(batch[e].fan)) :
            /\ \A i \in Given(OwnFan(batch[e].fan)) : i <= g
            /\ batch[e].speed \in SpeedsOf(active, OwnFan(batch[e].fan), readings[SensorKeys[g]])

\* A step leaves what the tick has in hand alone, lets go of all of it, reads a
\* sensor or gives one fan its speed.
LEMMA Moves ==
  ASSUME Walk, Fresh, [Next]_vars
  PROVE  \/ UNCHANGED <<next, readings, pending, batch, active>>
         \/ readings' = Unread /\ batch' = <<>>
         \/ ReadSensor
         \/ \E fan \in pending : \E s \in SpeedsOf(active, fan, readings[LastRead]) :
                PushFan(fan, s)
<1>1. CASE Initialize \/ Initialized \/ Send \/ SendColors \/ Hid \/ UNCHANGED vars
  BY <1>1 DEF Initialize, Initialized, Send, SendColors, Hid, vars, monitor, cache
<1>2. CASE \E cfg \in Adoptable : Adopt(cfg)
  BY <1>2 DEF Adopt, MayAdopt, Walk, Fresh, monitor
<1>3. CASE \E s \in SensorSet, T \in Temps \union {Failed} : Weather(s, T)
  BY <1>3 DEF Weather, monitor, cache
<1>4. CASE Tick \/ Answered \/ \E fan \in pending : NoSpeed(fan)
  BY <1>4 DEF Tick, Answered, NoSpeed
<1> QED
  BY <1>1, <1>2, <1>3, <1>4 DEF Next

\* A fresh reading is of a sensor behind the walk.
LEMMA UnreadFailed == \A i \in DOMAIN SensorKeys : Unread[SensorKeys[i]] = Failed
  BY KeysTyped DEF Unread

LEMMA FreshInit == Init => Fresh
  BY UnreadFailed DEF Init, Fresh

\* What reading a sensor changes, and that it leaves what the fans were given.
LEMMA ReadKeeps ==
  ASSUME UniqueKeys, TickTyped, Walk, Fresh, ReadSensor
  PROVE  /\ next' = next + 1 /\ next \in Nat /\ active' = active /\ batch' = batch
         /\ tick' = "reading"
         /\ \A i \in DOMAIN SensorKeys :
               i # next => readings'[SensorKeys[i]] = readings[SensorKeys[i]]
         /\ \A i \in DOMAIN SensorKeys : readings[SensorKeys[i]] # Failed => i < next
         /\ \A fan : Given(fan)' = Given(fan)
<1>1. /\ next \in 1 .. Len(SensorKeys) /\ next \in Nat /\ next \in DOMAIN SensorKeys
      /\ DOMAIN SensorKeys \subseteq Nat
      /\ \A i \in DOMAIN SensorKeys : SensorKeys[i] \in SensorSet
  BY KeysTyped DEF ReadSensor, TickTyped
<1>2. /\ next' = next + 1 /\ active' = active /\ batch' = batch
      /\ tick' = "reading" /\ pending = {}
      /\ readings' = [readings EXCEPT ![SensorKeys[next]] = climate[SensorKeys[next]]]
      /\ pending' = IF climate[SensorKeys[next]] = Failed THEN {}
                    ELSE FansForSensor(active, SensorKeys[next])
  BY DEF ReadSensor, cache
<1>3. ASSUME NEW i \in DOMAIN SensorKeys, i # next
      PROVE  readings'[SensorKeys[i]] = readings[SensorKeys[i]]
  <2>1. SensorKeys[i] # SensorKeys[next]
    BY <1>1, <1>3 DEF UniqueKeys
  <2> QED
    BY <1>1, <1>2, <1>3, <2>1 DEF TickTyped
<1>4. readings'[SensorKeys[next]] = climate[SensorKeys[next]]
  BY <1>1, <1>2 DEF TickTyped
<1>5. \A i \in DOMAIN SensorKeys : readings[SensorKeys[i]] # Failed => i < next
  BY DEF Fresh
<1>6. ASSUME NEW fan PROVE Given(fan)' = Given(fan)
  <2>1. ASSUME NEW i \in DOMAIN SensorKeys PROVE i \in Given(fan)' <=> i \in Given(fan)
    <3>1. CASE i = next
      <4>1. i \notin Given(fan)
        BY <1>1, <3>1 DEF Given
      <4>2. i \notin Given(fan)'
        <5>1. ASSUME readings'[SensorKeys[next]] # Failed,
                     fan \in FansForSensor(active, SensorKeys[next])
              PROVE  fan \in pending'
          BY <1>2, <1>4, <5>1
        <5>2. next = next' - 1
          BY <1>1, <1>2
        <5> QED
          BY <1>2, <3>1, <5>1, <5>2 DEF Given, SensorsOf, ReadIn
      <4> QED
        BY <4>1, <4>2
    <3>2. CASE i # next
      <4>1. readings'[SensorKeys[i]] = readings[SensorKeys[i]]
        BY <1>3, <3>2
      <4>2. i \in Nat /\ next \in Nat
        BY <1>1
      <4>3. i < next' /\ i # next' - 1 <=> i < next
        BY <1>2, <3>2, <4>2
      <4>4. i < next' /\ i = next' - 1 => FALSE
        BY <1>2, <3>2, <4>2
      <4> QED
        BY <1>2, <1>5, <4>1, <4>3, <4>4 DEF Given, SensorsOf, ReadIn
    <3> QED
      BY <3>1, <3>2
  <2>2. Given(fan) \subseteq DOMAIN SensorKeys /\ Given(fan)' \subseteq DOMAIN SensorKeys
    BY DEF Given, SensorsOf, ReadIn
  <2> QED
    BY <2>1, <2>2
<1> QED
  BY <1>1, <1>2, <1>3, <1>5, <1>6

\* What giving a fan its speed changes.
LEMMA PushGives ==
  ASSUME TickTyped, Walk, NEW fan \in pending,
         NEW s \in SpeedsOf(active, fan, readings[LastRead]), PushFan(fan, s)
  PROVE  /\ next' = next /\ active' = active /\ readings' = readings
         /\ next - 1 \in DOMAIN SensorKeys /\ next - 1 < next
         /\ \A other : other # fan => Given(other)' = Given(other)
         /\ Given(fan)' = Given(fan) \union {next - 1}
<1>1. /\ next' = next /\ active' = active /\ readings' = readings
      /\ pending' = pending \ {fan}
  BY DEF PushFan, cache
<1>2. next - 1 \in DOMAIN SensorKeys /\ next \in Nat /\ next - 1 < next
  BY KeysTyped DEF Walk, TickTyped
<1>3. next - 1 \in SensorsOf(active, fan, readings)
  BY <1>2, InTurn DEF SensorsOf, ReadIn, Walk, LastRead
<1>4. \A other : other # fan => Given(other)' = Given(other)
  BY <1>1 DEF Given, SensorsOf, ReadIn
<1>5. Given(fan)' = Given(fan) \union {next - 1}
  <2>1. Given(fan)' = {i \in SensorsOf(active, fan, readings) : i < next}
    BY <1>1 DEF Given, SensorsOf, ReadIn
  <2>2. Given(fan) = {i \in SensorsOf(active, fan, readings) : i < next /\ i # next - 1}
    BY DEF Given
  <2> QED
    BY <1>2, <1>3, <2>1, <2>2
<1> QED
  BY <1>1, <1>2, <1>4, <1>5

\* Readings stay fresh.
LEMMA FreshStep ==
  ASSUME UniqueKeys, TickTyped, Walk, Fresh, [Next]_vars
  PROVE  Fresh'
<1>1. CASE UNCHANGED <<next, readings, pending, batch, active>>
  <2>1. tick' \notin {"reading", "awaiting"} => readings' = Unread
    <3>1. CASE tick \notin {"reading", "awaiting"}
      BY <1>1, <3>1 DEF Fresh
    <3>2. CASE tick \in {"reading", "awaiting"}
      <4>1. CASE Initialize \/ Initialized \/ Tick
        BY <3>2, <4>1 DEF Initialize, Initialized, Tick
      <4>2. CASE ReadSensor \/ Send \/ SendColors \/ Hid \/ UNCHANGED vars
        BY <3>2, <4>2 DEF ReadSensor, Send, SendColors, Hid, vars, monitor
      <4>3. CASE Answered
        BY <4>3 DEF Answered
      <4>4. CASE \/ \E cfg \in Adoptable : Adopt(cfg)
                 \/ \E s \in SensorSet, T \in Temps \union {Failed} : Weather(s, T)
        BY <3>2, <4>4 DEF Adopt, Weather, monitor
      <4>5. CASE \E fan \in pending :
                    \/ NoSpeed(fan)
                    \/ \E s \in SpeedsOf(active, fan, readings[LastRead]) : PushFan(fan, s)
        BY <4>5 DEF NoSpeed, PushFan
      <4> QED
        BY <4>1, <4>2, <4>3, <4>4, <4>5 DEF Next
    <3> QED
      BY <3>1, <3>2
  <2> QED
    BY <1>1, <2>1 DEF Fresh
<1>2. CASE readings' = Unread
  BY <1>2, UnreadFailed DEF Fresh
<1>3. CASE ReadSensor
  <2>1. ASSUME NEW i \in DOMAIN SensorKeys, readings'[SensorKeys[i]] # Failed
        PROVE  i < next'
    <3>1. next' = next + 1 /\ next \in Nat /\ i \in Nat
      BY <1>3, ReadKeeps, KeysTyped
    <3>2. i # next => i < next
      BY <1>3, <2>1, ReadKeeps
    <3> QED
      BY <3>1, <3>2
  <2>2. tick' = "reading"
    BY <1>3 DEF ReadSensor
  <2> QED
    BY <2>1, <2>2 DEF Fresh
<1>4. CASE \E fan \in pending : \E s \in SpeedsOf(active, fan, readings[LastRead]) :
               PushFan(fan, s)
  <2>1. tick' = "reading" /\ readings' = readings /\ next' = next
    BY <1>4 DEF PushFan
  <2> QED
    BY <2>1 DEF Fresh
<1> QED
  BY <1>1, <1>2, <1>3, <1>4, Moves

\* A tick that holds nothing has given nothing.
LEMMA NothingGiven ==
  ASSUME readings = Unread, batch = <<>>
  PROVE  Spoken /\ Heard /\ Newest
<1>1. \A fan : Given(fan) = {}
  BY UnreadFailed DEF Given, SensorsOf, ReadIn
<1> QED
  BY <1>1 DEF Spoken, Heard, Newest

\* A batch in which the same has been given holds the same.
LEMMA SameGiven ==
  ASSUME Spoken, Heard, Newest, active' = active, batch' = batch,
         \A fan : Given(fan)' = Given(fan),
         \A fan : \A i \in Given(fan) : readings'[SensorKeys[i]] = readings[SensorKeys[i]]
  PROVE  (Spoken /\ Heard /\ Newest)'
<1>1. Spoken'
  <2> SUFFICES ASSUME NEW i \in DOMAIN SensorKeys,
                      NEW fan \in FansForSensor(active, SensorKeys[i]), i \in Given(fan)
               PROVE  /\ SpeedsOf(active, fan, readings'[SensorKeys[i]]) # {}
                      /\ fan.controller = Here =>
                            \E e \in DOMAIN batch :
                               /\ batch[e].fan = fan.channel
                               /\ batch[e].speed
                                     \in SpeedsOf(active, fan, readings'[SensorKeys[i]])
    BY DEF Spoken
  <2>1. readings'[SensorKeys[i]] = readings[SensorKeys[i]]
    OBVIOUS
  <2> QED
    BY <2>1 DEF Spoken
<1>2. Heard'
  <2> SUFFICES ASSUME NEW e \in DOMAIN batch
               PROVE  \E i \in Given(OwnFan(batch[e].fan)) : batch[e].speed
                         \in SpeedsOf(active, OwnFan(batch[e].fan), readings'[SensorKeys[i]])
    BY DEF Heard, OwnFan
  <2>1. PICK i \in Given(OwnFan(batch[e].fan)) : batch[e].speed
                         \in SpeedsOf(active, OwnFan(batch[e].fan), readings[SensorKeys[i]])
    BY DEF Heard
  <2>2. readings'[SensorKeys[i]] = readings[SensorKeys[i]]
    OBVIOUS
  <2> QED
    BY <2>1, <2>2
<1>3. Newest'
  <2> SUFFICES ASSUME NEW e \in DOMAIN batch, LastEntry(e)
               PROVE  \E g \in Given(OwnFan(batch[e].fan)) :
                         /\ \A i \in Given(OwnFan(batch[e].fan)) : i <= g
                         /\ batch[e].speed
                               \in SpeedsOf(active, OwnFan(batch[e].fan), readings'[SensorKeys[g]])
    BY DEF Newest, OwnFan, LastEntry
  <2>1. PICK g \in Given(OwnFan(batch[e].fan)) :
           /\ \A i \in Given(OwnFan(batch[e].fan)) : i <= g
           /\ batch[e].speed \in SpeedsOf(active, OwnFan(batch[e].fan), readings[SensorKeys[g]])
    BY DEF Newest
  <2>2. readings'[SensorKeys[g]] = readings[SensorKeys[g]]
    OBVIOUS
  <2> QED
    BY <2>1, <2>2
<1> QED
  BY <1>1, <1>2, <1>3

\* A fan that is given its speed adds one entry at most, the newest.
LEMMA MoreGiven ==
  ASSUME TickTyped, Walk, Spoken, Heard, Newest, NEW fan \in pending,
         NEW s \in SpeedsOf(active, fan, readings[LastRead]), PushFan(fan, s)
  PROVE  (Spoken /\ Heard /\ Newest)'
<1> DEFINE g == next - 1
           n == Len(batch)
           entry == [fan |-> fan.channel, speed |-> s]
           Later(f) == {i \in SensorsOf(active, f, readings) :
                           i < next /\ ~(i = next - 1 /\ f \in pending')}
<1>0. active' = active /\ readings' = readings /\ next' = next
  BY PushGives
<1>1. /\ active' = active /\ readings' = readings /\ g \in DOMAIN SensorKeys
      /\ \A other : other # fan => Later(other) = Given(other)
      /\ Later(fan) = Given(fan) \union {g}
      /\ LastRead = SensorKeys[g]
  <2>1. \A f : Given(f)' = Later(f)
    BY <1>0 DEF Given, SensorsOf, ReadIn
  <2> HIDE DEF Later
  <2> QED
    BY <2>1, PushGives DEF LastRead
<1>2. \A i \in Later(fan) : i <= g
  <2>1. \A i \in Later(fan) : i < next /\ i \in Nat /\ next \in Nat
    BY KeysTyped DEF SensorsOf, ReadIn, TickTyped
  <2> QED
    BY <2>1
<1>3. fan = [controller |-> fan.controller, channel |-> fan.channel] /\ fan.channel \in Nat
  BY InTurn
<1>4. n \in Nat /\ DOMAIN batch = 1 .. n /\ batch \in Seq(Entry)
  BY DEF TickTyped
<1>5. s \in Byte /\ entry \in Entry /\ entry.fan = fan.channel /\ entry.speed = s
  <2>1. s \in Byte
    BY InTurn
  <2> QED
    BY <1>3, <2>1 DEF Entry
<1>6. batch' = IF fan.controller = Here THEN Append(batch, entry) ELSE batch
  BY DEF PushFan
<1>a. /\ (\A e \in DOMAIN batch' : \E i \in Later(OwnFan(batch'[e].fan)) : batch'[e].speed
               \in SpeedsOf(active, OwnFan(batch'[e].fan), readings[SensorKeys[i]])) => Heard'
      /\ (\A e \in DOMAIN batch' :
            (\A k \in DOMAIN batch' : batch'[k].fan = batch'[e].fan => k <= e) =>
               \E k \in Later(OwnFan(batch'[e].fan)) :
                  /\ \A i \in Later(OwnFan(batch'[e].fan)) : i <= k
                  /\ batch'[e].speed
                        \in SpeedsOf(active, OwnFan(batch'[e].fan), readings[SensorKeys[k]]))
         => Newest'
      /\ (\A i \in DOMAIN SensorKeys : \A other \in FansForSensor(active, SensorKeys[i]) :
            i \in Later(other) =>
               /\ SpeedsOf(active, other, readings[SensorKeys[i]]) # {}
               /\ other.controller = Here =>
                     \E e \in DOMAIN batch' :
                        /\ batch'[e].fan = other.channel
                        /\ batch'[e].speed \in SpeedsOf(active, other, readings[SensorKeys[i]]))
         => Spoken'
  BY <1>0 DEF Heard, Newest, LastEntry, Spoken, Given, OwnFan, SensorsOf, ReadIn
<1> HIDE DEF g, n, entry, Later
<1>7. \A e \in DOMAIN batch : e \in DOMAIN batch' /\ batch'[e] = batch[e]
  BY <1>4, <1>5, <1>6
<1>8. /\ fan.controller = Here =>
            /\ n + 1 \in DOMAIN batch' /\ batch'[n + 1] = entry /\ fan = OwnFan(entry.fan)
      /\ \A e \in DOMAIN batch' : e \in DOMAIN batch \/ (e = n + 1 /\ fan.controller = Here)
  <2>1. CASE fan.controller = Here
    <3>1. fan = OwnFan(entry.fan)
      BY <1>3, <1>5, <2>1 DEF OwnFan
    <3>2. batch' = Append(batch, entry)
      BY <1>6, <2>1
    <3>3. n + 1 \in DOMAIN batch' /\ batch'[n + 1] = entry
      BY <1>4, <1>5, <3>2 DEF n
    <3>4. DOMAIN batch' = 1 .. n + 1
      BY <1>4, <1>5, <3>2 DEF n
    <3> QED
      BY <1>4, <2>1, <3>1, <3>3, <3>4
  <2>2. CASE fan.controller # Here
    BY <1>6, <2>2
  <2> QED
    BY <2>1, <2>2
<1>9. Spoken'
  <2> SUFFICES ASSUME NEW i \in DOMAIN SensorKeys,
                      NEW other \in FansForSensor(active, SensorKeys[i]), i \in Later(other)
               PROVE  /\ SpeedsOf(active, other, readings[SensorKeys[i]]) # {}
                      /\ other.controller = Here =>
                            \E e \in DOMAIN batch' :
                               /\ batch'[e].fan = other.channel
                               /\ batch'[e].speed
                                     \in SpeedsOf(active, other, readings[SensorKeys[i]])
    BY <1>a
  <2>1. CASE i \in Given(other)
    <3>1. /\ SpeedsOf(active, other, readings[SensorKeys[i]]) # {}
          /\ other.controller = Here =>
                \E e \in DOMAIN batch :
                   /\ batch[e].fan = other.channel
                   /\ batch[e].speed \in SpeedsOf(active, other, readings[SensorKeys[i]])
      BY <2>1 DEF Spoken
    <3> QED
      BY <1>7, <3>1
  <2>2. CASE i \notin Given(other)
    <3>1. other = fan /\ i = g
      BY <1>1, <2>2
    <3> QED
      BY <1>1, <1>5, <1>8, <3>1
  <2> QED
    BY <2>1, <2>2
<1>10. Heard'
  <2> SUFFICES ASSUME NEW e \in DOMAIN batch'
               PROVE  \E i \in Later(OwnFan(batch'[e].fan)) : batch'[e].speed
                         \in SpeedsOf(active, OwnFan(batch'[e].fan), readings[SensorKeys[i]])
    BY <1>a
  <2>1. CASE e \in DOMAIN batch
    <3>1. PICK i \in Given(OwnFan(batch[e].fan)) : batch[e].speed
                         \in SpeedsOf(active, OwnFan(batch[e].fan), readings[SensorKeys[i]])
      BY <2>1 DEF Heard
    <3>2. i \in Later(OwnFan(batch[e].fan))
      BY <1>1, <3>1
    <3>3. batch'[e] = batch[e]
      BY <1>7, <2>1
    <3> QED
      BY <3>1, <3>2, <3>3
  <2>2. CASE e \notin DOMAIN batch
    <3>1. batch'[e] = entry /\ fan = OwnFan(entry.fan)
      BY <1>8, <2>2
    <3>2. g \in Later(fan)
      BY <1>1
    <3> QED
      BY <1>1, <1>5, <3>1, <3>2
  <2> QED
    BY <2>1, <2>2
<1>11. Newest'
  <2> SUFFICES ASSUME NEW e \in DOMAIN batch',
                      \A k \in DOMAIN batch' : batch'[k].fan = batch'[e].fan => k <= e
               PROVE  \E k \in Later(OwnFan(batch'[e].fan)) :
                         /\ \A i \in Later(OwnFan(batch'[e].fan)) : i <= k
                         /\ batch'[e].speed
                               \in SpeedsOf(active, OwnFan(batch'[e].fan), readings[SensorKeys[k]])
    BY <1>a
  <2>1. CASE e \in DOMAIN batch
    <3>1. batch'[e] = batch[e]
      BY <1>7, <2>1
    <3>2. LastEntry(e)
      BY <1>7, <2>1 DEF LastEntry
    <3>3. PICK k \in Given(OwnFan(batch[e].fan)) :
           /\ \A i \in Given(OwnFan(batch[e].fan)) : i <= k
           /\ batch[e].speed \in SpeedsOf(active, OwnFan(batch[e].fan), readings[SensorKeys[k]])
      BY <2>1, <3>2 DEF Newest
    <3>4. OwnFan(batch[e].fan) # fan
      <4> SUFFICES ASSUME OwnFan(batch[e].fan) = fan PROVE FALSE
        OBVIOUS
      <4>1. fan.controller = Here /\ fan.channel = batch[e].fan
        BY DEF OwnFan
      <4>2. n + 1 \in DOMAIN batch' /\ batch'[n + 1].fan = batch'[e].fan
        BY <1>5, <1>8, <3>1, <4>1
      <4>3. n + 1 <= e
        BY <4>2
      <4> QED
        BY <1>4, <2>1, <4>3
    <3>5. Later(OwnFan(batch[e].fan)) = Given(OwnFan(batch[e].fan))
      BY <1>1, <3>4
    <3> QED
      BY <3>1, <3>3, <3>5
  <2>2. CASE e \notin DOMAIN batch
    <3>1. batch'[e] = entry /\ fan = OwnFan(entry.fan)
      BY <1>8, <2>2
    <3>2. g \in Later(fan)
      BY <1>1
    <3> QED
      BY <1>1, <1>2, <1>5, <3>1, <3>2
  <2> QED
    BY <2>1, <2>2
<1> QED
  BY <1>9, <1>10, <1>11

\* While the tick walks over the sensors the batch holds what has been given.
Held == TickTyped /\ Walk /\ Fresh /\ Spoken /\ Heard /\ Newest

LEMMA HeldInit == Init => Held
<1> SUFFICES ASSUME Init PROVE Held
  OBVIOUS
<1>1. readings = Unread /\ batch = <<>>
  BY DEF Init
<1> QED
  BY <1>1, WalkInit, FreshInit, NothingGiven DEF Held

LEMMA HeldStep == UniqueKeys /\ Held /\ [Next]_vars => Held'
<1> SUFFICES ASSUME UniqueKeys, Held, [Next]_vars PROVE Held'
  OBVIOUS
<1>1. TickTyped /\ Walk /\ Fresh /\ Spoken /\ Heard /\ Newest
  BY DEF Held
<1>2. TickTyped' /\ Walk'
  BY <1>1, WalkStep
<1>3. Fresh'
  BY <1>1, FreshStep
<1>4. CASE UNCHANGED <<next, readings, pending, batch, active>>
  <2>1. \A fan : Given(fan)' = Given(fan)
    BY <1>4 DEF Given, SensorsOf, ReadIn
  <2> QED
    BY <1>1, <1>2, <1>3, <1>4, <2>1, SameGiven DEF Held
<1>5. CASE readings' = Unread /\ batch' = <<>>
  <2>1. \A fan : Given(fan)' = {}
    BY <1>5, UnreadFailed DEF Given, SensorsOf, ReadIn
  <2>2. (Spoken /\ Heard /\ Newest)'
    BY <1>5, <2>1 DEF Spoken, Heard, Newest
  <2> QED
    BY <1>2, <1>3, <2>2 DEF Held
<1>6. CASE ReadSensor
  <2>1. /\ active' = active /\ batch' = batch
        /\ \A fan : Given(fan)' = Given(fan)
        /\ \A i \in DOMAIN SensorKeys :
               i # next => readings'[SensorKeys[i]] = readings[SensorKeys[i]]
    BY <1>1, <1>6, ReadKeeps
  <2>2. \A fan : \A i \in Given(fan) : i \in DOMAIN SensorKeys /\ i # next
    <3>1. \A fan : \A i \in Given(fan) : i \in DOMAIN SensorKeys /\ i < next
      BY DEF Given, SensorsOf, ReadIn
    <3>2. next \in Nat /\ DOMAIN SensorKeys \subseteq Nat
      BY <1>1, KeysTyped DEF TickTyped
    <3> QED
      BY <3>1, <3>2
  <2> QED
    BY <1>1, <1>2, <1>3, <2>1, <2>2, SameGiven DEF Held
<1>7. CASE \E fan \in pending : \E s \in SpeedsOf(active, fan, readings[LastRead]) :
               PushFan(fan, s)
  BY <1>1, <1>2, <1>3, <1>7, MoreGiven DEF Held
<1> QED
  BY <1>1, <1>4, <1>5, <1>6, <1>7, Moves

\* A fan has one curve at most.
LEMMA OneCurve ==
  ASSUME NEW cfg, NEW fan, NEW c \in CurvesOf(cfg, fan), NEW d \in CurvesOf(cfg, fan)
  PROVE  c = d
  BY DEF CurvesOf

\* Of two fans of a batch on one rising curve, each with one sensor, the
\* hotter is no slower, but for what truncation cuts.
LEMMA HeldIsFaster == Held => HotterIsFaster
<1> SUFFICES ASSUME Held PROVE HotterIsFaster
  OBVIOUS
<1> DEFINE fan(i) == OwnFan(batch[i].fan)
           of(i) == SensorsOf(active, fan(i), readings)
           heat(i) == readings[SensorKeys[CHOOSE s \in of(i) : TRUE]]
           single(i) == \E s \in DOMAIN SensorKeys : of(i) = {s}
<1>1. ASSUME NEW e \in DOMAIN batch, single(e)
      PROVE  heat(e) \in Int /\ batch[e].speed \in SpeedsOf(active, fan(e), heat(e))
  <2>1. PICK s \in DOMAIN SensorKeys : of(e) = {s}
    BY <1>1
  <2>2. (CHOOSE k \in of(e) : TRUE) = s
    BY <2>1
  <2>3. PICK i \in Given(fan(e)) :
           batch[e].speed \in SpeedsOf(active, fan(e), readings[SensorKeys[i]])
    BY <1>1 DEF Held, Heard
  <2>4. i \in of(e)
    BY <2>3 DEF Given
  <2>5. i = s
    BY <2>1, <2>4
  <2>6. readings[SensorKeys[s]] # Failed
    BY <2>4, <2>5 DEF SensorsOf, ReadIn
  <2>7. readings[SensorKeys[s]] \in Temps \/ readings[SensorKeys[s]] = DummyTemperature
    BY <2>1, <2>6, KeysTyped DEF Held, TickTyped
  <2>8. Temps \subseteq Int
    BY SpeedAssumption
  <2>9. DummyTemperature \in Int
    BY DEF DummyTemperature
  <2>10. readings[SensorKeys[s]] \in Int
    BY <2>7, <2>8, <2>9
  <2> QED
    BY <2>2, <2>3, <2>5, <2>10
<1>2. ASSUME NEW d \in DOMAIN batch, NEW e \in DOMAIN batch, single(d), single(e),
             heat(d) <= heat(e),
             CurvesOf(active, fan(d)) = CurvesOf(active, fan(e)),
             \A c \in CurvesOf(active, fan(d)) : Rising(c)
      PROVE  batch[d].speed <= batch[e].speed + 1
  <2>1. heat(d) \in Int /\ heat(e) \in Int
    BY <1>1, <1>2
  <2>2. PICK c \in CurvesOf(active, fan(d)) : batch[d].speed \in Speeds(c, heat(d))
    <3>1. batch[d].speed \in SpeedsOf(active, fan(d), heat(d))
      BY <1>1, <1>2
    <3> HIDE DEF heat, fan
    <3> QED
      BY <3>1 DEF SpeedsOf
  <2>3. PICK k \in CurvesOf(active, fan(e)) : batch[e].speed \in Speeds(k, heat(e))
    <3>1. batch[e].speed \in SpeedsOf(active, fan(e), heat(e))
      BY <1>1, <1>2
    <3> HIDE DEF heat, fan
    <3> QED
      BY <3>1 DEF SpeedsOf
  <2> HIDE DEF heat, fan
  <2>4. k = c
    BY <1>2, <2>2, <2>3, OneCurve
  <2>5. c \in Curve /\ Rising(c)
    <3>1. Configured(active)
      BY AdoptableConfigured DEF Held, TickTyped
    <3> QED
      BY <1>2, <2>2, <3>1, CurvesAreCurves
  <2> QED
    BY <1>2, <2>1, <2>2, <2>3, <2>4, <2>5, RisingSpeeds
<1> QED
  BY <1>2 DEF HotterIsFaster, OwnFan

\* Of two fans on one rising curve the hotter one never runs slower, but for
\* one percent that truncation may cut, however the sensors fail and whichever
\* configurations are adopted (calculate_speed, cfg.rs:273).
THEOREM Faster == ASSUME UniqueKeys PROVE Spec => []HotterIsFaster
<1>1. Spec => []Held
  BY HeldInit, HeldStep, PTL DEF Spec
<1> QED
  BY <1>1, HeldIsFaster, PTL

\* A batch is sent when every fan of every sensor that was read has its speed
\* in it, and no other fan (collect_and_process_temperatures, monitoring.rs:316).
LEMMA SentIsComplete ==
  ASSUME Held, [Next]_vars, command'.kind = "Speeds", command.kind # "Speeds"
  PROVE  /\ Send
         /\ \A fan : Given(fan) = SensorsOf(active, fan, readings)
<1>1. Send
  <2>1. CASE Initialize \/ SendColors
    BY <2>1 DEF Initialize, SendColors, Begin
  <2>2. CASE \/ Initialized \/ Tick \/ ReadSensor \/ Answered
             \/ \E cfg \in Adoptable : Adopt(cfg)
             \/ \E s \in SensorSet, T \in Temps \union {Failed} : Weather(s, T)
             \/ \E fan \in pending :
                   \/ NoSpeed(fan)
                   \/ \E s \in SpeedsOf(active, fan, readings[LastRead]) : PushFan(fan, s)
             \/ UNCHANGED vars
    <3>1. hidVars' = hidVars
      BY <2>2 DEF Initialized, Tick, ReadSensor, Answered, Adopt, Weather, NoSpeed, PushFan, vars
    <3> QED
      BY <3>1 DEF hidVars, host
  <2>3. CASE Hid
    BY <2>3 DEF Hid, HidStep, Write, WriteFails, ReadRefused, ReadNext, Finish, Timeout,
                DeviceTakes, DeviceRefuses, DeviceFails, GiveUp, Idle, host
  <2> QED
    BY <2>1, <2>2, <2>3 DEF Next
<1>2. ASSUME NEW fan PROVE Given(fan) = SensorsOf(active, fan, readings)
  <2>1. pending = {} /\ next > Len(SensorKeys)
    BY <1>1 DEF Send, Collected
  <2>2. next \in Nat /\ Len(SensorKeys) \in Nat /\ DOMAIN SensorKeys = 1 .. Len(SensorKeys)
    BY KeysTyped DEF Held, TickTyped
  <2>3. \A i \in DOMAIN SensorKeys : i < next
    BY <2>1, <2>2
  <2> QED
    BY <2>1, <2>3 DEF Given, SensorsOf, ReadIn
<1> QED
  BY <1>1, <1>2

\* A batch is all or nothing: it gives a speed to every fan of every sensor
\* that was read and to no other, whatever the order in which a sensor's fans
\* are walked (monitoring.rs:344).
THEOREM Complete == ASSUME UniqueKeys PROVE Spec => BatchIsComplete
<1>1. Spec => []Held
  BY HeldInit, HeldStep, PTL DEF Spec
<1> DEFINE complete ==
          /\ \A i \in ReadIn(readings) : \A fan \in FansForSensor(active, SensorKeys[i]) :
                /\ SpeedsOf(active, fan, readings[SensorKeys[i]]) # {}
                /\ fan.controller = Here =>
                      \E e \in DOMAIN command'.batch :
                          /\ command'.batch[e].fan = fan.channel
                          /\ command'.batch[e].speed
                                \in SpeedsOf(active, fan, readings[SensorKeys[i]])
          /\ \A e \in DOMAIN command'.batch :
                SensorsOf(active, [controller |-> Here, channel |-> command'.batch[e].fan],
                          readings) # {}
<1>2. ASSUME Held, [Next]_vars, command'.kind = "Speeds", command.kind # "Speeds"
      PROVE  complete
  <2>1. Send /\ \A fan : Given(fan) = SensorsOf(active, fan, readings)
    BY <1>2, SentIsComplete
  <2>2. command'.batch = batch
    BY <2>1 DEF Send, Begin
  <2>3. ASSUME NEW i \in ReadIn(readings), NEW fan \in FansForSensor(active, SensorKeys[i])
        PROVE  /\ SpeedsOf(active, fan, readings[SensorKeys[i]]) # {}
               /\ fan.controller = Here =>
                     \E e \in DOMAIN batch :
                         /\ batch[e].fan = fan.channel
                         /\ batch[e].speed \in SpeedsOf(active, fan, readings[SensorKeys[i]])
    <3>1. i \in Given(fan) /\ i \in DOMAIN SensorKeys
      BY <2>1, <2>3 DEF SensorsOf, ReadIn
    <3> QED
      BY <1>2, <3>1 DEF Held, Spoken
  <2>4. ASSUME NEW e \in DOMAIN batch
        PROVE  SensorsOf(active, [controller |-> Here, channel |-> batch[e].fan], readings) # {}
    <3>1. PICK i \in Given(OwnFan(batch[e].fan)) : TRUE
      BY <1>2, <2>4 DEF Held, Heard
    <3> QED
      BY <2>1, <3>1 DEF OwnFan
  <2> QED
    BY <2>2, <2>3, <2>4
<1>3. Held /\ [Next]_vars =>
         [command'.kind = "Speeds" /\ command.kind # "Speeds" => complete]_vars
  BY <1>2
<1> QED
  BY <1>1, <1>3, PTL DEF Spec, BatchIsComplete

-----------------------------------------------------------------------------
\* From the batch to the duties of the fans.

\* What HidProtocol's proofs know of the worker and its device.
Reliable == Typed /\ Mute /\ InStep /\ Sent /\ Honest

LEMMA ReliableAlways == HidSpec => []Reliable
  BY TypedInit, TypedStep, InStepInit, InStepStep, SentInit, SentStep, HonestInit,
     HonestStep, PTL DEF HidSpec, Reliable

\* The worker has the batch that the tick awaits, or is through with it; then
\* a punctual device has, or will have, the last duty for each fan of it.
Delivered ==
    /\ tick = "awaiting" /\ command.kind = "Speeds" => command.batch = batch
    /\ tick = "awaiting" /\ Punctual /\ command.kind # "Speeds" =>
          \A f \in Channels : (\E e \in DOMAIN batch : batch[e].fan = f) =>
              Target(f) = LastSpeed(f, batch)
    /\ tick # "awaiting" => command.kind # "Speeds"

LEMMA DeliveredInit == Init => Delivered
  BY DEF Init, HidInit, Idle, Delivered

\* What never failed and is present was so before.
LEMMA PunctualBefore ==
  ASSUME Typed, [HidNext]_hidVars, Punctual'
  PROVE  Punctual
<1>1. timeouts \in Nat /\ refusals \in Nat /\ writeErrors \in Nat
  BY HidAssumption DEF Typed, HidTypeOK
<1>2. /\ device' = "present" /\ worker' = "running"
      /\ timeouts' = 0 /\ refusals' = 0 /\ writeErrors' = 0
  BY DEF Punctual
<1>3. CASE command' \in Command /\ Begin(command')
  BY <1>2, <1>3 DEF Begin, adapter, faults, Punctual
<1>4. CASE Write \/ ReadRefused \/ ReadNext \/ Finish
  BY <1>2, <1>4 DEF Write, ReadRefused, ReadNext, Finish, Reads, Busy, TakeAnswer,
                    GiveUp, adapter, faults, Punctual
<1>5. CASE Timeout \/ WriteFails
  <2>1. timeouts' = timeouts /\ writeErrors' = writeErrors /\ refusals' = refusals
    BY <1>1, <1>2, <1>5 DEF Timeout, WriteFails
  <2> QED
    BY <1>2, <1>5, <2>1 DEF Timeout, WriteFails, GiveUp, Punctual
<1>6. CASE DeviceTakes \/ DeviceFails
  BY <1>2, <1>6 DEF DeviceTakes, DeviceFails, host, faults, Punctual
<1>7. CASE DeviceRefuses
  BY <1>1, <1>2, <1>7 DEF DeviceRefuses
<1>8. CASE UNCHANGED hidVars
  BY <1>2, <1>8 DEF hidVars, host, adapter, faults, Punctual
<1> QED
  BY <1>3, <1>4, <1>5, <1>6, <1>7, <1>8 DEF HidNext, HidStep

\* A command that is over was finished, unless something was late or failed.
LEMMA OverIsFinished ==
  ASSUME Reliable, HidStep, Punctual', command.kind = "Speeds", command'.kind # "Speeds"
  PROVE  Finish
<1>1. Punctual /\ timeouts \in Nat /\ writeErrors \in Nat
  BY PunctualBefore, HidAssumption DEF Reliable, HidNext, Typed, HidTypeOK
<1>2. /\ device = "present" /\ timeouts = 0 /\ timeouts' = 0 /\ refusals = 0
      /\ writeErrors = 0 /\ writeErrors' = 0
  BY <1>1 DEF Punctual
<1>3. ~ReadRefused
  BY <1>2, NotRefused DEF Reliable
<1>4. ~WriteFails
  BY <1>2 DEF WriteFails
<1>5. ~Timeout
  BY <1>2 DEF Timeout
<1>6. ~(Write \/ ReadNext \/ DeviceTakes \/ DeviceRefuses \/ DeviceFails)
  BY DEF Write, ReadNext, DeviceTakes, DeviceRefuses, DeviceFails, host
<1> QED
  BY <1>3, <1>4, <1>5, <1>6 DEF HidStep

\* The worker's and the device's own steps deliver.
LEMMA HidDelivers ==
  ASSUME Reliable, Delivered, HidStep, UNCHANGED monitor
  PROVE  Delivered'
<1>1. tick' = tick /\ batch' = batch
  BY DEF monitor
<1>2. command' = command \/ command' = Idle
  BY DEF HidStep, Write, WriteFails, ReadRefused, ReadNext, Finish, Timeout,
         DeviceTakes, DeviceRefuses, DeviceFails, GiveUp, host
<1>3. Idle.kind # "Speeds"
  BY DEF Idle
<1>4. ASSUME tick = "awaiting", Punctual', command'.kind # "Speeds", NEW f \in Channels,
             NEW e \in DOMAIN batch, batch[e].fan = f
      PROVE  Target(f)' = LastSpeed(f, batch)
  <2>1. [HidNext]_hidVars /\ Typed /\ device' = "present" /\ refusals' = 0
    BY <1>4 DEF HidNext, Reliable, Punctual
  <2>2. Punctual /\ refusals' = refusals
    BY <1>4, <2>1, PunctualBefore DEF Punctual
  <2>3. CASE command.kind # "Speeds"
    <3>1. Target(f)' = Target(f)
      BY <2>1, <2>2, <2>3, TargetKept
    <3> QED
      BY <1>4, <2>2, <2>3, <3>1 DEF Delivered
  <2>4. CASE command.kind = "Speeds"
    <3>1. Finish
      BY <1>4, <2>4, OverIsFinished
    <3>2. command.batch = batch
      BY <1>4, <2>4 DEF Delivered
    <3>3. Target(f) = LastSpeed(f, batch)
      BY <1>4, <2>2, <2>4, <3>1, <3>2, WholeBatch DEF Reliable, Punctual, Exact
    <3>4. wire' = wire /\ speed' = speed
      BY <3>1 DEF Finish, TakeAnswer
    <3>5. Target(f)' = Target(f)
      BY <3>4 DEF Target
    <3> QED
      BY <3>3, <3>5
  <2> QED
    BY <2>3, <2>4
<1>5. tick = "awaiting" /\ command'.kind = "Speeds" => command'.batch = batch
  BY <1>2, <1>3 DEF Delivered
<1>6. tick # "awaiting" => command'.kind # "Speeds"
  BY <1>2, <1>3 DEF Delivered
<1> QED
  BY <1>1, <1>4, <1>5, <1>6 DEF Delivered

\* Whatever the tick, the worker and the device do, batches are delivered.
LEMMA DeliveredStep ==
  ASSUME TickTyped, Walk, Reliable, Delivered, [Next]_vars
  PROVE  Delivered'
<1>1. [HidNext]_hidVars
  BY WalkStep
<1>2. ASSUME UNCHANGED hidVars, command.kind # "Speeds", tick' # "awaiting"
      PROVE  Delivered'
  BY <1>2 DEF Delivered, hidVars, host
<1>3. CASE \/ Initialized \/ Tick \/ ReadSensor
           \/ \E cfg \in Adoptable : Adopt(cfg)
           \/ \E fan \in pending :
                 \/ NoSpeed(fan)
                 \/ \E s \in SpeedsOf(active, fan, readings[LastRead]) : PushFan(fan, s)
  <2>1. UNCHANGED hidVars /\ tick # "awaiting" /\ tick' # "awaiting"
    BY <1>3 DEF Initialized, Tick, ReadSensor, Adopt, MayAdopt, NoSpeed, PushFan, monitor
  <2> QED
    BY <1>2, <2>1 DEF Delivered
<1>4. CASE Answered
  <2>1. UNCHANGED hidVars /\ tick' # "awaiting"
    BY <1>4 DEF Answered
  <2>2. command.kind # "Speeds"
    BY <1>4 DEF Answered, Collected, Delivered
  <2> QED
    BY <1>2, <2>1, <2>2
<1>5. CASE \/ \E s \in SensorSet, T \in Temps \union {Failed} : Weather(s, T)
           \/ UNCHANGED vars
  <2>1. UNCHANGED <<hidVars, tick, batch>>
    BY <1>5 DEF Weather, vars, monitor
  <2>2. \A f : Target(f)' = Target(f)
    BY <2>1 DEF hidVars, adapter, Target
  <2>3. UNCHANGED <<command, device, worker, timeouts, refusals, writeErrors>>
    BY <2>1 DEF hidVars, host, adapter, faults
  <2> QED
    BY <2>1, <2>2, <2>3 DEF Delivered, Punctual
<1>6. CASE Initialize \/ SendColors
  <2>1. command = Idle /\ command'.kind # "Speeds"
    BY <1>6 DEF Initialize, SendColors, Begin
  <2>2. command.kind # "Speeds"
    BY <2>1 DEF Idle
  <2>3. UNCHANGED <<batch, wire, speed, device, worker, timeouts, refusals, writeErrors>>
    BY <1>6 DEF Initialize, SendColors, Begin, monitor, adapter, faults
  <2>4. tick' = tick \/ tick' # "awaiting"
    BY <1>6 DEF Initialize, SendColors, monitor
  <2>5. \A f : Target(f)' = Target(f)
    BY <2>3 DEF Target
  <2> QED
    BY <2>1, <2>2, <2>3, <2>4, <2>5 DEF Delivered, Punctual
<1>7. CASE Send
  <2>1. /\ command' = [kind |-> "Speeds", batch |-> batch] /\ tick' = "awaiting"
        /\ batch' = batch
    BY <1>7 DEF Send, Begin
  <2> QED
    BY <2>1 DEF Delivered
<1>8. CASE Hid
  BY <1>8, HidDelivers DEF Hid
<1> QED
  BY <1>3, <1>4, <1>5, <1>6, <1>7, <1>8 DEF Next

\* The batch that is awaited asks for what the configuration wants.
LEMMA AwaitedIsWanted ==
  ASSUME Held, tick = "awaiting", NEW fan \in OwnFans(active),
         SensorsOf(active, fan, readings) # {}
  PROVE  /\ \E e \in DOMAIN batch : batch[e].fan = fan.channel
         /\ LastSpeed(fan.channel, batch) \in WantedSpeeds(active, fan, readings)
<1> DEFINE f == fan.channel
           last == LastFor(f, batch, DOMAIN batch)
           sensors == SensorsOf(active, fan, readings)
<1>1. Given(fan) = sensors
  <2>1. pending = {} /\ next = Len(SensorKeys) + 1
    BY DEF Held, Walk
  <2>2. \A i \in DOMAIN SensorKeys : i < next
    BY <2>1, KeysTyped
  <2> QED
    BY <2>1, <2>2 DEF Given, SensorsOf, ReadIn
<1>2. fan = OwnFan(f) /\ fan.controller = Here
  <2>1. Configured(active)
    BY AdoptableConfigured DEF Held, TickTyped
  <2>2. PICK s \in SensorSet : fan \in FansForSensor(active, s)
    BY DEF OwnFans
  <2>3. fan.controller = Here
    BY DEF OwnFans
  <2> QED
    BY <2>1, <2>2, <2>3, FansAreFans DEF OwnFan
<1>3. PICK e \in DOMAIN batch : batch[e].fan = f
  <2>1. PICK i \in sensors : TRUE
    OBVIOUS
  <2>2. i \in DOMAIN SensorKeys /\ fan \in FansForSensor(active, SensorKeys[i]) /\ i \in Given(fan)
    BY <1>1, <2>1 DEF SensorsOf, ReadIn
  <2> QED
    BY <1>2, <2>2 DEF Held, Spoken
<1>4. batch \in Seq(Entry)
  BY DEF Held, TickTyped
<1>5. /\ last \in DOMAIN batch /\ batch[last].fan = f
      /\ \A j \in DOMAIN batch : batch[j].fan = f => j <= last
  BY <1>3, <1>4, LastForFinds
<1> HIDE DEF last, sensors
<1>6. LastEntry(last)
  BY <1>5 DEF LastEntry
<1>7. PICK g \in sensors : /\ \A i \in sensors : i <= g
                           /\ batch[last].speed \in SpeedsOf(active, fan, readings[SensorKeys[g]])
  BY <1>1, <1>2, <1>5, <1>6 DEF Held, Newest
<1>8. g = Greatest(sensors)
  <2>1. sensors \subseteq 0 .. Len(SensorKeys) /\ Len(SensorKeys) \in Nat
    BY KeysTyped DEF sensors, SensorsOf, ReadIn
  <2>2. Greatest(sensors) \in sensors /\ \A y \in sensors : y <= Greatest(sensors)
    BY <1>7, <2>1, GreatestIndex
  <2> QED
    BY <1>7, <2>1, <2>2
<1>9. LastSpeed(f, batch) = batch[last].speed
  BY DEF LastSpeed, last
<1> QED
  BY <1>3, <1>7, <1>8, <1>9 DEF WantedSpeeds, sensors

\* When its batch is answered a tick has been effective: on a punctual device
\* every fan has, or will have, the speed that the configuration in use asks
\* for at what the tick has read, and of two sensors that name it the later has
\* its way (collect_and_process_temperatures, monitoring.rs:316).
THEOREM Obeyed == ASSUME UniqueKeys PROVE Spec => SpeedsFollowReadings
<1>1. Spec => []Held
  BY HeldInit, HeldStep, PTL DEF Spec
<1>2. Spec => []Reliable
  BY Drives, ReliableAlways, PTL
<1>3. Spec => []Delivered
  <2>1. Held /\ Reliable /\ Delivered /\ [Next]_vars => Delivered'
    BY DeliveredStep DEF Held
  <2> QED
    BY <1>1, <1>2, <2>1, DeliveredInit, PTL DEF Spec
<1>4. ASSUME Held, Delivered, [Next]_vars, tick = "awaiting", tick' = "waiting", Punctual
      PROVE  Following(active, readings)
  <2>1. command.kind # "Speeds"
    <3>1. Answered
      <4>1. ~(Initialize \/ Initialized \/ Tick \/ ReadSensor \/ Send)
        BY <1>4 DEF Initialize, Initialized, Tick, ReadSensor, Send
      <4>2. ~(SendColors \/ Hid \/ UNCHANGED vars)
        BY <1>4 DEF SendColors, Hid, vars, monitor
      <4>3. ~ \E cfg \in Adoptable : Adopt(cfg)
        BY <1>4 DEF Adopt, monitor
      <4>4. ~ \E s \in SensorSet, T \in Temps \union {Failed} : Weather(s, T)
        BY <1>4 DEF Weather, monitor
      <4>5. ~ \E fan \in pending :
                 \/ NoSpeed(fan)
                 \/ \E s \in SpeedsOf(active, fan, readings[LastRead]) : PushFan(fan, s)
        BY <1>4 DEF NoSpeed, PushFan
      <4> QED
        BY <1>4, <4>1, <4>2, <4>3, <4>4, <4>5 DEF Next, vars, monitor
    <3> QED
      BY <1>4, <3>1 DEF Answered, Collected
  <2>2. ASSUME NEW fan \in OwnFans(active), SensorsOf(active, fan, readings) # {}
        PROVE  Follows(active, fan, readings)
    <3>1. fan.channel \in Channels
      BY DEF OwnFans
    <3>2. Target(fan.channel) = LastSpeed(fan.channel, batch)
      BY <1>4, <2>1, <2>2, <3>1, AwaitedIsWanted DEF Delivered
    <3> QED
      BY <1>4, <2>2, <3>2, AwaitedIsWanted DEF Follows
  <2> QED
    BY <2>2 DEF Following
<1>5. Held /\ Delivered /\ [Next]_vars =>
         [tick = "awaiting" /\ tick' = "waiting" /\ Punctual => Following(active, readings)]_vars
  BY <1>4
<1> QED
  BY <1>1, <1>3, <1>5, PTL DEF Spec, SpeedsFollowReadings

=============================================================================
