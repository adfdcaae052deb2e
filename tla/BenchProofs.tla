---------------------------- MODULE BenchProofs ----------------------------
(***************************************************************************)
(* Theorems about what a benchmark reports, for any scale of units and any *)
(* values: UnitRepr shows a value rightly, and its text fits the buffer;   *)
(* and about the cores it lists, for any machine: the parser of CpuList    *)
(* inverts what the kernel writes and stays inside what was read.          *)
(***************************************************************************)
EXTENDS MCBench, SampleProofs

-----------------------------------------------------------------------------
(* Greatest and least elements *)

\* A nonempty set of naturals with a bound has a greatest element.
LEMMA MaxIs ==
    ASSUME NEW S \in SUBSET Nat, S # {}, NEW b \in Nat, \A x \in S : x <= b
    PROVE  Max(S) \in S /\ \A x \in S : x <= Max(S)
<1> DEFINE T == {n \in Nat : b - n \in S}
<1>1. \A x \in S : x \in Nat /\ b - x \in T
  <2> TAKE x \in S
  <2>1. x \in Nat /\ b - x \in Nat /\ b - (b - x) = x
    OBVIOUS
  <2> QED
    BY <2>1
<1>2. PICK n \in T : \A m \in T : n <= m
  <2>1. T \in SUBSET Nat /\ T # {}
    BY <1>1
  <2> HIDE DEF T
  <2> QED
    BY <2>1, LeastNatural
<1>3. b - n \in S /\ \A x \in S : b - n >= x
  <2>1. \A x \in S : n <= b - x
    BY <1>1, <1>2
  <2> QED
    BY <1>1, <2>1
<1>4. Max(S) \in S /\ \A x \in S : Max(S) >= x
  BY <1>3, Zenon DEF Max
<1> QED
  BY <1>1, <1>4

\* And a least one.
LEMMA MinIs ==
    ASSUME NEW S \in SUBSET Nat, S # {}
    PROVE  Min(S) \in S /\ \A x \in S : Min(S) <= x
<1>1. PICK n \in S : \A x \in S : n <= x
  BY LeastNatural
<1> QED
  BY <1>1, Zenon DEF Min

\* The elements of a sequence of naturals have a bound.
LEMMA SeqIsBounded ==
    ASSUME NEW s \in Seq(Nat)
    PROVE  \E b \in Nat : \A k \in 1..Len(s) : s[k] <= b
<1> DEFINE Bounded(n) == \E b \in Nat : \A k \in 1..n : s[k] <= b
           T == {n \in 0..Len(s) : ~Bounded(n)}
<1>1. Len(s) \in Nat /\ \A k \in 1..Len(s) : s[k] \in Nat
  BY LenProperties, ElementOfSeq
<1>2. ASSUME NEW n \in T, \A m \in T : n <= m PROVE FALSE
  <2>1. n \in 0..Len(s) /\ ~Bounded(n)
    OBVIOUS
  <2> HIDE DEF T
  <2>2. CASE n = 0
    BY <2>1, <2>2
  <2>3. CASE n # 0
    <3>1. n - 1 \in 0..Len(s) /\ n \in 1..Len(s)
      BY <1>1, <2>1, <2>3
    <3>2. Bounded(n - 1)
      <4> HIDE DEF Bounded
      <4> QED
        BY <1>1, <1>2, <3>1 DEF T
    <3>3. PICK b \in Nat : \A k \in 1..(n - 1) : s[k] <= b
      BY <3>2
    <3>4. PICK c \in Nat : c >= b /\ c >= s[n]
      <4>1. PICK x \in Nat : x = s[n]
        BY <1>1, <3>1
      <4>2. b + x \in Nat /\ b + x >= b /\ b + x >= x
        OBVIOUS
      <4> QED
        BY <4>1, <4>2
    <3>5. ASSUME NEW k \in 1..n PROVE s[k] <= c
      <4>1. CASE k = n
        BY <3>4, <4>1
      <4>2. CASE k # n
        <5>1. k \in 1..(n - 1) /\ k \in 1..Len(s)
          BY <1>1, <3>1, <4>2
        <5>2. PICK x \in Nat : x = s[k] /\ x <= b
          BY <1>1, <3>3, <5>1
        <5> QED
          BY <3>4, <5>2
      <4> QED
        BY <4>1, <4>2
    <3> QED
      BY <2>1, <3>5
  <2> QED
    BY <2>2, <2>3
<1>3. T = {}
  <2>1. T \in SUBSET Nat
    OBVIOUS
  <2> HIDE DEF T
  <2> QED
    BY <1>2, <2>1, LeastNatural
<1>4. Bounded(Len(s))
  <2> HIDE DEF Bounded
  <2> QED
    BY <1>1, <1>3
<1> QED
  BY <1>4

-----------------------------------------------------------------------------
(* Units *)

LEMMA ScalesAre ==
    /\ LastUnit \in Nat \ {0}
    /\ \A u \in Units : Scales[u] \in Nat \ {0} /\ Symbols[u] \in Nat
BY ScalesAssumption, LenProperties, ElementOfSeq DEF LastUnit, Units

\* The scales grow.
LEMMA ScalesGrow == \A u, t \in Units : u <= t => Scales[u] <= Scales[t]
<1>1. ASSUME NEW k \in 2..Len(Scales) PROVE Scales[k - 1] <= Scales[k]
  <2>1. k \in Units \ {1} /\ k - 1 \in Units
    BY ScalesAre DEF Units, LastUnit
  <2>2. PICK a \in Nat \ {0}, b \in Nat \ {0} : a = Scales[k - 1] /\ b = Scales[k]
    BY <2>1, ScalesAre
  <2>3. b % a = 0
    BY <2>1, <2>2, ScalesAssumption
  <2>4. ~(b < a)
    BY <2>2, <2>3
  <2> QED
    BY <2>2, <2>4
<1>2. Scales \in Seq(Int)
  BY ScalesAssumption, SeqMonotonic
<1>3. InOrder(Scales)
  BY <1>1, <1>2, StepsAreOrder
<1> QED
  BY <1>3 DEF InOrder, Units

LEMMA RatioIs ==
    ASSUME NEW u \in Units, NEW t \in u..LastUnit
    PROVE  t \in Units /\ Ratio(u, t) \in Nat \ {0} /\ Ratio(u, u) = 1
<1>1. t \in Units /\ u \in Nat /\ u <= t
  BY ScalesAre DEF Units, LastUnit
<1>2. PICK a \in Nat \ {0}, b \in Nat \ {0} : a = Scales[u] /\ b = Scales[t] /\ a <= b
  BY <1>1, ScalesAre, ScalesGrow
<1>3. b \div a \in Nat \ {0} /\ a \div a = 1
  <2>1. b \div a \in Nat /\ a \div a \in Nat
    BY <1>2
  <2>2. b \div a # 0
    BY <1>2
  <2>3. a \div a = 1
    BY <1>2
  <2> QED
    BY <2>1, <2>2, <2>3
<1> QED
  BY <1>1, <1>2, <1>3 DEF Ratio

\* The unit found is filled, and so is each below it; the next one is not.
LEMMA UnitFound ==
    ASSUME NEW v \in Int, NEW u \in Units, NEW t, t = BiggestUnitFit(v, u)
    PROVE  /\ t \in u..LastUnit
           /\ t # u => FillsUnit(v, u, t)
           /\ t # LastUnit => ~FillsUnit(v, u, t + 1)
<1> DEFINE S == {k \in u..LastUnit : \A s \in (u + 1)..k : FillsUnit(v, u, s)}
<1>1. LastUnit \in Nat /\ u \in 1..LastUnit
  BY ScalesAre DEF Units, LastUnit
<1>2. u \in S /\ S \in SUBSET Nat /\ \A k \in S : k <= LastUnit
  BY <1>1
<1>3. t = Max(S)
  BY DEF BiggestUnitFit
<1>4. t \in S /\ \A k \in S : k <= t
  <2> HIDE DEF S
  <2> QED
    BY <1>1, <1>2, <1>3, MaxIs
<1>5. t \in u..LastUnit /\ \A s \in (u + 1)..t : FillsUnit(v, u, s)
  BY <1>4
<1>6. t # LastUnit => ~FillsUnit(v, u, t + 1)
  <2> SUFFICES ASSUME t # LastUnit, FillsUnit(v, u, t + 1) PROVE FALSE
    OBVIOUS
  <2>1. t + 1 \in u..LastUnit /\ ~(t + 1 <= t)
    BY <1>1, <1>5
  <2>2. \A s \in (u + 1)..(t + 1) : s \in (u + 1)..t \/ s = t + 1
    BY <1>1, <1>5
  <2>3. \A s \in (u + 1)..(t + 1) : FillsUnit(v, u, s)
    BY <1>5, <2>2
  <2>4. t + 1 \in S
    BY <2>1, <2>3
  <2> QED
    BY <1>4, <2>1, <2>4
<1>7. t # u => t \in (u + 1)..t
  BY <1>1, <1>5
<1> QED
  BY <1>5, <1>6, <1>7

-----------------------------------------------------------------------------
(* The number shown *)

\* Whole and tenth, for a magnitude m and a ratio r.
LEMMA WholeAndTenth ==
    ASSUME NEW m \in Nat, NEW r \in Nat \ {0}
    PROVE  \E w \in Nat, e \in 0..(r - 1), d \in 0..9 :
              /\ w = m \div r /\ m = r * w + e
              /\ d = ((m % r) * 10) \div r
              /\ r * d <= 10 * e /\ 10 * e < r * d + r
<1>1. PICK w \in Nat, e \in 0..(r - 1) : w = m \div r /\ e = m % r /\ m = r * w + e
  OBVIOUS
<1>2. PICK x \in Nat : x = e * 10
  OBVIOUS
<1>3. PICK d \in Nat, f \in 0..(r - 1) : d = x \div r /\ x = r * d + f
  OBVIOUS
<1>4. d <= 9
  <2> SUFFICES ASSUME d >= 10 PROVE FALSE
    BY <1>3
  <2>1. PICK g \in Nat : d = 10 + g
    <3>1. d - 10 \in Nat /\ d = 10 + (d - 10)
      OBVIOUS
    <3> QED
      BY <3>1
  <2>2. r * d = r * 10 + r * g /\ r * g \in Nat
    BY <2>1
  <2> QED
    BY <1>2, <1>3, <2>2
<1>5. /\ d \in 0..9 /\ d = ((m % r) * 10) \div r
      /\ r * d <= 10 * e /\ 10 * e < r * d + r
  <2>1. PICK y \in Int : y = r * d
    OBVIOUS
  <2>2. y <= 10 * e /\ 10 * e < y + r
    BY <1>2, <1>3, <2>1
  <2> QED
    BY <1>1, <1>2, <1>3, <1>4, <2>1, <2>2
<1> QED
  BY <1>1, <1>5

\* A value v in unit u of a scale is shown as r: its magnitude m is w of the unit
\* shown and e more, d of its tenths are full.
Shown(v, u, r, m, ratio, w, e, d) ==
    /\ m \in Nat /\ ratio \in Nat \ {0} /\ w \in Nat /\ e \in 0..(ratio - 1) /\ d \in 0..9
    /\ m = Magnitude(v) /\ m = ratio * w + e
    /\ ratio * d <= 10 * e /\ 10 * e < ratio * d + ratio
    /\ r.unit = BiggestUnitFit(v, u) /\ r.unit \in u..LastUnit /\ r.unit \in Units
    /\ ratio = Ratio(u, r.unit)
    /\ r.unit = u => ratio = 1
    /\ r.whole = IF v >= 0 THEN w ELSE -w
    /\ r.tenth = IF ratio # 1 /\ w < 10 THEN d ELSE 0

\* The integer types: unsigned, or signed in two's complement.
IntegerTypes == {T \in [min : Int, max : Nat \ {0}] : T.min = 0 \/ T.min = -T.max - 1}

\* The exception: the least value of a signed T is one of a unit, whose ratio is
\* then one more than the greatest value of T.
LeastIsAUnit(T, v, u) == v = T.min /\ \E t \in u..LastUnit : Ratio(u, t) = -T.min

LEMMA CastIs ==
    ASSUME NEW T \in IntegerTypes, NEW n \in Nat, n <= T.max
    PROVE  IntCast(n, T) = n
<1>1. PICK lo \in Int, hi \in Nat : lo = T.min /\ hi = T.max /\ lo <= 0
  BY DEF IntegerTypes
<1>2. PICK k \in Nat : k = n - lo
  <2>1. n - lo \in Nat
    BY <1>1
  <2> QED
    BY <2>1
<1>3. PICK size \in Nat \ {0} : size = hi - lo + 1 /\ k < size
  <2>1. hi - lo + 1 \in Nat \ {0} /\ k < hi - lo + 1
    BY <1>1, <1>2
  <2> QED
    BY <2>1
<1>4. k % size = k
  BY <1>2, <1>3
<1>5. lo + k = n
  BY <1>2
<1> QED
  BY <1>1, <1>2, <1>3, <1>4, <1>5 DEF IntCast

\* The ratio of the unit that is found is a value of T.
LEMMA RatioFits ==
    ASSUME NEW T \in IntegerTypes, NEW v \in T.min..T.max, NEW u \in Units, ~LeastIsAUnit(T, v, u)
    PROVE  CastIsInRange(T, v, u)
<1>1. PICK lo \in Int, hi \in Nat \ {0} : lo = T.min /\ hi = T.max /\ (lo = 0 \/ lo = -hi - 1)
  BY DEF IntegerTypes
<1>2. PICK t : t = BiggestUnitFit(v, u)
  OBVIOUS
<1>3. v \in Int /\ lo <= v /\ v <= hi
  BY <1>1
<1>4. t \in u..LastUnit /\ (t # u => FillsUnit(v, u, t))
  BY <1>2, <1>3, UnitFound
<1>5. PICK ratio \in Nat \ {0} : ratio = Ratio(u, t) /\ (t = u => ratio = 1)
  BY <1>4, RatioIs
<1>6. t # u => v >= ratio \/ v <= -ratio
  BY <1>4, <1>5 DEF FillsUnit
<1>7. ~(v = lo /\ ratio = -lo)
  BY <1>1, <1>4, <1>5 DEF LeastIsAUnit
<1>8. ratio <= hi
  <2>1. CASE t = u
    BY <1>1, <1>5, <2>1
  <2>2. CASE t # u
    BY <1>1, <1>3, <1>5, <1>6, <1>7, <2>2
  <2> QED
    BY <2>1, <2>2
<1>9. ratio \in lo..hi
  BY <1>1, <1>8
<1> QED
  BY <1>1, <1>2, <1>5, <1>9 DEF CastIsInRange

LEMMA FitIs ==
    ASSUME NEW T \in IntegerTypes, NEW v \in T.min..T.max, NEW u \in Units, CastIsInRange(T, v, u)
    PROVE  \E m, ratio, w, e, d : Shown(v, u, Fit(T, v, u), m, ratio, w, e, d)
<1> v \in Int
  BY DEF IntegerTypes
<1>1. PICK t : t = BiggestUnitFit(v, u)
  OBVIOUS
<1>2. t \in u..LastUnit /\ t \in Units
  BY <1>1, UnitFound, RatioIs
<1>3. PICK ratio \in Nat \ {0} : ratio = Ratio(u, t) /\ (t = u => ratio = 1)
  BY <1>2, RatioIs
<1>4. PICK m \in Nat : m = Magnitude(v) /\ (v >= 0 => m = v) /\ (v < 0 => m = -v)
  BY DEF Magnitude
<1>5. PICK w \in Nat, e \in 0..(ratio - 1), d \in 0..9 :
         /\ w = m \div ratio /\ m = ratio * w + e
         /\ d = ((m % ratio) * 10) \div ratio
         /\ ratio * d <= 10 * e /\ 10 * e < ratio * d + ratio
  BY WholeAndTenth
<1>6. PICK q : q = Quotient(v, ratio) /\ q = IF v >= 0 THEN w ELSE -w
  <2>1. w = Magnitude(v) \div Magnitude(ratio)
    <3>1. Magnitude(ratio) = ratio
      BY DEF Magnitude
    <3> QED
      BY <1>4, <1>5, <3>1
  <2>2. ~(ratio < 0)
    OBVIOUS
  <2>3. Quotient(v, ratio) = IF v < 0 <=> ratio < 0 THEN w ELSE -w
    BY <2>1, Zenon DEF Quotient
  <2>4. CASE v >= 0
    <3>1. v < 0 <=> ratio < 0
      BY <2>2, <2>4
    <3> QED
      BY <2>3, <2>4, <3>1
  <2>5. CASE ~(v >= 0)
    <3>1. ~(v < 0 <=> ratio < 0)
      BY <2>2, <2>5
    <3> QED
      BY <2>3, <2>5, <3>1
  <2> QED
    BY <2>4, <2>5
<1>7. (q < 10 /\ q > -10) <=> w < 10
  BY <1>6
<1>8. /\ Fit(T, v, u).unit = t
      /\ Fit(T, v, u).whole = q
      /\ Fit(T, v, u).tenth = IF ratio # 1 /\ q < 10 /\ q > -10 THEN d ELSE 0
  <2>1. IntCast(Ratio(u, BiggestUnitFit(v, u)), T) = ratio
    <3>1. ratio <= T.max
      BY <1>1, <1>3 DEF CastIsInRange, IntegerTypes
    <3> QED
      BY <1>1, <1>3, <3>1, CastIs
  <2>2. d = (((Magnitude(v) % Magnitude(ratio)) * 10) \div ratio)
    <3>1. Magnitude(ratio) = ratio
      BY DEF Magnitude
    <3> QED
      BY <1>4, <1>5, <3>1
  <2> QED
    BY <1>1, <1>3, <1>6, <2>1, <2>2, Zenon DEF Fit
<1>9. Fit(T, v, u).tenth = IF ratio # 1 /\ w < 10 THEN d ELSE 0
  BY <1>7, <1>8
<1>10. Shown(v, u, Fit(T, v, u), m, ratio, w, e, d)
  <2>1. m = ratio * w + e /\ ratio * d <= 10 * e /\ 10 * e < ratio * d + ratio
    BY <1>5
  <2>2. m = Magnitude(v) /\ ratio = Ratio(u, t) /\ (t = u => ratio = 1)
    BY <1>3, <1>4
  <2> QED
    BY <1>1, <1>2, <1>6, <1>8, <1>9, <2>1, <2>2, Zenon DEF Shown
<1> QED
  BY <1>10

\* What is shown is the value, cut off at the last place, in the biggest unit it
\* fills, and the casts are in range: of every value of every integer type, in
\* every unit of every scale, unless it is the least value of a signed type and
\* that is one of a unit; the scales of the repository have no such unit.
THEOREM FitsAreRight ==
    \A T \in IntegerTypes : \A v \in T.min..T.max, u \in Units :
        ~LeastIsAUnit(T, v, u) => FitIsRight(T, v, u)
<1> SUFFICES ASSUME NEW T \in IntegerTypes, NEW v \in T.min..T.max, NEW u \in Units,
                    ~LeastIsAUnit(T, v, u)
             PROVE  FitIsRight(T, v, u)
  OBVIOUS
<1> v \in Int
  BY DEF IntegerTypes
<1>0. CastIsInRange(T, v, u)
  BY RatioFits
<1>1. PICK r : r = Fit(T, v, u)
  OBVIOUS
<1>2. PICK m, ratio, w, e, d : Shown(v, u, r, m, ratio, w, e, d)
  BY <1>0, <1>1, FitIs
<1>3. /\ m \in Nat /\ ratio \in Nat \ {0} /\ w \in Nat /\ e \in 0..(ratio - 1) /\ d \in 0..9
      /\ m = Magnitude(v) /\ ratio = Ratio(u, r.unit)
      /\ r.unit = BiggestUnitFit(v, u) /\ r.unit \in u..LastUnit /\ r.unit \in Units
      /\ r.unit = u => ratio = 1
      /\ r.whole = IF v >= 0 THEN w ELSE -w
      /\ r.tenth = IF ratio # 1 /\ w < 10 THEN d ELSE 0
  BY <1>2 DEF Shown
<1>4. PICK p \in Nat, z \in Nat : p = ratio * w /\ z = ratio * d
  BY <1>3
<1>5. m = p + e /\ z <= 10 * e /\ 10 * e < z + ratio
  BY <1>2, <1>4 DEF Shown
<1>6. /\ v >= 0 => m = v
      /\ v < 0 => m = -v
  BY <1>3 DEF Magnitude
<1>7. Magnitude(r.whole) = w
  BY <1>3 DEF Magnitude
<1>8. PICK x \in 0..9 : x = r.tenth /\ x = IF ratio # 1 /\ w < 10 THEN d ELSE 0
  BY <1>3
\* The tenths shown, in terms of the unit of v.
<1>9. PICK y \in Nat : y = (10 * w + x) * ratio /\ y = 10 * p + (IF ratio # 1 /\ w < 10 THEN z ELSE 0)
  <2>1. (10 * w + x) * ratio = 10 * p + ratio * x
    <3>1. (10 * w + x) * ratio = (10 * w) * ratio + x * ratio
      BY <1>3
    <3>2. (10 * w) * ratio = 10 * (ratio * w) /\ x * ratio = ratio * x
      BY <1>3
    <3> QED
      BY <1>4, <3>1, <3>2
  <2>2. ratio * x = IF ratio # 1 /\ w < 10 THEN z ELSE 0
    <3>1. CASE ratio # 1 /\ w < 10
      BY <1>4, <1>8, <3>1
    <3>2. CASE ~(ratio # 1 /\ w < 10)
      <4>1. x = 0
        BY <1>8, <3>2
      <4> QED
        BY <1>3, <3>2, <4>1
    <3> QED
      BY <3>1, <3>2
  <2> QED
    BY <2>1, <2>2
<1>10. y <= 10 * m
  BY <1>3, <1>5, <1>9
<1>11. ratio # 1 => 10 * m < y + IF w < 10 THEN ratio ELSE 10 * ratio
  BY <1>3, <1>5, <1>9
<1>12. r.unit # u => m >= ratio
  <2>1. r.unit # u => FillsUnit(v, u, r.unit)
    BY <1>3, UnitFound
  <2> QED
    BY <1>3, <1>6, <2>1 DEF FillsUnit
<1>13. ASSUME r.unit # LastUnit PROVE m < Ratio(u, r.unit + 1)
  <2>1. PICK t \in u..LastUnit : t = r.unit + 1
    <3>1. LastUnit \in Nat /\ u \in Nat
      BY ScalesAre DEF Units, LastUnit
    <3>2. PICK k \in u..LastUnit : k = r.unit
      BY <1>3
    <3>3. k + 1 \in u..LastUnit
      BY <1>13, <3>1, <3>2
    <3> QED
      BY <3>2, <3>3
  <2>2. PICK a \in Nat \ {0} : a = Ratio(u, t)
    BY RatioIs
  <2>3. ~FillsUnit(v, u, t)
    BY <1>3, <1>13, <2>1, UnitFound
  <2>4. ~(v >= a \/ v <= -a)
    BY <2>2, <2>3 DEF FillsUnit
  <2>5. m < a
    BY <1>3, <1>6, <2>4
  <2> QED
    BY <2>1, <2>2, <2>5
<1>14. m >= ratio => w >= 1
  <2> SUFFICES ASSUME w = 0 PROVE m < ratio
    BY <1>3
  <2>1. p = 0
    BY <1>3, <1>4
  <2> QED
    BY <1>3, <1>5, <2>1
<1>15. r.unit # u => w >= 1
  BY <1>12, <1>14
<1>16. v # 0 => w >= 1
  <2> SUFFICES ASSUME v # 0 PROVE w >= 1
    OBVIOUS
  <2>1. m >= 1
    BY <1>3, <1>6
  <2>2. CASE r.unit = u
    <3>1. ratio = 1 /\ e = 0
      BY <1>3, <2>2
    <3>2. p = w
      BY <1>3, <1>4, <3>1
    <3> QED
      BY <1>3, <1>5, <2>1, <3>1, <3>2
  <2>3. CASE r.unit # u
    BY <1>15, <2>3
  <2> QED
    BY <2>2, <2>3
<1>17. v # 0 => (r.whole > 0 <=> v > 0) /\ r.whole # 0
  BY <1>3, <1>16
<1>18. r.unit # LastUnit => Magnitude(v) < Ratio(u, r.unit + 1)
  BY <1>3, <1>13
<1> DEFINE place == IF w < 10 THEN ratio ELSE 10 * ratio
<1>19. (10 * Magnitude(r.whole) + r.tenth) * Ratio(u, r.unit) = y
  BY <1>3, <1>7, <1>8, <1>9
<1>20. (IF Magnitude(r.whole) < 10 THEN Ratio(u, r.unit) ELSE 10 * Ratio(u, r.unit)) = place
  BY <1>3, <1>7
<1>21. 10 * Magnitude(v) < y + place \/ Ratio(u, r.unit) = 1
  BY <1>3, <1>11
<1> HIDE DEF place
<1>22. y <= 10 * Magnitude(v) /\ r.tenth \in 0..9 /\ (r.unit # u => Magnitude(r.whole) >= 1)
  BY <1>3, <1>7, <1>8, <1>10, <1>15
<1> QED
  BY <1>0, <1>1, <1>17, <1>18, <1>19, <1>20, <1>21, <1>22, Zenon DEF FitIsRight

-----------------------------------------------------------------------------
(* Digits *)

\* d counts the digits of the numbers up to n.
CountsDigits(n, d) ==
    /\ d \in [0..n -> Nat \ {0}]
    /\ \A m \in 0..n : d[m] = IF m < 10 THEN 1 ELSE d[m \div 10] + 1

LEMMA TenthOf ==
    ASSUME NEW m \in Nat, m >= 10
    PROVE  m \div 10 \in 0..(m - 1)
OBVIOUS

LEMMA DigitsExist ==
    ASSUME NEW n \in Nat
    PROVE  \E d : CountsDigits(n, d)
<1> DEFINE T == {m \in Nat : ~ \E d : CountsDigits(m, d)}
<1> SUFFICES ASSUME T # {} PROVE FALSE
  OBVIOUS
<1>1. PICK m \in T : \A k \in T : m <= k
  <2>1. T \in SUBSET Nat
    OBVIOUS
  <2> QED
    BY <2>1, LeastNatural
<1>2. m \in Nat /\ ~ \E d : CountsDigits(m, d)
  OBVIOUS
<1>3. CASE m = 0
  <2>1. CountsDigits(0, [k \in 0..0 |-> 1])
    BY DEF CountsDigits
  <2> QED
    BY <1>2, <1>3, <2>1
<1>4. CASE m # 0
  <2>1. m - 1 \in Nat /\ m - 1 \notin T
    BY <1>1, <1>2, <1>4
  <2>2. PICK d : CountsDigits(m - 1, d)
    BY <2>1
  <2> HIDE DEF T
  <2> DEFINE e == [k \in 0..m |-> IF k < m THEN d[k] ELSE IF m < 10 THEN 1 ELSE d[m \div 10] + 1]
  <2>3. \A k \in 0..(m - 1) : e[k] = d[k] /\ d[k] \in Nat \ {0}
    BY <1>2, <2>2 DEF CountsDigits
  <2>4. e[m] = (IF m < 10 THEN 1 ELSE d[m \div 10] + 1)
    BY <1>2
  <2>5. m >= 10 => m \div 10 \in 0..(m - 1)
    BY <1>2, TenthOf
  <2>6. e \in [0..m -> Nat \ {0}]
    <3>1. m >= 10 => d[m \div 10] \in Nat \ {0}
      BY <2>3, <2>5
    <3>2. e = [k \in 0..m |-> e[k]]
      OBVIOUS
    <3> HIDE DEF e
    <3>3. e[m] \in Nat \ {0}
      BY <1>2, <2>4, <3>1
    <3>4. ASSUME NEW k \in 0..m PROVE e[k] \in Nat \ {0}
      <4>1. k = m \/ k \in 0..(m - 1)
        BY <1>2
      <4> QED
        BY <2>3, <3>3, <4>1
    <3> QED
      BY <3>2, <3>4
  <2> HIDE DEF e
  <2>7. ASSUME NEW k \in 0..m PROVE e[k] = IF k < 10 THEN 1 ELSE e[k \div 10] + 1
    <3>1. CASE k = m
      BY <1>2, <2>3, <2>4, <2>5, <3>1
    <3>2. CASE k # m
      <4>1. k \in 0..(m - 1) /\ k \in Nat
        BY <1>2, <3>2
      <4>2. k >= 10 => k \div 10 \in 0..(m - 1)
        <5>1. k >= 10 => k \div 10 \in 0..(k - 1)
          BY <4>1, TenthOf
        <5> QED
          BY <1>2, <4>1, <5>1
      <4>3. d[k] = IF k < 10 THEN 1 ELSE d[k \div 10] + 1
        BY <2>2, <4>1 DEF CountsDigits
      <4> QED
        BY <2>3, <4>1, <4>2, <4>3
    <3> QED
      BY <3>1, <3>2
  <2>8. CountsDigits(m, e)
    BY <2>6, <2>7 DEF CountsDigits
  <2> QED
    BY <1>2, <2>8
<1> QED
  BY <1>3, <1>4

\* How many digits a number has does not depend on how far is counted.
LEMMA DigitsAgree ==
    ASSUME NEW n \in Nat, NEW k \in Nat, n <= k, NEW d, NEW e,
           CountsDigits(n, d), CountsDigits(k, e)
    PROVE  \A m \in 0..n : d[m] = e[m]
<1> DEFINE T == {m \in 0..n : d[m] # e[m]}
<1> SUFFICES ASSUME T # {} PROVE FALSE
  OBVIOUS
<1>1. PICK m \in T : \A x \in T : m <= x
  <2>1. T \in SUBSET Nat
    OBVIOUS
  <2> QED
    BY <2>1, LeastNatural
<1>2. m \in 0..n /\ m \in 0..k /\ m \in Nat /\ d[m] # e[m]
  OBVIOUS
<1>3. /\ d[m] = IF m < 10 THEN 1 ELSE d[m \div 10] + 1
      /\ e[m] = IF m < 10 THEN 1 ELSE e[m \div 10] + 1
  BY <1>2 DEF CountsDigits
<1>4. m >= 10
  BY <1>2, <1>3
<1>5. m \div 10 \in 0..n /\ ~(m <= m \div 10)
  <2>1. m \div 10 \in 0..(m - 1)
    BY <1>2, <1>4, TenthOf
  <2> QED
    BY <1>2, <2>1
<1>6. d[m \div 10] = e[m \div 10]
  BY <1>1, <1>5
<1> QED
  BY <1>2, <1>3, <1>6

\* The digits of n.
LEMMA DigitsAre ==
    ASSUME NEW n \in Nat
    PROVE  /\ Digits(n) \in Nat \ {0}
           /\ Digits(n) = IF n < 10 THEN 1 ELSE Digits(n \div 10) + 1
<1>1. ASSUME NEW k \in Nat
      PROVE  \E d : CountsDigits(k, d) /\ d[k] = Digits(k)
  <2> DEFINE F(d) == [m \in 0..k |-> IF m < 10 THEN 1 ELSE d[m \div 10] + 1]
  <2>1. PICK f : CountsDigits(k, f)
    BY DigitsExist
  <2>2. f = F(f)
    BY <2>1 DEF CountsDigits
  <2> DEFINE d == CHOOSE x : x = F(x)
  <2>3. Digits(k) = d[k]
    BY DEF Digits
  <2>4. d = F(d)
    <3> HIDE DEF F
    <3> QED
      BY <2>2, Zenon
  <2> HIDE DEF d
  <2>5. \A m \in 0..k : d[m] = IF m < 10 THEN 1 ELSE d[m \div 10] + 1
    BY <2>4
  <2>6. \A m \in 0..k : d[m] = f[m]
    <3> DEFINE T == {m \in 0..k : d[m] # f[m]}
    <3> SUFFICES ASSUME T # {} PROVE FALSE
      OBVIOUS
    <3>1. PICK m \in T : \A x \in T : m <= x
      <4>1. T \in SUBSET Nat
        OBVIOUS
      <4> QED
        BY <4>1, LeastNatural
    <3>2. m \in 0..k /\ m \in Nat /\ d[m] # f[m]
      OBVIOUS
    <3>3. /\ d[m] = IF m < 10 THEN 1 ELSE d[m \div 10] + 1
          /\ f[m] = IF m < 10 THEN 1 ELSE f[m \div 10] + 1
      BY <2>1, <2>5, <3>2 DEF CountsDigits
    <3>4. m >= 10
      BY <3>2, <3>3
    <3>5. m \div 10 \in 0..k /\ ~(m <= m \div 10)
      <4>1. m \div 10 \in 0..(m - 1)
        BY <3>2, <3>4, TenthOf
      <4> QED
        BY <3>2, <4>1
    <3>6. d[m \div 10] = f[m \div 10]
      BY <3>1, <3>5
    <3> QED
      BY <3>2, <3>3, <3>6
  <2>7. k \in 0..k
    OBVIOUS
  <2> QED
    BY <2>1, <2>3, <2>6, <2>7
<1>2. PICK d : CountsDigits(n, d) /\ d[n] = Digits(n)
  BY <1>1
<1>3. n \in 0..n /\ d[n] \in Nat \ {0} /\ d[n] = IF n < 10 THEN 1 ELSE d[n \div 10] + 1
  BY <1>2 DEF CountsDigits
<1>4. ASSUME n >= 10 PROVE d[n \div 10] = Digits(n \div 10)
  <2>1. PICK k \in 0..(n - 1) : k = n \div 10
    BY <1>4, TenthOf
  <2>2. k \in Nat /\ k <= n /\ k \in 0..k
    BY <2>1
  <2>3. PICK e : CountsDigits(k, e) /\ e[k] = Digits(k)
    BY <1>1, <2>2
  <2>4. \A m \in 0..k : e[m] = d[m]
    BY <1>2, <2>2, <2>3, DigitsAgree
  <2> QED
    BY <2>1, <2>2, <2>3, <2>4
<1> QED
  BY <1>2, <1>3, <1>4

\* A smaller number has no more digits.
LEMMA DigitsGrow ==
    ASSUME NEW a \in Nat, NEW b \in Nat, a <= b
    PROVE  Digits(a) <= Digits(b)
<1> DEFINE T == {n \in Nat : \E k \in Nat : k <= n /\ ~(Digits(k) <= Digits(n))}
<1> SUFFICES ASSUME T # {} PROVE FALSE
  OBVIOUS
<1>1. PICK n \in T : \A x \in T : n <= x
  <2>1. T \in SUBSET Nat
    OBVIOUS
  <2> HIDE DEF T
  <2> QED
    BY <2>1, LeastNatural
<1>2. PICK k \in Nat : k <= n /\ ~(Digits(k) <= Digits(n))
  OBVIOUS
<1>3. n \in Nat
  OBVIOUS
<1>4. PICK x \in Nat \ {0}, y \in Nat \ {0} : x = Digits(k) /\ y = Digits(n)
  BY <1>3, DigitsAre
<1>5. k >= 10 /\ n >= 10
  <2>1. k < 10 => x = 1
    BY <1>4, DigitsAre
  <2> QED
    BY <1>2, <1>3, <1>4, <2>1
<1>6. PICK p \in 0..(k - 1) : p = k \div 10
  BY <1>5, TenthOf
<1>7. PICK q \in 0..(n - 1) : q = n \div 10
  BY <1>3, <1>5, TenthOf
<1>8. p \in Nat /\ q \in Nat /\ p <= q /\ ~(n <= q)
  BY <1>2, <1>3, <1>6, <1>7
<1>9. q \notin T
  <2> HIDE DEF T
  <2> QED
    BY <1>1, <1>8
<1>10. Digits(p) <= Digits(q)
  BY <1>8, <1>9
<1>11. x = Digits(p) + 1 /\ y = Digits(q) + 1
  <2>1. ~(k < 10) /\ ~(n < 10)
    BY <1>3, <1>5
  <2> QED
    BY <1>3, <1>4, <1>6, <1>7, <2>1, DigitsAre
<1>12. Digits(p) \in Nat /\ Digits(q) \in Nat
  BY <1>8, DigitsAre
<1> QED
  BY <1>2, <1>4, <1>10, <1>11, <1>12

-----------------------------------------------------------------------------
(* The text *)

\* The room REPR_MAX_LEN makes for the symbol is enough for each.
LEMMA LongestSymbol ==
    ASSUME NEW u \in Units
    PROVE  /\ Max({Symbols[t] : t \in Units}) \in Nat
           /\ Symbols[u] <= Max({Symbols[t] : t \in Units})
<1> DEFINE S == {Symbols[t] : t \in Units}
<1>1. S \in SUBSET Nat /\ Symbols[u] \in S
  BY ScalesAre
<1>2. PICK b \in Nat : \A k \in 1..Len(Symbols) : Symbols[k] <= b
  BY ScalesAssumption, SeqIsBounded
<1>3. \A x \in S : x <= b
  BY <1>2, ScalesAssumption DEF Units
<1> HIDE DEF S
<1>4. Max(S) \in S /\ \A x \in S : x <= Max(S)
  BY <1>1, <1>3, MaxIs
<1> QED
  BY <1>1, <1>4 DEF S

\* An integer type whose values have no more digits than its greatest one, which
\* has at least three: those of 8, 16, 32 and 64 bits are such types.
DigitsSuffice(T) == Digits(-T.min) <= Digits(T.max) /\ Digits(T.max) >= 3

LEMMA ValueDigits ==
    ASSUME NEW T \in IntegerTypes, DigitsSuffice(T), NEW v \in T.min..T.max
    PROVE  /\ Digits10(T) \in Nat \ {0, 1}
           /\ Digits(Magnitude(v)) <= Digits10(T) + 1
<1>1. PICK lo \in Int, hi \in Nat : lo = T.min /\ hi = T.max /\ lo <= 0
  BY DEF IntegerTypes
<1>2. v \in lo..hi
  BY <1>1
<1>3. PICK digits10 \in Nat \ {0, 1} : digits10 = Digits10(T) /\ Digits(hi) = digits10 + 1
  <2>1. PICK k \in Nat : k = Digits(hi)
    BY DigitsAre
  <2>2. k >= 3
    BY <1>1, <2>1 DEF DigitsSuffice
  <2>3. k - 1 \in Nat \ {0, 1} /\ k = (k - 1) + 1
    BY <2>1, <2>2
  <2> QED
    BY <1>1, <2>1, <2>3 DEF Digits10
<1>4. Digits(Magnitude(v)) <= digits10 + 1
  <2>1. CASE v >= 0
    <3>1. v \in Nat /\ v <= hi /\ Magnitude(v) = v
      BY <1>2, <2>1 DEF Magnitude
    <3> QED
      BY <1>3, <3>1, DigitsGrow
  <2>2. CASE ~(v >= 0)
    <3>1. PICK x \in Nat, y \in Nat : x = -v /\ y = -lo /\ x <= y /\ Magnitude(v) = x
      <4>1. -v \in Nat /\ -lo \in Nat /\ -v <= -lo
        BY <1>1, <1>2, <2>2
      <4> QED
        BY <1>2, <2>2, <4>1 DEF Magnitude
    <3>2. Digits(x) <= Digits(y)
      BY <3>1, DigitsGrow
    <3>3. Digits(y) <= Digits(hi)
      BY <1>1, <3>1 DEF DigitsSuffice
    <3>4. Digits(x) \in Nat /\ Digits(y) \in Nat
      BY <3>1, DigitsAre
    <3> QED
      BY <1>3, <3>1, <3>2, <3>3, <3>4
  <2> QED
    BY <2>1, <2>2
<1> QED
  BY <1>3, <1>4

\* The text of a value fits the buffer, whatever its unit and the unit shown: of
\* every value of every integer type, with the exception of FitsAreRight.
THEOREM TextsFit ==
    \A T \in IntegerTypes : DigitsSuffice(T) =>
        \A v \in T.min..T.max, u \in Units : ~LeastIsAUnit(T, v, u) => TextFits(T, v, u)
<1> SUFFICES ASSUME NEW T \in IntegerTypes, DigitsSuffice(T), NEW v \in T.min..T.max,
                    NEW u \in Units, ~LeastIsAUnit(T, v, u)
             PROVE  TextFits(T, v, u)
  OBVIOUS
<1> v \in Int
  BY DEF IntegerTypes
<1>0. PICK digits10 \in Nat \ {0, 1} :
         digits10 = Digits10(T) /\ Digits(Magnitude(v)) <= digits10 + 1
  BY ValueDigits
<1>1. PICK r : r = Fit(T, v, u)
  OBVIOUS
<1>2. PICK m, ratio, w, e, d : Shown(v, u, r, m, ratio, w, e, d)
  BY <1>1, FitIs, RatioFits
<1>3. /\ m \in Nat /\ ratio \in Nat \ {0} /\ w \in Nat /\ e \in 0..(ratio - 1) /\ d \in 0..9
      /\ m = Magnitude(v) /\ r.unit \in Units
      /\ r.whole = IF v >= 0 THEN w ELSE -w
      /\ r.tenth = IF ratio # 1 /\ w < 10 THEN d ELSE 0
  BY <1>2 DEF Shown
<1>4. w <= m
  <2>1. PICK g \in Nat : ratio = 1 + g
    <3>1. ratio - 1 \in Nat /\ ratio = 1 + (ratio - 1)
      BY <1>3
    <3> QED
      BY <3>1
  <2>2. PICK p \in Nat, y \in Nat : p = ratio * w /\ y = g * w /\ p = w + y
    BY <1>3, <2>1
  <2>3. m = p + e
    BY <1>2, <2>2 DEF Shown
  <2> QED
    BY <1>3, <2>2, <2>3
<1>5. Magnitude(r.whole) = w /\ (r.whole < 0 => v < 0)
  BY <1>3 DEF Magnitude
<1>6. PICK n \in Nat \ {0} : n = Digits(w) /\ n <= digits10 + 1 /\ (w < 10 => n = 1)
  <2>1. PICK n \in Nat \ {0}, k \in Nat \ {0} : n = Digits(w) /\ k = Digits(m)
    BY <1>3, DigitsAre
  <2>2. n <= k
    BY <1>3, <1>4, <2>1, DigitsGrow
  <2>3. k <= digits10 + 1
    BY <1>0, <1>3, <2>1
  <2>4. w < 10 => n = 1
    BY <1>3, <2>1, DigitsAre
  <2> QED
    BY <2>1, <2>2, <2>3, <2>4
<1>7. PICK x \in Nat, y \in Nat : x = Symbols[r.unit] /\ y = Max({Symbols[t] : t \in Units}) /\ x <= y
  BY <1>3, ScalesAre, LongestSymbol
<1>8. r.tenth # 0 => w < 10
  BY <1>3
<1>9. PICK sign \in 0..1 : sign = IF r.whole < 0 THEN 1 ELSE 0
  OBVIOUS
<1>10. PICK decimal \in {0, 2} : decimal = IF r.tenth # 0 THEN 2 ELSE 0
  OBVIOUS
<1>11. decimal = 2 => n = 1
  BY <1>6, <1>8, <1>10
<1>12. (sign + n) + decimal + 1 + x <= digits10 + 1 + 1 + 1 + y
  BY <1>6, <1>7, <1>9, <1>10, <1>11
<1>13. ReprMaxLen(T) = digits10 + 1 + 1 + 1 + y
  BY <1>0, <1>7 DEF ReprMaxLen
<1>14. Write(r, ReprMaxLen(T)) = (sign + n) + decimal + 1 + x
  BY <1>5, <1>6, <1>7, <1>9, <1>10, <1>12, <1>13 DEF Write
<1>15. (sign + n) + decimal + 1 + x # BufferTooSmall
  BY <1>6, <1>7, <1>9, <1>10 DEF BufferTooSmall
<1> QED
  BY <1>1, <1>14, <1>15 DEF TextFits

-----------------------------------------------------------------------------
(* What is reported *)

\* The sum of values of lo..hi.
LEMMA SumBounds ==
    ASSUME NEW lo \in Int, NEW hi \in Int, NEW s \in Seq(lo..hi), NEW n \in Nat, n = Len(s)
    PROVE  Sum(s) \in Int /\ n * lo <= Sum(s) /\ Sum(s) <= n * hi
<1>1. PICK f : f = Sums(s)
  OBVIOUS
<1>2. f[0] = 0 /\ f \in [0..n -> Int] /\ \A k \in 1..n : f[k] = f[k - 1] + s[k]
  <2>1. s \in Seq(Int)
    BY SeqMonotonic
  <2> QED
    BY <1>1, <2>1, SumsAre DEF SumsUpTo, Adds
<1>3. \A k \in 1..n : s[k] \in lo..hi
  BY ElementOfSeq
<1> DEFINE T == {k \in 0..n : ~(k * lo <= f[k] /\ f[k] <= k * hi)}
<1>4. T = {}
  <2> SUFFICES ASSUME T # {} PROVE FALSE
    OBVIOUS
  <2>1. PICK k \in T : \A x \in T : k <= x
    <3>1. T \in SUBSET Nat
      OBVIOUS
    <3> HIDE DEF T
    <3> QED
      BY <3>1, LeastNatural
  <2>2. k \in 0..n /\ ~(k * lo <= f[k] /\ f[k] <= k * hi)
    OBVIOUS
  <2>3. k # 0
    <3>1. 0 * lo = 0 /\ 0 * hi = 0
      OBVIOUS
    <3> QED
      BY <1>2, <2>2, <3>1
  <2>4. PICK j \in 0..n : k = j + 1
    <3>1. k - 1 \in 0..n /\ k = (k - 1) + 1
      BY <2>2, <2>3
    <3> QED
      BY <3>1
  <2>5. j \notin T
    <3>1. ~(k <= j)
      BY <2>4
    <3> HIDE DEF T
    <3> QED
      BY <2>1, <3>1
  <2>6. j * lo <= f[j] /\ f[j] <= j * hi
    BY <2>5
  <2> HIDE DEF T
  <2>7. k \in 1..n /\ k - 1 = j
    BY <2>2, <2>4
  <2>8. PICK x \in Int, y \in lo..hi : x = f[j] /\ y = s[k] /\ f[k] = x + y
    BY <1>2, <1>3, <2>7
  <2>9. k * lo = j * lo + lo /\ k * hi = j * hi + hi
    BY <2>4
  <2>10. PICK a \in Int, b \in Int : a = j * lo /\ b = j * hi
    OBVIOUS
  <2>11. a <= x /\ x <= b /\ k * lo = a + lo /\ k * hi = b + hi
    BY <2>6, <2>8, <2>9, <2>10
  <2>12. k * lo <= f[k] /\ f[k] <= k * hi
    <3>1. /\ a <= x /\ x <= b /\ lo <= y /\ y <= hi
          /\ a \in Int /\ b \in Int /\ x \in Int /\ y \in Int
      BY <2>8, <2>10, <2>11
    <3>2. a + lo <= x + y /\ x + y <= b + hi
      BY <3>1
    <3> QED
      BY <2>8, <2>11, <3>2
  <2> QED
    BY <2>2, <2>12
<1>5. n \in 0..n /\ Sum(s) = f[n]
  BY <1>1 DEF Sum
<1> HIDE DEF T
<1>6. n * lo <= f[n] /\ f[n] <= n * hi
  <2>1. n \notin {k \in 0..n : ~(k * lo <= f[k] /\ f[k] <= k * hi)}
    BY <1>4 DEF T
  <2> QED
    BY <1>5, <2>1
<1> QED
  BY <1>2, <1>5, <1>6

\* A mean lies between the extremes.
LEMMA MeanInside ==
    ASSUME NEW lo \in Int, NEW hi \in Nat, lo <= 0, NEW n \in Nat \ {0}, NEW v \in Int,
           n * lo <= v, v <= n * hi
    PROVE  TruncDiv(v, n) \in lo..hi
<1>1. ASSUME NEW x \in Nat, NEW b \in Nat, x <= n * b PROVE x \div n \in 0..b
  <2>1. PICK q \in Nat, e \in 0..(n - 1) : q = x \div n /\ x = n * q + e
    OBVIOUS
  <2>2. q <= b
    <3> SUFFICES ASSUME ~(q <= b) PROVE FALSE
      OBVIOUS
    <3>1. PICK g \in Nat : q = b + 1 + g
      <4>1. q - b - 1 \in Nat /\ q = b + 1 + (q - b - 1)
        BY <2>1
      <4> QED
        BY <4>1
    <3>2. n * q = n * b + n + n * g /\ n * g \in Nat
      BY <3>1
    <3> QED
      BY <1>1, <2>1, <3>2
  <2> QED
    BY <2>1, <2>2
<1>2. CASE v >= 0
  <2>1. v \div n \in 0..hi
    BY <1>1, <1>2
  <2> QED
    BY <1>2, <2>1 DEF TruncDiv
<1>3. CASE ~(v >= 0)
  <2>1. PICK x \in Nat, b \in Nat : x = -v /\ b = -lo
    <3>1. -v \in Nat /\ -lo \in Nat
      BY <1>3
    <3> QED
      BY <3>1
  <2>2. x <= n * b
    <3>1. lo = -b /\ n * lo = -(n * b)
      BY <2>1
    <3> QED
      BY <2>1, <3>1
  <2>3. PICK q \in 0..b : q = x \div n
    BY <1>1, <2>2
  <2>4. TruncDiv(v, n) = -q
    BY <1>3, <2>1, <2>3 DEF TruncDiv
  <2> QED
    BY <2>1, <2>3, <2>4
<1> QED
  BY <1>2, <1>3

\* The types and the scale of a benchmark: no two values wrap when they are added,
\* C has room for the sum of a full buffer, and the least value of T is not one of
\* a unit.
ReportTypes ==
    /\ TIsNarrow
    /\ Size <= CMax /\ CMin <= Size * TMin /\ Size * TMax <= CMax
    /\ TRange \in IntegerTypes /\ DigitsSuffice(TRange)
    /\ CRange \in IntegerTypes /\ DigitsSuffice(CRange)
    /\ \A u \in Units : \A t \in u..LastUnit : Ratio(u, t) # -TMin

\* The sum of what was pushed fits C.
LEMMA MeanIsReported ==
    ASSUME IInv, ReportTypes, count > 0
    PROVE  Avg \in TMin..TMax
<1>1. PICK lo \in Int, hi \in Nat, N \in Nat, c \in Int, d \in Int :
         /\ lo = TMin /\ hi = TMax /\ N = Size /\ c = CMin /\ d = CMax
         /\ lo <= 0 /\ c <= lo
  BY TypesAssumption, SizesAssumption
<1>2. /\ pushed \in Seq(lo..hi) /\ Len(pushed) <= N /\ count = Len(pushed)
      /\ Values \subseteq lo..hi
  <2>1. pushed \in Seq(Values) /\ Values \subseteq lo..hi
    BY <1>1, TypesAre DEF IInv, BufferOK
  <2> QED
    BY <1>1, <2>1, SeqMonotonic DEF IInv, BufferOK, SummaryIsExact
<1>3. PICK n \in Nat \ {0} : n = Len(pushed) /\ n <= N
  <2>1. Len(pushed) \in Nat
    BY <1>2, LenProperties
  <2> QED
    BY <1>2, <2>1
<1>4. PICK v \in Int : v = Sum(pushed) /\ n * lo <= v /\ v <= n * hi
  <2>1. pushed \in Seq(lo..hi) /\ n = Len(pushed) /\ n \in Nat /\ lo \in Int /\ hi \in Int
    BY <1>1, <1>2, <1>3
  <2>2. Sum(pushed) \in Int /\ n * lo <= Sum(pushed) /\ Sum(pushed) <= n * hi
    BY <2>1, SumBounds, Zenon
  <2> QED
    BY <2>2
<1>5. N * lo <= n * lo /\ n * hi <= N * hi
  <2>1. PICK g \in Nat : N = n + g
    <3>1. N - n \in Nat /\ N = n + (N - n)
      BY <1>3
    <3> QED
      BY <3>1
  <2>2. N * lo = n * lo + g * lo /\ N * hi = n * hi + g * hi
    BY <2>1
  <2>3. g * lo <= 0 /\ g * hi >= 0
    BY <1>1
  <2>4. PICK x \in Int, y \in Int, z \in Int, w \in Int :
           x = g * lo /\ y = g * hi /\ z = n * lo /\ w = n * hi
    BY <1>1
  <2> QED
    BY <2>2, <2>3, <2>4
<1>6. c <= N * lo /\ N * hi <= d /\ N <= d
  BY <1>1 DEF ReportTypes
<1>7. v \in c..d /\ n \in c..d
  <2>1. PICK x \in Int, y \in Int, z \in Int, w \in Int :
           x = N * lo /\ y = N * hi /\ z = n * lo /\ w = n * hi
    BY <1>1
  <2>2. c <= v /\ v <= d
    BY <1>4, <1>5, <1>6, <2>1
  <2> QED
    BY <1>1, <1>3, <1>6, <2>2
<1>8. Avg = TruncDiv(v, n)
  <2>1. AvgRecovers
    BY MeanFollows DEF ReportTypes
  <2> QED
    BY <1>1, <1>3, <1>4, <1>7, <2>1 DEF AvgRecovers, MeanOfPushed
<1>9. TruncDiv(v, n) \in lo..hi
  BY <1>1, <1>4, MeanInside
<1> QED
  BY <1>1, <1>8, <1>9

\* Every statistic that is shown as a T is one.
LEMMA StatisticsAre ==
    ASSUME IInv, count > 0
    PROVE  Statistics \subseteq TMin..TMax
<1>1. min \in TMin..TMax /\ max \in TMin..TMax
  BY DEF IInv, FreshOK
<1>2. ASSUME NEW k \in 0..PercentileSteps PROVE Percentile(k) \in TMin..TMax
  <2>1. samples \in Seq(Values) /\ Values \subseteq TMin..TMax /\ Values \subseteq Int
    BY TypesAre DEF IInv, BufferOK
  <2>2. PICK t : t = Sorted /\ t \in Seq(Values) /\ Len(t) = Len(samples)
    <3>1. Ascending(samples) \in Seq(Values) /\ Len(Ascending(samples)) = Len(samples)
      BY <2>1, AscendingIs DEF Rearranges
    <3> QED
      BY <2>1, <3>1 DEF Sorted
  <2>3. PICK n \in Nat \ {0} : n = count /\ n = Len(t)
    BY <2>1, <2>2, LenProperties DEF count
  <2>4. PICK m \in 0..(n - 1) : m = PercentileIndex(k)
    <3>1. (k * (n - 1)) \div PercentileSteps \in 0..(n - 1)
      <4>1. n - 1 \in Nat
        BY <2>3
      <4> QED
        BY <4>1, IndexInside
    <3> QED
      BY <2>3, <3>1 DEF PercentileIndex
  <2>5. m + 1 \in 1..Len(t)
    BY <2>3, <2>4
  <2>6. t[m + 1] \in Values
    BY <2>2, <2>5, ElementOfSeq
  <2> QED
    BY <2>1, <2>2, <2>4, <2>6 DEF Percentile
<1> QED
  BY <1>1, <1>2 DEF Statistics

\* The mean, a value of T, is one of C and not the exception of FitsAreRight.
LEMMA MeanIsInC ==
    ASSUME ReportTypes, NEW v \in TMin..TMax, NEW u \in Units
    PROVE  v \in CMin..CMax /\ ~LeastIsAUnit(CRange, v, u)
<1>1. PICK lo \in Int, hi \in Nat, c \in Int, d \in Nat :
         /\ lo = TMin /\ hi = TMax /\ c = CMin /\ d = CMax
         /\ c <= lo /\ lo <= 0 /\ 2 * (hi - lo + 1) <= d - c + 1
  BY TypesAssumption
<1>2. /\ c = 0 \/ c = -d - 1
      /\ lo = 0 \/ lo = -hi - 1
  BY <1>1 DEF ReportTypes, IntegerTypes, TRange, CRange
<1>3. hi <= d
  BY <1>1, <1>2
<1>4. v \in CMin..CMax
  BY <1>1, <1>3
<1>5. ASSUME LeastIsAUnit(CRange, v, u) PROVE FALSE
  <2>1. PICK t \in u..LastUnit : v = CMin /\ Ratio(u, t) = -CMin
    BY <1>5 DEF LeastIsAUnit, CRange
  <2>2. -c \in Nat \ {0}
    BY <1>1, <2>1, RatioIs
  <2>3. v = c /\ v \in lo..hi
    BY <1>1, <2>1
  <2>4. lo = c /\ d = hi
    BY <1>1, <1>2, <2>2, <2>3
  <2> QED
    BY <1>1, <1>2, <2>2, <2>4
<1> QED
  BY <1>4, <1>5

LEMMA ReportFollows ==
    ASSUME IInv, ReportTypes
    PROVE  ReportIsRight
<1> SUFFICES ASSUME count > 0
             PROVE  ShownRight(CRange, Avg) /\ \A v \in Statistics : ShownRight(TRange, v)
  BY DEF ReportIsRight
<1>1. ASSUME NEW T \in IntegerTypes, DigitsSuffice(T), NEW v \in T.min..T.max,
             \A u \in Units : ~LeastIsAUnit(T, v, u)
      PROVE  ShownRight(T, v)
  BY <1>1, FitsAreRight, TextsFit, Zenon DEF ShownRight
<1>2. ShownRight(CRange, Avg)
  <2>0. 1 \in Units
    BY ScalesAre DEF Units, LastUnit
  <2>1. Avg \in TMin..TMax
    BY MeanIsReported
  <2>2. CRange.min = CMin /\ CRange.max = CMax
    BY DEF CRange
  <2>3. Avg \in CRange.min..CRange.max
    BY <2>1, <2>2, <2>0, MeanIsInC
  <2>4. \A u \in Units : ~LeastIsAUnit(CRange, Avg, u)
    BY <2>1, MeanIsInC
  <2>5. CRange \in IntegerTypes /\ DigitsSuffice(CRange)
    BY DEF ReportTypes
  <2> QED
    BY <1>1, <2>3, <2>4, <2>5
<1>3. ASSUME NEW v \in Statistics PROVE ShownRight(TRange, v)
  <2>1. TRange.min = TMin /\ TRange.max = TMax
    BY DEF TRange
  <2>2. v \in TRange.min..TRange.max
    BY <2>1, StatisticsAre
  <2>3. \A u \in Units : ~LeastIsAUnit(TRange, v, u)
    BY <2>1 DEF ReportTypes, LeastIsAUnit
  <2>4. TRange \in IntegerTypes /\ DigitsSuffice(TRange)
    BY DEF ReportTypes
  <2> QED
    BY <1>1, <2>2, <2>3, <2>4
<1> QED
  BY <1>2, <1>3

\* A behaviour of a benchmark is one of a Sample: listing the cores does not touch it.
LEMMA BenchIsSample == MCSpec => Spec
<1>1. MCInit => Init
  BY DEF MCInit
<1>2. [MCNext]_<<vars, listVars>> => [Next]_vars
  BY DEF MCNext
<1> QED
  BY <1>1, <1>2, PTL DEF MCSpec, Spec

\* Everything a benchmark reports of its samples is shown rightly, in the biggest
\* unit it fills, without a cast out of range, and its text fits the buffer: for
\* any number of samples and any T narrower than int, of any scale none of whose
\* ratios is one more than the greatest value of a signed T (ReportTypes).
THEOREM ReportsAreRight == ReportTypes => (MCSpec => []ReportIsRight)
<1> SUFFICES ASSUME ReportTypes PROVE MCSpec => []ReportIsRight
  OBVIOUS
<1>1. IInv => ReportIsRight
  BY ReportFollows
<1> QED
  BY <1>1, BenchIsSample, Invariant, PTL

-----------------------------------------------------------------------------
(* The parser of lists of CPUs *)

LEMMA RangeIs ==
    ASSUME NEW lo \in Nat, NEW hi \in Nat
    PROVE  /\ RangeOf(lo, hi) \in Seq(Nat) /\ RangeOf(lo, hi) # <<>>
           /\ Len(RangeOf(lo, hi)) = IF hi > lo THEN hi - lo + 1 ELSE 1
           /\ \A k \in 1..Len(RangeOf(lo, hi)) : RangeOf(lo, hi)[k] = lo + k - 1
<1>1. PICK n \in Nat \ {0} : n = IF hi > lo THEN hi - lo + 1 ELSE 1
  <2>1. (IF hi > lo THEN hi - lo + 1 ELSE 1) \in Nat \ {0}
    OBVIOUS
  <2> QED
    BY <2>1
<1>2. PICK s : s = RangeOf(lo, hi) /\ s = [k \in 1..n |-> lo + k - 1]
  BY <1>1 DEF RangeOf
<1>3. s \in [1..n -> Nat]
  BY <1>2
<1>4. s \in Seq(Nat)
  BY <1>3, SeqDef
<1>5. Len(s) = n
  BY <1>3, <1>4, LenProperties
<1>6. s # <<>>
  BY <1>4, <1>5
<1> QED
  BY <1>1, <1>2, <1>4, <1>5, <1>6

\* The item at a place, and the comma it goes up to.
ItemGoesTo(content, it, comma) ==
    /\ comma \in it..(Len(content) + 1)
    /\ comma # Len(content) + 1 => content[comma] = COMMA
    /\ \A p \in it..(comma - 1) : content[p] # COMMA
    /\ LET number == it < comma /\ IsNumber(content[it])
           range == it + 1 < comma /\ content[it + 1] = DASH
           upTo == it + 2 < comma /\ IsNumber(content[it + 2])
       IN  ItemAt(content, it) =
              IF ~number \/ (range /\ ~upTo) THEN [cpus |-> <<>>, next |-> it]
              ELSE IF range THEN [cpus |-> RangeOf(content[it], content[it + 2]), next |-> it + 4]
              ELSE [cpus |-> <<content[it]>>, next |-> it + 2]

LEMMA ItemIs ==
    ASSUME NEW content \in Seq(Int), NEW it \in 1..Len(content)
    PROVE  \E comma : ItemGoesTo(content, it, comma)
<1> DEFINE C == {p \in it..Len(content) : content[p] = COMMA}
<1>1. PICK n \in Nat : n = Len(content) /\ it \in 1..n
  BY LenProperties
<1>2. C \cup {n + 1} \in SUBSET Nat /\ C \cup {n + 1} # {}
  BY <1>1
<1>3. PICK comma : comma = Min(C \cup {n + 1})
  OBVIOUS
<1>4. comma \in C \cup {n + 1} /\ \A p \in C \cup {n + 1} : comma <= p
  <2> HIDE DEF C
  <2> QED
    BY <1>2, <1>3, MinIs
<1>5. comma \in it..(n + 1) /\ (comma # n + 1 => content[comma] = COMMA)
  BY <1>1, <1>4
<1>6. ASSUME NEW p \in it..(comma - 1) PROVE content[p] # COMMA
  <2> SUFFICES ASSUME content[p] = COMMA PROVE FALSE
    OBVIOUS
  <2>1. p \in C /\ ~(comma <= p)
    BY <1>1, <1>5
  <2> QED
    BY <1>4, <2>1
<1>7. ItemAt(content, it) =
        LET number == it < comma /\ IsNumber(content[it])
            range == it + 1 < comma /\ content[it + 1] = DASH
            upTo == it + 2 < comma /\ IsNumber(content[it + 2])
        IN  IF ~number \/ (range /\ ~upTo) THEN [cpus |-> <<>>, next |-> it]
            ELSE IF range THEN [cpus |-> RangeOf(content[it], content[it + 2]), next |-> it + 4]
            ELSE [cpus |-> <<content[it]>>, next |-> it + 2]
  BY <1>1, <1>3, Zenon DEF ItemAt
<1> QED
  BY <1>1, <1>5, <1>6, <1>7, Zenon DEF ItemGoesTo

\* What is read at a place, from what is read behind it.
ReadAt(content, f, it) ==
    LET end == Len(content) + 1
    IN  IF it > end THEN [why |-> "overrun", siblings |-> <<>>]
        ELSE IF it = end THEN [why |-> Ending(content), siblings |-> <<>>]
        ELSE IF ItemAt(content, it).cpus = <<>> THEN [why |-> "MalformedFile", siblings |-> <<>>]
        ELSE [why |-> f[ItemAt(content, it).next].why,
              siblings |-> ItemAt(content, it).cpus \o f[ItemAt(content, it).next].siblings]

\* An item that is understood names CPUs, and the next one is behind it.
LEMMA ItemMoves ==
    ASSUME NEW content \in Seq(Int), NEW it \in 1..Len(content),
           ItemAt(content, it).cpus # <<>>
    PROVE  /\ ItemAt(content, it).next \in (it + 2)..(Len(content) + 2)
           /\ ItemAt(content, it).cpus \in Seq(Nat)
           /\ ItemAt(content, it).next = Len(content) + 2 => IsNumber(content[Len(content)])
<1>1. PICK n \in Nat : n = Len(content) /\ it \in 1..n /\ \A p \in 1..n : content[p] \in Int
  BY LenProperties, ElementOfSeq
<1>2. PICK comma : ItemGoesTo(content, it, comma)
  BY ItemIs
<1>3. comma \in it..(n + 1)
  BY <1>1, <1>2 DEF ItemGoesTo
<1>4. CASE /\ it < comma /\ IsNumber(content[it])
           /\ ~(it + 1 < comma /\ content[it + 1] = DASH)
  <2>1. ItemAt(content, it) = [cpus |-> <<content[it]>>, next |-> it + 2]
    BY <1>2, <1>4 DEF ItemGoesTo
  <2>2. content[it] \in Nat
    BY <1>1, <1>4 DEF IsNumber
  <2>3. it + 2 \in (it + 2)..(n + 2)
    BY <1>1
  <2>4. it + 2 = n + 2 => it = n
    BY <1>1
  <2> QED
    BY <1>1, <1>4, <2>1, <2>2, <2>3, <2>4
<1>5. CASE /\ it < comma /\ IsNumber(content[it])
           /\ it + 1 < comma /\ content[it + 1] = DASH
           /\ it + 2 < comma /\ IsNumber(content[it + 2])
  <2>1. ItemAt(content, it) = [cpus |-> RangeOf(content[it], content[it + 2]), next |-> it + 4]
    BY <1>2, <1>5 DEF ItemGoesTo
  <2>2. it + 2 \in 1..n
    BY <1>1, <1>3, <1>5
  <2>3. content[it] \in Nat /\ content[it + 2] \in Nat
    BY <1>1, <1>5, <2>2 DEF IsNumber
  <2>4. RangeOf(content[it], content[it + 2]) \in Seq(Nat)
    BY <2>3, RangeIs
  <2>5. it + 4 \in (it + 2)..(n + 2) /\ (it + 4 = n + 2 => it + 2 = n)
    BY <1>1, <1>3, <1>5, <2>2
  <2> QED
    BY <1>1, <1>5, <2>1, <2>4, <2>5
<1>6. CASE \/ ~(it < comma /\ IsNumber(content[it]))
           \/ /\ it + 1 < comma /\ content[it + 1] = DASH
              /\ ~(it + 2 < comma /\ IsNumber(content[it + 2]))
  <2>1. ItemAt(content, it) = [cpus |-> <<>>, next |-> it]
    BY <1>2, <1>6 DEF ItemGoesTo
  <2> QED
    BY <2>1
<1> QED
  BY <1>4, <1>5, <1>6

\* What is read at a place depends only on what is read behind it.
LEMMA ReadsAhead ==
    ASSUME NEW content \in Seq(Int), NEW it \in 1..(Len(content) + 2), NEW f, NEW g,
           \A k \in (it + 1)..(Len(content) + 2) : f[k] = g[k]
    PROVE  ReadAt(content, f, it) = ReadAt(content, g, it)
<1>1. PICK n \in Nat : n = Len(content)
  BY LenProperties
<1>2. CASE it \in 1..n /\ ItemAt(content, it).cpus # <<>>
  <2>1. PICK k : k = ItemAt(content, it).next /\ k \in (it + 2)..(n + 2)
    BY <1>1, <1>2, ItemMoves
  <2>2. f[k] = g[k]
    BY <1>1, <1>2, <2>1
  <2> QED
    BY <1>1, <2>1, <2>2, Zenon DEF ReadAt
<1>3. CASE it \in 1..n /\ ItemAt(content, it).cpus = <<>>
  BY <1>1, <1>3 DEF ReadAt
<1>4. CASE it \notin 1..n
  <2>1. it > Len(content) + 1 \/ it = Len(content) + 1
    BY <1>1, <1>4
  <2> QED
    BY <2>1, Zenon DEF ReadAt
<1> QED
  BY <1>2, <1>3, <1>4

\* There is one thing that is read from each place on.
LEMMA ParseIs ==
    ASSUME NEW content \in Seq(Int)
    PROVE  \A it \in 1..(Len(content) + 2) :
              ParseFrom(content)[it] = ReadAt(content, ParseFrom(content), it)
<1>1. PICK n \in Nat : n = Len(content)
  BY LenProperties
<1> DEFINE Reads(m, f) == f = [it \in (n + 2 - m)..(n + 2) |-> ReadAt(content, f, it)]
           T == {m \in 0..(n + 1) : ~ \E f : Reads(m, f)}
<1>2. T = {}
  <2> SUFFICES ASSUME T # {} PROVE FALSE
    OBVIOUS
  <2>1. PICK m \in T : \A x \in T : m <= x
    <3>1. T \in SUBSET Nat
      OBVIOUS
    <3> HIDE DEF T
    <3> QED
      BY <3>1, LeastNatural
  <2>2. m \in 0..(n + 1) /\ ~ \E f : Reads(m, f)
    OBVIOUS
  <2>3. PICK first \in 1..(n + 2) : first = n + 2 - m
    <3>1. n + 2 - m \in 1..(n + 2)
      BY <1>1, <2>2
    <3> QED
      BY <3>1
  <2>4. \E f : \A it \in (first + 1)..(n + 2) : f[it] = ReadAt(content, f, it)
    <3>1. CASE m = 0
      BY <1>1, <2>3, <3>1
    <3>2. CASE m # 0
      <4>1. m - 1 \in 0..(n + 1) /\ ~(m <= m - 1) /\ n + 2 - (m - 1) = first + 1
        BY <1>1, <2>2, <2>3, <3>2
      <4>2. m - 1 \notin T
        <5> HIDE DEF T
        <5> QED
          BY <2>1, <4>1
      <4>3. PICK f : Reads(m - 1, f)
        BY <4>1, <4>2
      <4>4. f = [it \in (first + 1)..(n + 2) |-> ReadAt(content, f, it)]
        BY <4>1, <4>3
      <4> QED
        BY <4>4, Zenon
    <3> QED
      BY <3>1, <3>2
  <2>5. PICK f : \A it \in (first + 1)..(n + 2) : f[it] = ReadAt(content, f, it)
    BY <2>4
  <2> DEFINE g == [it \in first..(n + 2) |-> IF it = first THEN ReadAt(content, f, it) ELSE f[it]]
  <2>6. ASSUME NEW it \in first..(n + 2) PROVE g[it] = ReadAt(content, g, it)
    <3>1. it \in 1..(n + 2) /\ (it # first => it \in (first + 1)..(n + 2))
      BY <1>1, <2>3
    <3>2. g[it] = ReadAt(content, f, it)
      BY <2>5, <3>1
    <3>3. \A k \in (it + 1)..(n + 2) : k \in first..(n + 2) /\ k # first
      BY <1>1, <2>3
    <3>4. \A k \in (it + 1)..(n + 2) : f[k] = g[k]
      BY <3>3
    <3> HIDE DEF g
    <3>5. ReadAt(content, f, it) = ReadAt(content, g, it)
      BY <1>1, <3>1, <3>4, ReadsAhead
    <3> QED
      BY <3>2, <3>5
  <2>7. g = [it \in first..(n + 2) |-> g[it]]
    OBVIOUS
  <2> HIDE DEF g
  <2>8. g = [it \in first..(n + 2) |-> ReadAt(content, g, it)]
    BY <2>6, <2>7
  <2>9. Reads(m, g)
    BY <2>3, <2>8
  <2> QED
    BY <2>2, <2>9
<1>3. n + 1 \in 0..(n + 1) /\ n + 2 - (n + 1) = 1
  BY <1>1
<1>4. PICK h : Reads(n + 1, h)
  <2> HIDE DEF Reads
  <2> QED
    BY <1>2, <1>3
<1> DEFINE F(f) == [it \in 1..(n + 2) |-> ReadAt(content, f, it)]
<1>5. h = F(h)
  BY <1>3, <1>4
<1>6. ParseFrom(content) = CHOOSE f : f = F(f)
  <2>1. Len(content) + 1 + 1 = n + 2
    BY <1>1
  <2>2. ParseFrom(content) = CHOOSE f : f = [it \in 1..(Len(content) + 1 + 1) |-> ReadAt(content, f, it)]
    BY DEF ParseFrom, ReadAt
  <2> QED
    BY <2>1, <2>2
<1>7. ParseFrom(content) = F(ParseFrom(content))
  <2> HIDE DEF F
  <2> QED
    BY <1>5, <1>6, Zenon
<1> QED
  BY <1>1, <1>7

\* Behind a first sequence that is not empty there is a sequence.
LEMMA JoinIs ==
    ASSUME NEW S, NEW s \in Seq(S), NEW t \in Seq(S), s # <<>>
    PROVE  s \o t \in Seq(S) /\ s \o t # <<>>
<1>1. Len(s) \in Nat /\ Len(t) \in Nat /\ Len(s) # 0
  BY LenProperties, EmptySeq
<1>2. s \o t \in Seq(S) /\ Len(s \o t) = Len(s) + Len(t)
  BY ConcatProperties
<1> QED
  BY <1>1, <1>2

\* From no place of a content is anything behind its end read unless it ends in a
\* number, and what is accepted ends in a newline and names a CPU.
LEMMA ReadsInside ==
    ASSUME NEW content \in Seq(Int), NEW n \in Nat \ {0}, n = Len(content),
           NEW f, f = ParseFrom(content)
    PROVE  \A it \in 1..(n + 2) :
              /\ f[it].siblings \in Seq(Nat)
              /\ it <= n + 1 /\ f[it].why = "overrun" => IsNumber(content[n])
              /\ f[it].why = "parsed" => content[n] = NEWLINE /\ (it <= n => f[it].siblings # <<>>)
<1> DEFINE Good(it) ==
              /\ f[it].siblings \in Seq(Nat)
              /\ it <= n + 1 /\ f[it].why = "overrun" => IsNumber(content[n])
              /\ f[it].why = "parsed" => content[n] = NEWLINE /\ (it <= n => f[it].siblings # <<>>)
           T == {m \in 0..(n + 1) : ~Good(n + 2 - m)}
<1>1. T = {}
  <2> SUFFICES ASSUME T # {} PROVE FALSE
    OBVIOUS
  <2>1. PICK m \in T : \A x \in T : m <= x
    <3>1. T \in SUBSET Nat
      OBVIOUS
    <3> HIDE DEF T
    <3> QED
      BY <3>1, LeastNatural
  <2>2. m \in 0..(n + 1) /\ ~Good(n + 2 - m)
    OBVIOUS
  <2>3. PICK it \in 1..(n + 2) : it = n + 2 - m
    <3>1. n + 2 - m \in 1..(n + 2)
      BY <2>2
    <3> QED
      BY <3>1
  <2> HIDE DEF T
  <2>4. f[it] = ReadAt(content, f, it)
    BY <2>3, ParseIs
  <2>5. CASE it = n + 2
    <3>1. f[it] = [why |-> "overrun", siblings |-> <<>>]
      BY <2>4, <2>5 DEF ReadAt
    <3>2. Good(it)
      BY <2>5, <3>1
    <3> QED
      BY <2>2, <2>3, <3>2
  <2>6. CASE it = n + 1
    <3>1. f[it] = [why |-> Ending(content), siblings |-> <<>>]
      BY <2>4, <2>6 DEF ReadAt
    <3>2. Ending(content) = IF content[n] = NEWLINE THEN "parsed" ELSE "MalformedFile"
      BY DEF Ending
    <3>3. Good(it)
      BY <2>6, <3>1, <3>2
    <3> QED
      BY <2>2, <2>3, <3>3
  <2>7. CASE it \in 1..n /\ ItemAt(content, it).cpus = <<>>
    <3>1. f[it] = [why |-> "MalformedFile", siblings |-> <<>>]
      BY <2>4, <2>7 DEF ReadAt
    <3>2. Good(it)
      BY <2>7, <3>1
    <3> QED
      BY <2>2, <2>3, <3>2
  <2>8. CASE it \in 1..n /\ ItemAt(content, it).cpus # <<>>
    <3>1. PICK k, cpus : /\ k = ItemAt(content, it).next /\ cpus = ItemAt(content, it).cpus
                         /\ k \in (it + 2)..(n + 2) /\ cpus \in Seq(Nat) /\ cpus # <<>>
                         /\ k = n + 2 => IsNumber(content[n])
      BY <2>8, ItemMoves
    <3>2. f[it] = [why |-> f[k].why, siblings |-> cpus \o f[k].siblings]
      <4>1. ~(it > Len(content) + 1) /\ it # Len(content) + 1
        BY <2>8
      <4> QED
        BY <2>4, <2>8, <3>1, <4>1, Zenon DEF ReadAt
    <3>3. PICK x \in 0..(n + 1) : x = n + 2 - k /\ ~(m <= x) /\ k = n + 2 - x
      <4>1. PICK j \in Nat : j = m /\ it = n + 2 - j
        BY <2>2, <2>3
      <4>2. PICK l \in Nat : l = k /\ l >= it + 2 /\ l <= n + 2
        BY <3>1
      <4>3. PICK x \in Int : x = n + 2 - l
        OBVIOUS
      <4>4. l = n + 2 - x
        BY <4>3
      <4>5. x >= 0 /\ x <= n + 1
        BY <2>3, <4>2, <4>3
      <4>6. ~(j <= x)
        BY <4>1, <4>2, <4>3
      <4>7. x \in 0..(n + 1)
        BY <4>3, <4>5
      <4>8. x = n + 2 - k /\ ~(m <= x) /\ k = n + 2 - x
        BY <4>1, <4>2, <4>3, <4>4, <4>6
      <4> QED
        BY <4>7, <4>8, Zenon
    <3>4. x \notin T
      BY <2>1, <3>3
    <3>5. Good(k)
      <4>1. Good(n + 2 - x)
        BY <3>3, <3>4 DEF T
      <4> HIDE DEF Good
      <4> QED
        BY <3>3, <4>1
    <3>6. f[it].why = f[k].why /\ f[it].siblings \in Seq(Nat) /\ f[it].siblings # <<>>
      BY <3>1, <3>2, <3>5, JoinIs
    <3>7. k <= n + 1 \/ IsNumber(content[n])
      <4>1. PICK l \in (it + 2)..(n + 2) : l = k
        BY <3>1
      <4>2. l # n + 2 => l <= n + 1
        OBVIOUS
      <4> QED
        BY <3>1, <4>1, <4>2
    <3>8. Good(it)
      BY <2>8, <3>5, <3>6, <3>7
    <3> QED
      BY <2>2, <2>3, <3>8
  <2>9. it \in 1..n \/ it = n + 1 \/ it = n + 2
    BY <2>3
  <2> QED
    BY <2>5, <2>6, <2>7, <2>8, <2>9
<1> HIDE DEF Good
<1>2. ASSUME NEW it \in 1..(n + 2) PROVE Good(it)
  <2>1. PICK m \in 0..(n + 1) : it = n + 2 - m
    <3>1. n + 2 - it \in 0..(n + 1) /\ it = n + 2 - (n + 2 - it)
      OBVIOUS
    <3> QED
      BY <3>1
  <2>2. Good(n + 2 - m)
    BY <1>1 DEF T
  <2> QED
    BY <2>1, <2>2
<1> QED
  BY <1>2 DEF Good

\* Whatever was read of a file, however much: the parser looks behind the end of
\* it only if it ends in a number, so never if it ends in a newline; what is
\* accepted names a CPU and ends in a newline.  It is a theorem of what is read:
\* of a file of more than 64 bytes that is only the beginning, which may be cut
\* behind a digit.
THEOREM ParserIsInside ==
    \A content \in Seq(Int) : content # <<>> =>
        /\ Parse(content).why = "overrun" => IsNumber(content[Len(content)])
        /\ Parse(content).why = "parsed" =>
              Parse(content).siblings # <<>> /\ content[Len(content)] = NEWLINE
<1> SUFFICES ASSUME NEW content \in Seq(Int), content # <<>>
             PROVE  /\ Parse(content).why = "overrun" => IsNumber(content[Len(content)])
                    /\ Parse(content).why = "parsed" =>
                          Parse(content).siblings # <<>> /\ content[Len(content)] = NEWLINE
  OBVIOUS
<1>1. PICK n \in Nat \ {0} : n = Len(content)
  BY LenProperties, EmptySeq
<1>2. PICK f : f = ParseFrom(content)
  OBVIOUS
<1>3. 1 \in 1..(n + 2) /\ 1 <= n + 1 /\ 1 <= n
  OBVIOUS
<1>4. /\ f[1].why = "overrun" => IsNumber(content[n])
      /\ f[1].why = "parsed" => content[n] = NEWLINE /\ f[1].siblings # <<>>
  <2>1. \A it \in 1..(n + 2) :
           /\ it <= n + 1 /\ f[it].why = "overrun" => IsNumber(content[n])
           /\ f[it].why = "parsed" => content[n] = NEWLINE /\ (it <= n => f[it].siblings # <<>>)
    BY <1>1, <1>2, ReadsInside
  <2> QED
    BY <1>3, <2>1
<1>5. Parse(content) = f[1]
  BY <1>2 DEF Parse
<1> QED
  BY <1>1, <1>4, <1>5

LEMMA ContentsAreInside == ParserStaysInside
<1> SUFFICES ASSUME NEW c \in Contents
             PROVE  /\ Parse(c).why = "overrun" => IsNumber(Last(c))
                    /\ Parse(c).why = "parsed" => Parse(c).siblings # <<>> /\ Last(c) = NEWLINE
  BY DEF ParserStaysInside
<1>1. PICK n \in 1..MaxContent : c \in [1..n -> {0, 2, COMMA, DASH, NEWLINE}]
  BY DEF Contents
<1>2. n \in Nat /\ n >= 1
  OBVIOUS
<1>3. c \in [1..n -> Int]
  BY <1>1 DEF COMMA, DASH, NEWLINE
<1>4. c \in Seq(Int)
  BY <1>2, <1>3, SeqDef
<1>5. c # <<>>
  BY <1>2, <1>3, <1>4, LenProperties
<1> QED
  BY <1>4, <1>5, ParserIsInside DEF Last

-----------------------------------------------------------------------------
(* What the kernel writes *)

\* Where a run ends.
LEMMA RunEndIs ==
    ASSUME NEW cpus \in SUBSET Nat, NEW last \in cpus, \A c \in cpus : c <= last,
           NEW a \in cpus, NEW e, e = RunEnd(cpus, a)
    PROVE  /\ e \in cpus /\ a <= e /\ e <= last /\ e + 1 \notin cpus
           /\ \A c \in a..e : c \in cpus
<1> DEFINE S == {b \in cpus : b >= a /\ b + 1 \notin cpus}
<1>1. S \in SUBSET Nat /\ last \in S
  <2>1. last \in Nat /\ a <= last /\ ~(last + 1 <= last)
    OBVIOUS
  <2> QED
    BY <2>1
<1>2. e = Min(S)
  BY DEF RunEnd
<1>3. e \in S /\ \A b \in S : e <= b
  <2> HIDE DEF S
  <2> QED
    BY <1>1, <1>2, MinIs
<1>4. e \in cpus /\ a <= e /\ e <= last /\ e + 1 \notin cpus
  BY <1>3
<1> DEFINE T == {c \in a..e : c \notin cpus}
<1>5. T = {}
  <2> SUFFICES ASSUME T # {} PROVE FALSE
    OBVIOUS
  <2>1. PICK c \in T : \A x \in T : c <= x
    <3>1. T \in SUBSET Nat
      OBVIOUS
    <3> HIDE DEF T
    <3> QED
      BY <3>1, LeastNatural
  <2>2. c \in a..e /\ c \notin cpus /\ c # a
    OBVIOUS
  <2>3. c - 1 \in a..e /\ ~(c <= c - 1) /\ (c - 1) + 1 = c /\ ~(e <= c - 1)
    <3>1. PICK x \in Nat, y \in Nat : x = a /\ y = e
      BY <1>4
    <3>2. PICK z \in x..y : z = c /\ z # x
      BY <2>2, <3>1
    <3>3. z - 1 \in x..y /\ ~(z <= z - 1) /\ (z - 1) + 1 = z /\ ~(y <= z - 1)
      BY <3>1, <3>2
    <3> QED
      BY <3>1, <3>2, <3>3
  <2>4. c - 1 \in cpus
    <3>1. c - 1 \notin T
      <4> HIDE DEF T
      <4> QED
        BY <2>1, <2>3
    <3> QED
      BY <2>3, <3>1
  <2>5. c - 1 \in S
    BY <2>2, <2>3, <2>4
  <2> HIDE DEF S, T
  <2> QED
    BY <1>3, <2>3, <2>5
<1> QED
  BY <1>4, <1>5

\* What is behind the run that begins at a: the end of the line, or a comma and the
\* runs from the end of this one on.
Behind(cpus, f, a) ==
    IF RunEnd(cpus, a) = Max(cpus) THEN <<NEWLINE>> ELSE <<COMMA>> \o f[RunEnd(cpus, a) + 1]

TextAt(cpus, f, a) ==
    IF a \notin cpus THEN f[a + 1] ELSE Run(cpus, a) \o Behind(cpus, f, a)

\* The greatest CPU of a set that has one.
IsLast(cpus, last) ==
    cpus \in SUBSET Nat /\ last \in cpus /\ (\A c \in cpus : c <= last) /\ last = Max(cpus)

\* A text depends only on those of the CPUs behind it.
LEMMA TextsAhead ==
    ASSUME NEW cpus, NEW last, IsLast(cpus, last), NEW a \in 0..last, NEW f, NEW g,
           \A k \in (a + 1)..last : f[k] = g[k]
    PROVE  TextAt(cpus, f, a) = TextAt(cpus, g, a)
<1>1. /\ last \in Nat /\ cpus \in SUBSET Nat /\ last \in cpus
      /\ \A c \in cpus : c <= last
      /\ last = Max(cpus)
  BY DEF IsLast
<1>2. CASE a \notin cpus
  <2>1. a + 1 \in (a + 1)..last
    <3>1. a # last
      BY <1>1, <1>2
    <3> QED
      BY <1>1, <3>1
  <2> QED
    BY <1>2, <2>1 DEF TextAt
<1>3. CASE a \in cpus
  <2>1. PICK e : e = RunEnd(cpus, a)
    OBVIOUS
  <2>2. e \in Nat /\ a <= e /\ e <= last
    BY <1>1, <1>3, <2>1, RunEndIs
  <2>3. e # last => f[e + 1] = g[e + 1]
    <3>1. e # last => e + 1 \in (a + 1)..last
      BY <1>1, <2>2
    <3> QED
      BY <3>1
  <2>4. Behind(cpus, f, a) = Behind(cpus, g, a)
    BY <1>1, <2>1, <2>3, Zenon DEF Behind
  <2> QED
    BY <1>3, <2>4, Zenon DEF TextAt
<1> QED
  BY <1>2, <1>3

\* There is one text of the CPUs from each on.
LEMMA TextsAre ==
    ASSUME NEW cpus, NEW last, IsLast(cpus, last)
    PROVE  \A a \in 0..last : KernelTexts(cpus)[a] = TextAt(cpus, KernelTexts(cpus), a)
<1>1. last \in Nat /\ last = Max(cpus)
  BY DEF IsLast
<1> DEFINE Writes(m, f) == f = [a \in (last - m)..last |-> TextAt(cpus, f, a)]
           T == {m \in 0..last : ~ \E f : Writes(m, f)}
<1>2. T = {}
  <2> SUFFICES ASSUME T # {} PROVE FALSE
    OBVIOUS
  <2>1. PICK m \in T : \A x \in T : m <= x
    <3>1. T \in SUBSET Nat
      OBVIOUS
    <3> HIDE DEF T
    <3> QED
      BY <3>1, LeastNatural
  <2>2. m \in 0..last /\ ~ \E f : Writes(m, f)
    OBVIOUS
  <2>3. PICK first \in 0..last : first = last - m
    <3>1. last - m \in 0..last
      BY <1>1, <2>2
    <3> QED
      BY <3>1
  <2>4. \E f : \A a \in (first + 1)..last : f[a] = TextAt(cpus, f, a)
    <3>1. CASE m = 0
      BY <1>1, <2>3, <3>1
    <3>2. CASE m # 0
      <4>1. m - 1 \in 0..last /\ ~(m <= m - 1) /\ last - (m - 1) = first + 1
        BY <1>1, <2>2, <2>3, <3>2
      <4>2. m - 1 \notin T
        <5> HIDE DEF T
        <5> QED
          BY <2>1, <4>1
      <4>3. PICK f : Writes(m - 1, f)
        BY <4>1, <4>2
      <4>4. f = [a \in (first + 1)..last |-> TextAt(cpus, f, a)]
        BY <4>1, <4>3
      <4> QED
        BY <4>4, Zenon
    <3> QED
      BY <3>1, <3>2
  <2>5. PICK f : \A a \in (first + 1)..last : f[a] = TextAt(cpus, f, a)
    BY <2>4
  <2> DEFINE g == [a \in first..last |-> IF a = first THEN TextAt(cpus, f, a) ELSE f[a]]
  <2>6. ASSUME NEW a \in first..last PROVE g[a] = TextAt(cpus, g, a)
    <3>1. a \in 0..last /\ (a # first => a \in (first + 1)..last)
      BY <1>1, <2>3
    <3>2. g[a] = TextAt(cpus, f, a)
      BY <2>5, <3>1
    <3>3. \A k \in (a + 1)..last : k \in first..last /\ k # first
      BY <1>1, <2>3
    <3>4. \A k \in (a + 1)..last : f[k] = g[k]
      BY <3>3
    <3> HIDE DEF g
    <3>5. TextAt(cpus, f, a) = TextAt(cpus, g, a)
      BY <3>1, <3>4, TextsAhead
    <3> QED
      BY <3>2, <3>5
  <2>7. g = [a \in first..last |-> g[a]]
    OBVIOUS
  <2> HIDE DEF g
  <2>8. g = [a \in first..last |-> TextAt(cpus, g, a)]
    BY <2>6, <2>7
  <2>9. Writes(m, g)
    BY <2>3, <2>8
  <2> QED
    BY <2>2, <2>9
<1>3. last \in 0..last /\ last - last = 0
  BY <1>1
<1>4. PICK h : Writes(last, h)
  <2> HIDE DEF Writes
  <2> QED
    BY <1>2, <1>3
<1> DEFINE F(f) == [a \in 0..last |-> TextAt(cpus, f, a)]
<1>5. h = F(h)
  BY <1>3, <1>4
<1>6. KernelTexts(cpus) = CHOOSE f : f = F(f)
  BY <1>1, Zenon DEF KernelTexts, TextAt, Behind
<1>7. KernelTexts(cpus) = F(KernelTexts(cpus))
  <2> HIDE DEF F
  <2> QED
    BY <1>5, <1>6, Zenon
<1> QED
  BY <1>7

LEMMA RunEnds ==
    ASSUME NEW cpus, NEW last, IsLast(cpus, last), NEW a, a \in cpus, NEW e, e = RunEnd(cpus, a)
    PROVE  /\ a \in Nat /\ e \in Nat /\ last \in Nat /\ e \in cpus
           /\ a <= e /\ e <= last /\ e + 1 \notin cpus
           /\ \A c \in a..e : c \in cpus
<1>1. cpus \in SUBSET Nat /\ last \in cpus /\ \A c \in cpus : c <= last
  BY DEF IsLast
<1>2. /\ e \in cpus /\ a <= e /\ e <= last /\ e + 1 \notin cpus
      /\ \A c \in a..e : c \in cpus
  BY <1>1, RunEndIs
<1> QED
  BY <1>1, <1>2

LEMMA RunIs ==
    ASSUME NEW cpus, NEW last, IsLast(cpus, last), NEW a \in cpus
    PROVE  Run(cpus, a) \in Seq(Int)
<1>1. RunEnd(cpus, a) \in Nat /\ a \in Nat
  BY RunEnds
<1> QED
  BY <1>1 DEF Run, DASH

\* What is behind a run that ends at e: one separator and the text behind that.
Parts(cpus, last, f, a, e, c, u) ==
    /\ e = RunEnd(cpus, a)
    /\ c \in Int /\ u \in Seq(Int)
    /\ Behind(cpus, f, a) = <<c>> \o u
    /\ c = IF e = last THEN NEWLINE ELSE COMMA
    /\ u = IF e = last THEN <<>> ELSE f[e + 1]

LEMMA BehindIs ==
    ASSUME NEW cpus, NEW last, IsLast(cpus, last), NEW a, a \in cpus, NEW f,
           NEW e, e = RunEnd(cpus, a), e # last => f[e + 1] \in Seq(Int)
    PROVE  \E c, u : Parts(cpus, last, f, a, e, c, u)
<1>1. last = Max(cpus)
  BY DEF IsLast
<1>2. CASE e = last
  <2>1. <<NEWLINE>> \in Seq(Int) /\ NEWLINE \in Int
    BY DEF NEWLINE
  <2>2. <<NEWLINE>> \o <<>> = <<NEWLINE>> /\ <<>> \in Seq(Int)
    BY <2>1, ConcatEmptySeq, EmptySeq
  <2>3. Behind(cpus, f, a) = <<NEWLINE>>
    BY <1>1, <1>2, Zenon DEF Behind
  <2> QED
    BY <1>2, <2>1, <2>2, <2>3, Zenon DEF Parts
<1>3. CASE e # last
  <2>1. Behind(cpus, f, a) = <<COMMA>> \o f[e + 1]
    BY <1>1, <1>3, Zenon DEF Behind
  <2>2. COMMA \in Int
    BY DEF COMMA
  <2> QED
    BY <1>3, <2>1, <2>2, Zenon DEF Parts
<1> QED
  BY <1>2, <1>3

LEMMA TextsTyped ==
    ASSUME NEW cpus, NEW last, IsLast(cpus, last), NEW f, f = KernelTexts(cpus)
    PROVE  \A a \in 0..last : f[a] \in Seq(Int)
<1>1. last \in Nat /\ last \in cpus /\ cpus \in SUBSET Nat
  BY DEF IsLast
<1> DEFINE T == {m \in 0..last : f[last - m] \notin Seq(Int)}
<1>2. T = {}
  <2> SUFFICES ASSUME T # {} PROVE FALSE
    OBVIOUS
  <2>1. PICK m \in T : \A x \in T : m <= x
    <3>1. T \in SUBSET Nat
      OBVIOUS
    <3> HIDE DEF T
    <3> QED
      BY <3>1, LeastNatural
  <2>2. m \in 0..last /\ f[last - m] \notin Seq(Int)
    OBVIOUS
  <2>3. PICK a \in 0..last : a = last - m
    <3>1. last - m \in 0..last
      BY <1>1, <2>2
    <3> QED
      BY <3>1
  <2>4. \A b \in (a + 1)..last : f[b] \in Seq(Int)
    <3> TAKE b \in (a + 1)..last
    <3>1. PICK x \in 0..last : x = last - b /\ ~(m <= x) /\ last - x = b
      <4>1. last - b \in 0..last /\ ~(m <= last - b) /\ last - (last - b) = b
        BY <1>1, <2>2, <2>3
      <4> QED
        BY <4>1
    <3>2. x \notin T
      <4> HIDE DEF T
      <4> QED
        BY <2>1, <3>1
    <3> QED
      BY <3>1, <3>2
  <2> HIDE DEF T
  <2>5. f[a] = TextAt(cpus, f, a)
    BY TextsAre
  <2>6. CASE a \notin cpus
    <3>1. a + 1 \in (a + 1)..last
      <4>1. a # last
        BY <1>1, <2>6
      <4> QED
        BY <1>1, <4>1
    <3> QED
      BY <2>2, <2>3, <2>4, <2>5, <2>6, <3>1 DEF TextAt
  <2>7. CASE a \in cpus
    <3>1. PICK e : e = RunEnd(cpus, a) /\ e \in Nat /\ a <= e /\ e <= last
      <4>1. PICK e : e = RunEnd(cpus, a)
        OBVIOUS
      <4> QED
        BY <2>7, <4>1, RunEnds
    <3>2. e # last => e + 1 \in (a + 1)..last
      BY <1>1, <3>1
    <3>3. PICK c, u : Parts(cpus, last, f, a, e, c, u)
      <4>1. e # last => f[e + 1] \in Seq(Int)
        BY <2>4, <3>2
      <4> QED
        <5>1. e = RunEnd(cpus, a)
          BY <3>1
        <5> QED
          BY <2>7, <4>1, <5>1, BehindIs, Zenon
    <3>4. <<c>> \o u \in Seq(Int) /\ Behind(cpus, f, a) = <<c>> \o u
      <4>1. u \in Seq(Int) /\ <<c>> \in Seq(Int) /\ Behind(cpus, f, a) = <<c>> \o u
        BY <3>3 DEF Parts
      <4> QED
        BY <4>1, ConcatProperties
    <3>5. f[a] \in Seq(Int)
      <4>1. Run(cpus, a) \in Seq(Int)
        BY <2>7, RunIs
      <4>2. f[a] = Run(cpus, a) \o (<<c>> \o u)
        BY <2>5, <2>7, <3>4, Zenon DEF TextAt
      <4> QED
        BY <3>4, <4>1, <4>2, ConcatProperties
    <3> QED
      BY <2>2, <2>3, <3>5
  <2> QED
    BY <2>6, <2>7
<1>3. ASSUME NEW a \in 0..last PROVE f[a] \in Seq(Int)
  <2>1. last - a \in 0..last /\ last - (last - a) = a
    BY <1>1
  <2> QED
    BY <1>2, <2>1
<1> QED
  BY <1>3

-----------------------------------------------------------------------------
(* Reading what the kernel writes *)

\* t is what a content holds from place `it' to its end.
IsRest(content, it, t) ==
    /\ it \in 1..(Len(content) + 1) /\ t \in Seq(Int)
    /\ Len(t) = Len(content) + 1 - it
    /\ \A k \in 1..Len(t) : content[it + k - 1] = t[k]

\* A rest that is r, of m numbers, the separator c and the rest u.
RestBegins(content, it, r, m, c, u) ==
    /\ content \in Seq(Int) /\ r \in Seq(Int) /\ m = Len(r) /\ c \in Int /\ u \in Seq(Int)
    /\ IsRest(content, it, r \o (<<c>> \o u))

LEMMA RestIs ==
    ASSUME NEW content, NEW it, NEW r, NEW m, NEW c, NEW u, RestBegins(content, it, r, m, c, u)
    PROVE  /\ it + m \in 1..Len(content)
           /\ \A k \in 1..m : content[it + k - 1] = r[k]
           /\ content[it + m] = c
           /\ IsRest(content, it + m + 1, u)
<1>0. /\ content \in Seq(Int) /\ r \in Seq(Int) /\ m = Len(r) /\ c \in Int /\ u \in Seq(Int)
      /\ IsRest(content, it, r \o (<<c>> \o u))
  BY DEF RestBegins
<1>1. PICK n \in Nat, l \in Nat : n = Len(content) /\ l = Len(u) /\ m \in Nat
  BY <1>0, LenProperties
<1>2. PICK v \in Seq(Int) : v = <<c>> \o u /\ Len(v) = l + 1 /\ v[1] = c /\ \A k \in 1..l : v[k + 1] = u[k]
  <2>1. <<c>> \in Seq(Int) /\ Len(<<c>>) = 1 /\ <<c>>[1] = c
    BY <1>0
  <2>2. PICK v : v = <<c>> \o u
    OBVIOUS
  <2>3. v \in Seq(Int) /\ Len(v) = 1 + l
    BY <1>0, <1>1, <2>1, <2>2, ConcatProperties
  <2>4. \A k \in 1..(1 + l) : v[k] = IF k <= 1 THEN <<c>>[k] ELSE u[k - 1]
    BY <1>0, <1>1, <2>1, <2>2, ConcatProperties
  <2>5. v[1] = c
    BY <1>1, <2>1, <2>4
  <2>6. ASSUME NEW k \in 1..l PROVE v[k + 1] = u[k]
    BY <1>1, <2>4
  <2>7. Len(v) = l + 1
    BY <1>1, <2>3
  <2> QED
    BY <2>2, <2>3, <2>5, <2>6, <2>7
<1>3. PICK t \in Seq(Int) : /\ t = r \o v /\ Len(t) = m + l + 1
                            /\ \A k \in 1..m : t[k] = r[k]
                            /\ \A k \in 1..(l + 1) : t[m + k] = v[k]
  <2>0. PICK t : t = r \o v
    OBVIOUS
  <2>4. t \in Seq(Int) /\ Len(t) = m + (l + 1)
    <3>1. t \in Seq(Int) /\ Len(t) = Len(r) + Len(v)
      BY <1>0, <1>2, <2>0, ConcatProperties
    <3> QED
      BY <1>0, <1>2, <3>1
  <2>1. \A k \in 1..(m + (l + 1)) : t[k] = IF k <= m THEN r[k] ELSE v[k - m]
    BY <1>0, <1>2, <2>0, ConcatProperties
  <2>2. ASSUME NEW k \in 1..m PROVE t[k] = r[k]
    <3>1. k \in 1..(m + (l + 1)) /\ k <= m
      BY <1>1
    <3> QED
      BY <2>1, <3>1
  <2>3. ASSUME NEW k \in 1..(l + 1) PROVE t[m + k] = v[k]
    <3>1. m + k \in 1..(m + (l + 1)) /\ ~(m + k <= m) /\ (m + k) - m = k
      BY <1>1
    <3> QED
      BY <2>1, <3>1
  <2>5. Len(t) = m + l + 1
    BY <1>1, <2>4
  <2> QED
    BY <2>0, <2>2, <2>3, <2>4, <2>5
<1>4. /\ it \in 1..(n + 1) /\ m + l + 1 = n + 1 - it
      /\ \A k \in 1..(m + l + 1) : content[it + k - 1] = t[k]
  BY <1>0, <1>1, <1>2, <1>3 DEF IsRest
<1>5. it + m \in 1..n /\ it + m + 1 \in 1..(n + 1) /\ l = n + 1 - (it + m + 1)
  BY <1>1, <1>4
<1>6. ASSUME NEW k \in 1..m PROVE content[it + k - 1] = r[k]
  <2>1. k \in 1..(m + l + 1)
    BY <1>1
  <2> QED
    BY <1>3, <1>4, <2>1
<1>7. ASSUME NEW k \in 1..(l + 1) PROVE content[it + m + k - 1] = v[k]
  <2>1. m + k \in 1..(m + l + 1) /\ it + (m + k) - 1 = it + m + k - 1
    BY <1>1, <1>4
  <2> QED
    BY <1>3, <1>4, <2>1
<1>8. content[it + m] = c
  <2>1. 1 \in 1..(l + 1) /\ it + m + 1 - 1 = it + m
    BY <1>1, <1>4
  <2> QED
    BY <1>2, <1>7, <2>1
<1>9. ASSUME NEW k \in 1..l PROVE content[(it + m + 1) + k - 1] = u[k]
  <2>1. k + 1 \in 1..(l + 1) /\ it + m + (k + 1) - 1 = (it + m + 1) + k - 1
    BY <1>1, <1>4
  <2> QED
    BY <1>2, <1>7, <2>1
<1>10. IsRest(content, it + m + 1, u)
  BY <1>0, <1>1, <1>5, <1>9 DEF IsRest
<1> QED
  BY <1>1, <1>5, <1>6, <1>8, <1>10

\* A number that is followed by no dash.
LEMMA OneIsRead ==
    ASSUME NEW content \in Seq(Int), NEW it \in 1..Len(content),
           content[it] \in Nat, content[it + 1] # DASH
    PROVE  ItemAt(content, it) = [cpus |-> <<content[it]>>, next |-> it + 2]
<1>1. PICK n \in Nat : n = Len(content)
  BY LenProperties
<1>2. PICK comma : ItemGoesTo(content, it, comma)
  BY ItemIs
<1>3. comma \in it..(n + 1) /\ (comma # n + 1 => content[comma] = COMMA)
  BY <1>1, <1>2 DEF ItemGoesTo
<1>4. it < comma
  <2>1. comma # it
    BY <1>1, <1>3 DEF COMMA
  <2> QED
    BY <1>1, <1>3, <2>1
<1>5. IsNumber(content[it])
  BY DEF IsNumber
<1> QED
  BY <1>2, <1>4, <1>5 DEF ItemGoesTo

LEMMA RangeIsRead ==
    ASSUME NEW content \in Seq(Int), NEW it \in 1..Len(content), it + 2 \in 1..Len(content),
           content[it] \in Nat, content[it + 1] = DASH, content[it + 2] \in Nat
    PROVE  ItemAt(content, it) = [cpus |-> RangeOf(content[it], content[it + 2]), next |-> it + 4]
<1>1. PICK n \in Nat : n = Len(content)
  BY LenProperties
<1>2. PICK comma : ItemGoesTo(content, it, comma)
  BY ItemIs
<1>3. comma \in it..(n + 1) /\ (comma # n + 1 => content[comma] = COMMA)
  BY <1>1, <1>2 DEF ItemGoesTo
<1>4. it + 2 < comma
  <2>1. comma # it /\ comma # it + 1 /\ comma # it + 2
    BY <1>1, <1>3 DEF COMMA, DASH
  <2> QED
    BY <1>1, <1>3, <2>1
<1>5. IsNumber(content[it]) /\ IsNumber(content[it + 2]) /\ it < comma /\ it + 1 < comma
  BY <1>1, <1>3, <1>4 DEF IsNumber
<1> QED
  BY <1>2, <1>4, <1>5 DEF ItemGoesTo

\* s lists the CPUs of a set from a on, ascending.
Lists(cpus, a, s) ==
    /\ s \in Seq(Nat)
    /\ \A k \in 1..Len(s) : s[k] \in cpus /\ a <= s[k]
    /\ \A c \in cpus : a <= c => \E k \in 1..Len(s) : s[k] = c
    /\ \A j, k \in 1..Len(s) : j < k => s[j] < s[k]

\* r lists a run.
ListsRun(r, a, e) ==
    /\ r \in Seq(Nat) /\ Len(r) = e - a + 1
    /\ \A k \in 1..Len(r) : r[k] = a + k - 1

LEMMA ListsJoin ==
    ASSUME NEW cpus \in SUBSET Nat, NEW a \in Nat, NEW e \in Nat, a <= e,
           \A c \in a..e : c \in cpus,
           NEW r, ListsRun(r, a, e), NEW s, Lists(cpus, e + 1, s)
    PROVE  Lists(cpus, a, r \o s)
<1>1. PICK m \in Nat \ {0} : /\ m = Len(r) /\ m = e - a + 1 /\ r \in Seq(Nat)
                             /\ \A k \in 1..m : r[k] = a + k - 1
  <2>1. e - a + 1 \in Nat \ {0}
    OBVIOUS
  <2> QED
    BY <2>1 DEF ListsRun
<1>2. PICK l \in Nat : l = Len(s) /\ s \in Seq(Nat)
  BY LenProperties DEF Lists
<1>3. /\ \A k \in 1..l : s[k] \in cpus /\ e + 1 <= s[k]
      /\ \A c \in cpus : e + 1 <= c => \E k \in 1..l : s[k] = c
      /\ \A j, k \in 1..l : j < k => s[j] < s[k]
  BY <1>2 DEF Lists
<1>4. PICK t : t = r \o s
  OBVIOUS
<1>5. /\ t \in Seq(Nat) /\ Len(t) = m + l
      /\ \A k \in 1..(m + l) : t[k] = IF k <= m THEN r[k] ELSE s[k - m]
  <2>1. r \in Seq(Nat) /\ s \in Seq(Nat) /\ Len(r) = m /\ Len(s) = l
    BY <1>1, <1>2
  <2>2. r \o s \in Seq(Nat) /\ Len(r \o s) = Len(r) + Len(s)
    BY <2>1, ConcatProperties
  <2>3. \A k \in 1..(Len(r) + Len(s)) : (r \o s)[k] = IF k <= Len(r) THEN r[k] ELSE s[k - Len(r)]
    BY <2>1, ConcatProperties
  <2> QED
    BY <1>4, <2>1, <2>2, <2>3
<1>6. \A k \in 1..(m + l) : t[k] = IF k <= m THEN r[k] ELSE s[k - m]
  BY <1>5
<1>7. ASSUME NEW k \in 1..m PROVE t[k] = a + k - 1 /\ t[k] \in cpus /\ a <= t[k] /\ t[k] <= e
  <2>1. k \in 1..(m + l) /\ k <= m /\ a + k - 1 \in a..e
    BY <1>1, <1>2
  <2>2. t[k] = a + k - 1
    BY <1>1, <1>6, <2>1
  <2> QED
    BY <2>1, <2>2
<1>8. ASSUME NEW k \in 1..l PROVE m + k \in 1..(m + l) /\ t[m + k] = s[k]
  <2>1. m + k \in 1..(m + l) /\ ~(m + k <= m) /\ (m + k) - m = k
    BY <1>1, <1>2
  <2> QED
    BY <1>6, <2>1
<1>9. ASSUME NEW k \in (m + 1)..(m + l) PROVE k - m \in 1..l /\ m + (k - m) = k /\ t[k] = s[k - m]
  <2>1. k - m \in 1..l /\ m + (k - m) = k
    BY <1>1, <1>2
  <2> QED
    BY <1>8, <2>1
<1>10. \A k \in 1..(m + l) : k \in 1..m \/ k \in (m + 1)..(m + l)
  BY <1>1, <1>2
<1>11. ASSUME NEW k \in 1..(m + l) PROVE t[k] \in cpus /\ a <= t[k]
  <2>1. CASE k \in 1..m
    BY <1>7, <2>1
  <2>2. CASE k \in (m + 1)..(m + l)
    <3>1. PICK x \in cpus : x = t[k] /\ e + 1 <= x
      BY <1>3, <1>9, <2>2
    <3> QED
      BY <3>1
  <2> QED
    BY <1>10, <2>1, <2>2
<1>12. ASSUME NEW c \in cpus, a <= c PROVE \E k \in 1..(m + l) : t[k] = c
  <2>1. CASE c <= e
    <3>1. PICK k \in 1..m : k = c - a + 1 /\ a + k - 1 = c
      <4>1. c - a + 1 \in 1..m /\ a + (c - a + 1) - 1 = c
        BY <1>1, <1>12, <2>1
      <4> QED
        BY <4>1
    <3>2. k \in 1..(m + l)
      BY <1>1, <1>2
    <3> QED
      BY <1>7, <3>1, <3>2
  <2>2. CASE ~(c <= e)
    <3>1. PICK k \in 1..l : s[k] = c
      <4>1. e + 1 <= c
        BY <2>2
      <4> QED
        BY <1>3, <4>1
    <3> QED
      BY <1>8, <3>1
  <2> QED
    BY <2>1, <2>2
<1>13. ASSUME NEW j \in 1..(m + l), NEW k \in 1..(m + l), j < k PROVE t[j] < t[k]
  <2>1. CASE j \in 1..m /\ k \in 1..m
    BY <1>1, <1>7, <1>13, <2>1
  <2>2. CASE j \in 1..m /\ k \in (m + 1)..(m + l)
    <3>1. PICK x \in Nat : x = t[j] /\ x <= e
      BY <1>7, <2>2
    <3>2. PICK y \in Nat : y = t[k] /\ e + 1 <= y
      BY <1>3, <1>9, <2>2
    <3> QED
      BY <3>1, <3>2
  <2>3. CASE j \in (m + 1)..(m + l) /\ k \in (m + 1)..(m + l)
    <3>1. j - m < k - m
      BY <1>1, <1>13, <2>3
    <3> QED
      BY <1>3, <1>9, <2>3, <3>1
  <2>4. ~(j \in (m + 1)..(m + l) /\ k \in 1..m)
    BY <1>1, <1>13
  <2> QED
    BY <1>10, <2>1, <2>2, <2>3, <2>4
<1> QED
  BY <1>4, <1>5, <1>11, <1>12, <1>13 DEF Lists

\* The run that begins at a is read as what it stands for, and its end is skipped.
LEMMA RunIsRead ==
    ASSUME NEW cpus, NEW last, IsLast(cpus, last), NEW f, NEW a, a \in cpus, NEW e, NEW c, NEW u,
           Parts(cpus, last, f, a, e, c, u),
           NEW content \in Seq(Int), NEW it, IsRest(content, it, Run(cpus, a) \o (<<c>> \o u))
    PROVE  \E r, next :
              /\ it \in 1..Len(content) /\ next \in (it + 2)..(Len(content) + 1)
              /\ ItemAt(content, it) = [cpus |-> r, next |-> next] /\ r # <<>>
              /\ ListsRun(r, a, e)
              /\ content[next - 1] = c /\ IsRest(content, next, u)
<1>1. /\ e = RunEnd(cpus, a) /\ c \in Int /\ u \in Seq(Int)
      /\ c = IF e = last THEN NEWLINE ELSE COMMA
  BY DEF Parts
<1>2. a \in Nat /\ e \in Nat /\ a <= e
  BY <1>1, RunEnds
<1>3. PICK n \in Nat : n = Len(content)
  BY LenProperties
<1>4. PICK run \in Seq(Int) : run = Run(cpus, a)
  BY RunIs
<1>5. PICK m \in Nat : m = Len(run)
  BY LenProperties
<1>6. /\ it + m \in 1..n
      /\ \A k \in 1..m : content[it + k - 1] = run[k]
      /\ content[it + m] = c /\ IsRest(content, it + m + 1, u)
  <2>1. run \in Seq(Int) /\ c \in Int /\ u \in Seq(Int) /\ m = Len(run)
    BY <1>1, <1>4, <1>5
  <2>2. RestBegins(content, it, run, m, c, u)
    BY <1>4, <2>1, Zenon DEF RestBegins
  <2>3. /\ it + m \in 1..Len(content)
        /\ \A k \in 1..m : content[it + k - 1] = run[k]
        /\ content[it + m] = c
        /\ IsRest(content, it + m + 1, u)
    BY <2>2, RestIs, Zenon
  <2> QED
    BY <1>3, <2>3
<1>7. it \in 1..n + 1
  BY <1>3 DEF IsRest
<1>8. CASE e = a
  <2>1. run = <<a>> /\ m = 1
    BY <1>1, <1>4, <1>5, <1>8 DEF Run
  <2>2. content[it] = a /\ content[it + 1] = c /\ it \in 1..n
    <3>1. content[it + 1 - 1] = run[1] /\ it + 1 - 1 = it
      BY <1>6, <1>7, <2>1
    <3> QED
      BY <1>6, <1>7, <2>1, <3>1
  <2>3. c # DASH
    BY <1>1 DEF NEWLINE, COMMA, DASH
  <2>4. ItemAt(content, it) = [cpus |-> <<a>>, next |-> it + 2]
    BY <1>2, <1>3, <2>2, <2>3, OneIsRead
  <2>5. ListsRun(<<a>>, a, e) /\ <<a>> # <<>>
    BY <1>2, <1>8 DEF ListsRun
  <2>6. it + 2 \in (it + 2)..(n + 1) /\ (it + 2) - 1 = it + 1 /\ it + m + 1 = it + 2
    BY <1>6, <1>7, <2>1
  <2> QED
    BY <1>3, <1>6, <2>2, <2>4, <2>5, <2>6
<1>9. CASE e # a
  <2>1. run = <<a, DASH, e>> /\ m = 3
    BY <1>1, <1>4, <1>5, <1>9 DEF Run
  <2>2. /\ content[it] = a /\ content[it + 1] = DASH /\ content[it + 2] = e
        /\ it \in 1..n /\ it + 2 \in 1..n
    <3>1. /\ content[it + 1 - 1] = run[1] /\ it + 1 - 1 = it
          /\ content[it + 2 - 1] = run[2] /\ it + 2 - 1 = it + 1
          /\ content[it + 3 - 1] = run[3] /\ it + 3 - 1 = it + 2
      BY <1>6, <1>7, <2>1
    <3>2. it \in 1..n /\ it + 2 \in 1..n
      BY <1>6, <1>7, <2>1
    <3> QED
      BY <2>1, <3>1, <3>2
  <2>3. ItemAt(content, it) = [cpus |-> RangeOf(a, e), next |-> it + 4]
    BY <1>2, <1>3, <2>2, RangeIsRead
  <2>4. ListsRun(RangeOf(a, e), a, e) /\ RangeOf(a, e) # <<>>
    <3>1. e > a
      BY <1>2, <1>9
    <3> QED
      BY <1>2, <3>1, RangeIs DEF ListsRun
  <2>5. it + 4 \in (it + 2)..(n + 1) /\ (it + 4) - 1 = it + m /\ it + m + 1 = it + 4
    BY <1>6, <1>7, <2>1
  <2> QED
    BY <1>3, <1>6, <2>2, <2>3, <2>4, <2>5
<1> QED
  BY <1>8, <1>9

\* From the place where the text of the CPUs from a on begins, these are read.
LEMMA TextIsRead ==
    ASSUME NEW cpus, NEW last, IsLast(cpus, last), NEW f, f = KernelTexts(cpus),
           NEW content \in Seq(Int), NEW p, p = ParseFrom(content)
    PROVE  \A a \in 0..last : \A it :
              IsRest(content, it, f[a]) =>
                 p[it].why = "parsed" /\ Lists(cpus, a, p[it].siblings)
<1>1. last \in Nat /\ last \in cpus /\ cpus \in SUBSET Nat /\ \A c \in cpus : c <= last
  BY DEF IsLast
<1>2. PICK n \in Nat : n = Len(content)
  BY LenProperties
<1> DEFINE Read(a, it) == p[it].why = "parsed" /\ Lists(cpus, a, p[it].siblings)
           T == {m \in 0..last : ~ \A it : IsRest(content, it, f[last - m]) => Read(last - m, it)}
<1>3. T = {}
  <2> SUFFICES ASSUME T # {} PROVE FALSE
    OBVIOUS
  <2>1. PICK m \in T : \A x \in T : m <= x
    <3>1. T \in SUBSET Nat
      OBVIOUS
    <3> HIDE DEF T
    <3> QED
      BY <3>1, LeastNatural
  <2>2. m \in 0..last /\ ~ \A it : IsRest(content, it, f[last - m]) => Read(last - m, it)
    OBVIOUS
  <2>3. PICK a \in 0..last : a = last - m
    <3>1. last - m \in 0..last
      BY <1>1, <2>2
    <3> QED
      BY <3>1
  <2>4. ASSUME NEW b \in (a + 1)..last, NEW jt, IsRest(content, jt, f[b])
        PROVE  Read(b, jt)
    <3>1. PICK x \in 0..last : x = last - b /\ ~(m <= x) /\ last - x = b
      <4>1. last - b \in 0..last /\ ~(m <= last - b) /\ last - (last - b) = b
        BY <1>1, <2>2, <2>3
      <4> QED
        BY <4>1
    <3>2. x \notin T
      <4> HIDE DEF T
      <4> QED
        BY <2>1, <3>1
    <3>3. IsRest(content, jt, f[last - x]) => Read(last - x, jt)
      <4> HIDE DEF Read
      <4> QED
        BY <3>2
    <3> HIDE DEF Read
    <3> QED
      BY <2>4, <3>1, <3>3
  <2> HIDE DEF T
  <2>5. PICK it : IsRest(content, it, f[a]) /\ ~Read(a, it)
    <3> HIDE DEF Read
    <3> QED
      BY <2>2, <2>3
  <2>6. f[a] = TextAt(cpus, f, a)
    BY TextsAre
  <2>7. CASE a \notin cpus
    <3>1. a + 1 \in (a + 1)..last
      <4>1. a # last
        BY <1>1, <2>7
      <4> QED
        BY <1>1, <4>1
    <3>2. f[a] = f[a + 1]
      BY <2>6, <2>7 DEF TextAt
    <3>3. Read(a + 1, it)
      <4>1. IsRest(content, it, f[a + 1])
        BY <2>5, <3>2
      <4> HIDE DEF Read
      <4> QED
        BY <2>4, <3>1, <4>1
    <3>4. Lists(cpus, a, p[it].siblings)
      <4>1. PICK s : s = p[it].siblings /\ Lists(cpus, a + 1, s)
        BY <3>3
      <4>2. \A c \in cpus : c \in Nat /\ c # a
        BY <1>1, <2>7
      <4>3. \A c \in cpus : a <= c <=> a + 1 <= c
        BY <1>1, <4>2
      <4> QED
        BY <4>1, <4>3 DEF Lists
    <3> QED
      BY <2>5, <3>3, <3>4
  <2>8. CASE a \in cpus
    <3>1. PICK e : /\ e = RunEnd(cpus, a) /\ a \in Nat /\ e \in Nat /\ e \in cpus
                   /\ a <= e /\ e <= last
                   /\ \A c \in a..e : c \in cpus
      <4>1. PICK e : e = RunEnd(cpus, a)
        OBVIOUS
      <4> QED
        BY <2>8, <4>1, RunEnds
    <3>2. e # last => e + 1 \in (a + 1)..last /\ e + 1 \in 0..last
      BY <1>1, <3>1
    <3>3. PICK c, u : Parts(cpus, last, f, a, e, c, u)
      <4>1. e # last => f[e + 1] \in Seq(Int)
        BY <3>2, TextsTyped
      <4>2. e = RunEnd(cpus, a)
        BY <3>1
      <4> QED
        BY <2>8, <4>1, <4>2, BehindIs
    <3>4. IsRest(content, it, Run(cpus, a) \o (<<c>> \o u))
      <4>1. f[a] = Run(cpus, a) \o (<<c>> \o u)
        BY <2>6, <2>8, <3>3, Zenon DEF TextAt, Parts
      <4> QED
        BY <2>5, <4>1
    <3>5. PICK r, next :
              /\ it \in 1..Len(content) /\ next \in (it + 2)..(Len(content) + 1)
              /\ ItemAt(content, it) = [cpus |-> r, next |-> next] /\ r # <<>>
              /\ ListsRun(r, a, e)
              /\ content[next - 1] = c /\ IsRest(content, next, u)
      BY <2>8, <3>3, <3>4, RunIsRead
    <3>6. p[it] = [why |-> p[next].why, siblings |-> r \o p[next].siblings]
      <4>1. it \in 1..(n + 2) /\ ~(it > n + 1) /\ it # n + 1
        BY <1>2, <3>5
      <4>2. p[it] = ReadAt(content, p, it)
        BY <1>2, <4>1, ParseIs
      <4>3. ItemAt(content, it).cpus = r /\ ItemAt(content, it).next = next
        BY <3>5
      <4> QED
        BY <1>2, <3>5, <4>1, <4>2, <4>3, Zenon DEF ReadAt
    <3>7. p[next].why = "parsed" /\ Lists(cpus, e + 1, p[next].siblings)
      <4>1. CASE e # last
        <5>1. u = f[e + 1]
          BY <3>3, <4>1 DEF Parts
        <5>2. Read(e + 1, next)
          <6>1. IsRest(content, next, f[e + 1])
            BY <3>5, <5>1
          <6> HIDE DEF Read
          <6> QED
            BY <2>4, <3>2, <4>1, <6>1
        <5> QED
          BY <5>2
      <4>2. CASE e = last
        <5>1. u = <<>> /\ c = NEWLINE
          BY <3>3, <4>2 DEF Parts
        <5>2. next = n + 1
          BY <1>2, <3>5, <5>1 DEF IsRest
        <5>3. p[next] = [why |-> "parsed", siblings |-> <<>>]
          <6>1. p[next] = ReadAt(content, p, next)
            <7>1. next \in 1..(n + 2)
              BY <1>2, <5>2
            <7> QED
              BY <1>2, <7>1, ParseIs
          <6>2. p[next] = [why |-> Ending(content), siblings |-> <<>>]
            BY <1>2, <5>2, <6>1 DEF ReadAt
          <6>3. content[n] = NEWLINE
            <7>1. next - 1 = n
              BY <1>2, <5>2
            <7> QED
              BY <3>5, <5>1, <7>1
          <6>4. content # <<>>
            BY <3>5
          <6>5. Ending(content) = "parsed"
            BY <1>2, <6>3, <6>4 DEF Ending
          <6> QED
            BY <6>2, <6>5
        <5>4. Lists(cpus, e + 1, <<>>)
          <6>1. \A x \in cpus : ~(e + 1 <= x)
            BY <1>1, <3>1, <4>2
          <6> QED
            BY <6>1 DEF Lists
        <5> QED
          BY <5>3, <5>4
      <4> QED
        BY <4>1, <4>2
    <3>8. Lists(cpus, a, r \o p[next].siblings)
      BY <1>1, <3>1, <3>5, <3>7, ListsJoin
    <3>9. Read(a, it)
      BY <3>6, <3>7, <3>8
    <3> HIDE DEF Read
    <3> QED
      BY <2>5, <3>9
  <2> QED
    BY <2>7, <2>8
<1>4. ASSUME NEW a \in 0..last, NEW it, IsRest(content, it, f[a]) PROVE Read(a, it)
  <2>1. last - a \in 0..last /\ last - (last - a) = a
    BY <1>1
  <2>2. last - a \notin T
    BY <1>3
  <2>3. IsRest(content, it, f[last - (last - a)]) => Read(last - (last - a), it)
    <3> HIDE DEF Read
    <3> QED
      BY <2>1, <2>2
  <2> HIDE DEF Read, T
  <2> QED
    BY <1>4, <2>1, <2>3
<1> QED
  BY <1>4

LEMMA LastIs ==
    ASSUME NEW cpus \in SUBSET Nat, cpus # {}, NEW b \in Nat, \A c \in cpus : c <= b
    PROVE  IsLast(cpus, Max(cpus))
BY MaxIs DEF IsLast

\* What the kernel writes for a set of CPUs is read as these CPUs, ascending: however
\* many they are and whatever runs they form.
THEOREM KernelListIsRead ==
    \A b \in Nat : \A cpus \in SUBSET (0..b) : cpus # {} =>
        /\ Parse(KernelList(cpus)).why = "parsed"
        /\ Lists(cpus, 0, Parse(KernelList(cpus)).siblings)
<1> SUFFICES ASSUME NEW b \in Nat, NEW cpus \in SUBSET (0..b), cpus # {}
             PROVE  /\ Parse(KernelList(cpus)).why = "parsed"
                    /\ Lists(cpus, 0, Parse(KernelList(cpus)).siblings)
  OBVIOUS
<1>1. PICK last : last = Max(cpus) /\ IsLast(cpus, last)
  <2>1. cpus \in SUBSET Nat /\ \A c \in cpus : c <= b
    OBVIOUS
  <2> QED
    BY <2>1, LastIs
<1>2. last \in Nat /\ 0 \in 0..last
  BY <1>1 DEF IsLast
<1>3. PICK f : f = KernelTexts(cpus)
  OBVIOUS
<1>4. PICK content \in Seq(Int) : content = f[0] /\ content = KernelList(cpus)
  BY <1>1, <1>2, <1>3, TextsTyped DEF KernelList
<1>5. IsRest(content, 1, f[0])
  <2>1. Len(content) \in Nat
    BY LenProperties
  <2>2. \A k \in 1..Len(content) : 1 + k - 1 = k
    BY <2>1
  <2> QED
    BY <1>4, <2>1, <2>2 DEF IsRest
<1>6. PICK p : p = ParseFrom(content)
  OBVIOUS
<1>7. p[1].why = "parsed" /\ Lists(cpus, 0, p[1].siblings)
  BY <1>1, <1>2, <1>3, <1>5, <1>6, TextIsRead
<1> QED
  BY <1>4, <1>6, <1>7 DEF Parse

-----------------------------------------------------------------------------
(* The list of cores *)

MachineOK(m) ==
    /\ m \in Seq(SUBSET Nat) /\ IsFiniteSet(UNION Range(m))
    /\ UNION Range(m) = 0..(Cardinality(UNION Range(m)) - 1)
    /\ \A c, d \in DOMAIN m : c # d => m[c] \cap m[d] = {}

\* What was read for the k-th core listed.
CpusRead(k) == CoreOf(k - 1) \cap seen[k]

\* The first siblings of the cores listed that are on the core c: one for each
\* CPU that came or went and one more, and none of them the least that is online
\* now unless there are fewer.  So the next one is not new if there are that many.
FirstsAre(c, firsts) ==
    /\ IsFiniteSet(firsts) /\ Cardinality(firsts) <= 1 + hotplugs
    /\ Cardinality(firsts) = 1 + hotplugs =>
          \E x \in firsts : x \in online /\ \A y \in c \cap online : x <= y

ListInv ==
    /\ MachineOK(cores) /\ online \subseteq Cpus /\ hotplugs \in Nat
    /\ listing \in {"open", "read", "listed", "CouldNotReadCPUFile"}
    /\ result \in Seq([core_idx : Nat, siblings : Seq(Nat)])
    /\ seen \in Seq(SUBSET Nat) /\ Len(seen) = Len(result)
    /\ \A k \in 1..Len(result) :
          /\ result[k].core_idx = k - 1 /\ k - 1 \in CpusRead(k)
          /\ Lists(CpusRead(k), 0, result[k].siblings)
    /\ \A c \in Range(cores) : FirstsAre(c, Firsts \cap c)

LEMMA MachinesAre == MachineOK(NoMachine) /\ \A m \in Topologies : MachineOK(m)
<1>1. \A m \in Topologies : MachineOK(m)
  BY TopologiesAssumption DEF MachineOK
<1>2. UNION Range(NoMachine) = {} /\ NoMachine \in Seq(SUBSET Nat) /\ DOMAIN NoMachine = {}
  BY DEF NoMachine, Range
<1>3. IsFiniteSet({}) /\ Cardinality({}) = 0
  BY FS_EmptySet
<1>4. {} = 0..(0 - 1)
  OBVIOUS
<1>5. MachineOK(NoMachine)
  BY <1>2, <1>3, <1>4, Zenon DEF MachineOK
<1> QED
  BY <1>1, <1>5

\* The CPUs are numbered from 0, and one is on the core it names.
LEMMA CpusAre ==
    ASSUME MachineOK(cores)
    PROVE  /\ \E b \in Nat : Cpus \subseteq 0..b
           /\ \A cpu \in Cpus : cpu \in CoreOf(cpu)
           /\ \A cpu : CoreOf(cpu) \subseteq Cpus
<1>1. PICK n \in Nat : n = Cardinality(Cpus) /\ Cpus = 0..(n - 1)
  BY FS_CardinalityType DEF MachineOK, Cpus
<1>2. Cpus \subseteq 0..n
  <2>1. \A x \in 0..(n - 1) : x \in 0..n
    OBVIOUS
  <2> QED
    BY <1>1, <2>1
<1>3. ASSUME NEW cpu \in Cpus PROVE cpu \in CoreOf(cpu)
  BY DEF Cpus, CoreOf
<1>4. ASSUME NEW cpu PROVE CoreOf(cpu) \subseteq Cpus
  BY DEF Cpus, CoreOf
<1> QED
  BY <1>2, <1>3, <1>4

LEMMA MCInitListInv == MCInit => ListInv
<1> SUFFICES ASSUME MCInit PROVE ListInv
  OBVIOUS
<1>1. cores \in Topologies \/ cores = NoMachine
  BY DEF MCInit, ListInit
<1>2. MachineOK(cores)
  BY <1>1, MachinesAre
<1>3. online \subseteq Cpus /\ hotplugs = 0 /\ listing \in {"open", "listed"} /\ result = <<>> /\ seen = <<>>
  BY DEF MCInit, ListInit
<1>4. ASSUME NEW c \in Range(cores) PROVE FirstsAre(c, Firsts \cap c)
  <2>1. Firsts \cap c = {}
    BY <1>3 DEF Firsts
  <2>2. IsFiniteSet({}) /\ Cardinality({}) = 0
    BY FS_EmptySet
  <2>3. FirstsAre(c, {})
    BY <1>3, <2>2 DEF FirstsAre
  <2> QED
    BY <2>1, <2>3
<1> QED
  BY <1>2, <1>3, <1>4 DEF ListInv

LEMMA AppendIs ==
    ASSUME NEW S, NEW s, s \in Seq(S), NEW v, v \in S, NEW n, n = Len(s), NEW t, t = Append(s, v)
    PROVE  /\ t \in Seq(S) /\ Len(t) = n + 1
           /\ \A k \in 1..n : t[k] = s[k]
           /\ t[n + 1] = v
BY AppendProperties

\* A list of CPUs begins with the least of them.
LEMMA FirstIs ==
    ASSUME NEW cpus \in SUBSET Nat, cpus # {}, NEW s, Lists(cpus, 0, s)
    PROVE  /\ Range(s) = cpus /\ s[1] \in cpus /\ \A x \in cpus : s[1] <= x
           /\ \A a, b \in DOMAIN s : a < b => s[a] < s[b]
<1>1. /\ s \in Seq(Nat)
      /\ \A j \in 1..Len(s) : s[j] \in cpus
      /\ \A c \in cpus : \E j \in 1..Len(s) : s[j] = c
      /\ \A a, b \in 1..Len(s) : a < b => s[a] < s[b]
  BY DEF Lists
<1>2. PICK m \in Nat : m = Len(s) /\ DOMAIN s = 1..m /\ \A j \in 1..m : s[j] \in Nat
  BY <1>1, LenProperties, ElementOfSeq
<1>3. Range(s) = cpus
  BY <1>1, <1>2 DEF Range
<1>4. 1 \in 1..m
  <2>1. PICK c \in cpus : TRUE
    OBVIOUS
  <2>2. PICK j \in 1..Len(s) : s[j] = c
    BY <1>1
  <2> QED
    BY <1>2, <2>2
<1>5. ASSUME NEW x \in cpus PROVE s[1] <= x
  <2>1. PICK j \in 1..m : s[j] = x
    BY <1>1, <1>2
  <2>2. j = 1 \/ s[1] < s[j]
    BY <1>1, <1>2, <1>4
  <2> QED
    BY <1>2, <1>4, <2>1, <2>2
<1> QED
  BY <1>1, <1>2, <1>3, <1>4, <1>5

\* A core is the only one that has any of its CPUs.
LEMMA CoreIs ==
    ASSUME MachineOK(cores), NEW cpu, NEW c \in Range(cores), NEW x \in c, x \in CoreOf(cpu)
    PROVE  CoreOf(cpu) = c
<1>1. \A a, b \in Range(cores) : a # b => a \cap b = {}
  BY DEF MachineOK, Range
<1>2. PICK d \in Range(cores) : cpu \in d /\ x \in d
  BY DEF CoreOf
<1>3. d = c
  BY <1>1, <1>2
<1> QED
  BY <1>1, <1>2, <1>3 DEF CoreOf

\* The least CPU of a core that is online is a new first sibling of it only if
\* there is room for one.
LEMMA FirstIsAdded ==
    ASSUME NEW c, NEW firsts, firsts \subseteq c, c \subseteq Nat, FirstsAre(c, firsts), hotplugs \in Nat,
           NEW f \in c \cap online, \A y \in c \cap online : f <= y
    PROVE  FirstsAre(c, firsts \cup {f})
<1>1. PICK n \in Nat : n = Cardinality(firsts) /\ n <= 1 + hotplugs /\ IsFiniteSet(firsts)
  BY FS_CardinalityType DEF FirstsAre
<1>2. CASE f \in firsts
  <2>1. firsts \cup {f} = firsts
    BY <1>2
  <2>2. f \in firsts /\ f \in online /\ \A y \in c \cap online : f <= y
    BY <1>2
  <2> QED
    BY <1>1, <2>1, <2>2 DEF FirstsAre
<1>3. CASE f \notin firsts
  <2>1. n # 1 + hotplugs
    <3> SUFFICES ASSUME n = 1 + hotplugs PROVE FALSE
      OBVIOUS
    <3>1. PICK x \in firsts : x \in online /\ \A y \in c \cap online : x <= y
      BY <1>1 DEF FirstsAre
    <3>2. x \in Nat /\ f \in Nat /\ x \in c \cap online
      BY <3>1
    <3>3. x <= f /\ f <= x
      BY <3>1, <3>2
    <3>4. x = f
      BY <3>2, <3>3
    <3> QED
      BY <1>3, <3>4
  <2>2. n + 1 <= 1 + hotplugs
    BY <1>1, <2>1
  <2>3. IsFiniteSet(firsts \cup {f}) /\ Cardinality(firsts \cup {f}) = n + 1
    BY <1>1, <1>3, FS_AddElement
  <2>4. f \in firsts \cup {f} /\ f \in online /\ \A y \in c \cap online : f <= y
    OBVIOUS
  <2> QED
    BY <2>2, <2>3, <2>4 DEF FirstsAre
<1> QED
  BY <1>2, <1>3

\* Only the core just read is new.
LEMMA ReadFileListInv == ListInv /\ ReadFile => ListInv'
<1> SUFFICES ASSUME ListInv, ReadFile PROVE ListInv'
  OBVIOUS
<1>1. PICK n \in Nat : n = Len(result) /\ n = i /\ n \in online
  BY LenProperties DEF ListInv, ReadFile, i
<1>2. /\ MachineOK(cores) /\ online \subseteq Cpus
      /\ result \in Seq([core_idx : Nat, siblings : Seq(Nat)])
      /\ seen \in Seq(SUBSET Nat) /\ Len(seen) = n
  BY <1>1 DEF ListInv
<1>3. PICK b \in Nat : Cpus \subseteq 0..b
  BY <1>2, CpusAre
<1> DEFINE cpus == CoreOf(n) \cap online
<1>4. cpus \in SUBSET (0..b) /\ n \in cpus
  BY <1>1, <1>2, <1>3, CpusAre
<1>5. PICK r : r = Parse(KernelList(cpus))
  OBVIOUS
<1>6. r.why = "parsed" /\ Lists(cpus, 0, r.siblings) /\ r.siblings \in Seq(Nat)
  <2>1. r.why = "parsed" /\ Lists(cpus, 0, r.siblings)
    <3> HIDE DEF cpus
    <3> QED
      BY <1>4, <1>5, KernelListIsRead
  <2> QED
    BY <2>1 DEF Lists
<1>7. PICK core : core = [core_idx |-> n, siblings |-> r.siblings]
  OBVIOUS
<1>8. /\ listing' = "open" /\ result' = Append(result, core) /\ seen' = Append(seen, online)
      /\ UNCHANGED <<cores, online, hotplugs>>
  BY <1>1, <1>5, <1>6, <1>7, Zenon DEF ReadFile
<1>9. core \in [core_idx : Nat, siblings : Seq(Nat)]
  BY <1>6, <1>7
<1>10. online \in SUBSET Nat
  BY <1>2, <1>3
<1>11. /\ result' \in Seq([core_idx : Nat, siblings : Seq(Nat)]) /\ Len(result') = n + 1
       /\ \A k \in 1..n : result'[k] = result[k]
       /\ result'[n + 1] = core
  <2>1. /\ result \in Seq([core_idx : Nat, siblings : Seq(Nat)])
        /\ n = Len(result) /\ result' = Append(result, core)
    BY <1>1, <1>2, <1>8
  <2> QED
    BY <1>9, <2>1, AppendIs
<1>12. /\ seen' \in Seq(SUBSET Nat) /\ Len(seen') = n + 1
       /\ \A k \in 1..n : seen'[k] = seen[k]
       /\ seen'[n + 1] = online
  <2>1. seen \in Seq(SUBSET Nat) /\ n = Len(seen) /\ seen' = Append(seen, online)
    BY <1>2, <1>8
  <2> QED
    BY <1>10, <2>1, AppendIs
<1>13. /\ \A k : CoreOf(k)' = CoreOf(k)
       /\ Cpus' = Cpus
  BY <1>8 DEF CoreOf, Cpus
<1>14. ASSUME NEW k \in 1..n PROVE CpusRead(k)' = CpusRead(k)
  BY <1>12, <1>13 DEF CpusRead
<1>15. CpusRead(n + 1)' = cpus
  <2>1. (n + 1) - 1 = n
    OBVIOUS
  <2> QED
    BY <1>12, <1>13, <2>1 DEF CpusRead
<1> HIDE DEF cpus
<1>16. ASSUME NEW k \in 1..(n + 1)
       PROVE  /\ result'[k].core_idx = k - 1 /\ k - 1 \in CpusRead(k)'
              /\ Lists(CpusRead(k)', 0, result'[k].siblings)
  <2>1. CASE k = n + 1
    <3>1. (n + 1) - 1 = n
      OBVIOUS
    <3>2. result'[n + 1].core_idx = n /\ result'[n + 1].siblings = r.siblings
      BY <1>7, <1>11
    <3> QED
      BY <1>4, <1>6, <1>15, <2>1, <3>1, <3>2
  <2>2. CASE k # n + 1
    <3>1. k \in 1..n
      BY <2>2
    <3>2. /\ result[k].core_idx = k - 1 /\ k - 1 \in CpusRead(k)
          /\ Lists(CpusRead(k), 0, result[k].siblings)
      BY <1>1, <3>1 DEF ListInv
    <3> QED
      BY <1>11, <1>14, <3>1, <3>2
  <2> QED
    BY <2>1, <2>2
<1>17. ASSUME NEW c \in Range(cores) PROVE FirstsAre(c, Firsts \cap c)'
  <2>1. PICK f : f = r.siblings[1] /\ f \in cpus /\ \A x \in cpus : f <= x
    <3>1. cpus \in SUBSET Nat /\ cpus # {}
      BY <1>4
    <3>2. PICK s : s = r.siblings /\ Lists(cpus, 0, s)
      BY <1>6
    <3>3. s[1] \in cpus /\ \A x \in cpus : s[1] <= x
      BY <3>1, <3>2, FirstIs
    <3> QED
      BY <3>2, <3>3
  <2>2. Firsts' = Firsts \cup {f}
    <3>1. DOMAIN result = 1..n /\ DOMAIN result' = 1..(n + 1)
      BY <1>1, <1>2, <1>11, LenProperties
    <3>2. Firsts = {result[k].siblings[1] : k \in 1..n}
      BY <3>1 DEF Firsts
    <3>3. Firsts' = {result'[k].siblings[1] : k \in 1..(n + 1)}
      BY <3>1 DEF Firsts
    <3>4. \A k \in 1..(n + 1) : k \in 1..n \/ k = n + 1
      OBVIOUS
    <3>5. 1..n \subseteq 1..(n + 1) /\ n + 1 \in 1..(n + 1)
      OBVIOUS
    <3>6. result'[n + 1].siblings[1] = f
      BY <1>7, <1>11, <2>1
    <3>7. \A k \in 1..n : result'[k].siblings[1] = result[k].siblings[1]
      BY <1>11
    <3> QED
      BY <3>2, <3>3, <3>4, <3>5, <3>6, <3>7
  <2>3. FirstsAre(c, Firsts \cap c) /\ c \subseteq Nat /\ hotplugs \in Nat
    <3>1. c \subseteq Nat
      <4>1. c \subseteq Cpus /\ 0..b \subseteq Nat
        BY DEF Cpus
      <4> QED
        BY <1>3, <4>1
    <3> QED
      BY <3>1, Zenon DEF ListInv
  <2>4. FirstsAre(c, Firsts' \cap c)
    <3>1. CASE f \in c
      <4>1. f \in CoreOf(n)
        BY <1>4, <2>1 DEF cpus
      <4>2. CoreOf(n) = c
        BY <1>2, <3>1, <4>1, CoreIs
      <4>3. cpus = c \cap online
        BY <4>2 DEF cpus
      <4>4. FirstsAre(c, (Firsts \cap c) \cup {f})
        BY <2>1, <2>3, <4>3, FirstIsAdded
      <4>5. Firsts' \cap c = (Firsts \cap c) \cup {f}
        BY <2>2, <3>1
      <4> QED
        BY <4>4, <4>5
    <3>2. CASE f \notin c
      <4>1. Firsts' \cap c = Firsts \cap c
        BY <2>2, <3>2
      <4> QED
        BY <2>3, <4>1
    <3> QED
      BY <3>1, <3>2
  <2> QED
    BY <1>8, <2>4 DEF FirstsAre
<1>18. /\ MachineOK(cores') /\ online' \subseteq Cpus' /\ hotplugs' \in Nat
  BY <1>2, <1>8, <1>13 DEF ListInv
<1>19. listing' \in {"open", "read", "listed", "CouldNotReadCPUFile"}
  BY <1>8
<1> QED
  BY <1>8, <1>11, <1>12, <1>16, <1>17, <1>18, <1>19 DEF ListInv

\* The other steps leave what is listed alone.
LEMMA RestListInv ==
    ASSUME ListInv, UNCHANGED <<cores, result, seen>>, online' \subseteq Cpus, hotplugs' \in Nat,
           listing' \in {"open", "read", "listed", "CouldNotReadCPUFile"},
           (hotplugs' = hotplugs /\ online' = online) \/ hotplugs' = hotplugs + 1
    PROVE  ListInv'
<1>1. Cpus' = Cpus /\ MachineOK(cores')
  BY DEF Cpus, ListInv
<1>2. \A k : CpusRead(k)' = CpusRead(k)
  BY DEF CpusRead, CoreOf
<1>3. \A k \in 1..Len(result') :
          /\ result'[k].core_idx = k - 1 /\ k - 1 \in CpusRead(k)'
          /\ Lists(CpusRead(k)', 0, result'[k].siblings)
  BY <1>2 DEF ListInv
<1>4. ASSUME NEW c \in Range(cores) PROVE FirstsAre(c, Firsts \cap c)'
  <2>1. FirstsAre(c, Firsts \cap c) /\ hotplugs \in Nat /\ Firsts' = Firsts
    BY DEF ListInv, Firsts
  <2>2. CASE hotplugs' = hotplugs /\ online' = online
    BY <2>1, <2>2 DEF FirstsAre
  <2>3. CASE hotplugs' = hotplugs + 1
    <3>1. PICK n \in Nat : n = Cardinality(Firsts \cap c) /\ n <= 1 + hotplugs
      BY <2>1, FS_CardinalityType DEF FirstsAre
    <3>2. n <= 1 + hotplugs' /\ n # 1 + hotplugs'
      BY <2>1, <2>3, <3>1
    <3> QED
      BY <2>1, <3>1, <3>2 DEF FirstsAre
  <2> QED
    BY <2>2, <2>3
<1> QED
  BY <1>1, <1>3, <1>4 DEF ListInv

LEMMA ListNextListInv == ListInv /\ ListNext => ListInv'
<1> SUFFICES ASSUME ListInv, ListNext PROVE ListInv'
  OBVIOUS
<1>1. /\ online \subseteq Cpus /\ hotplugs \in Nat
      /\ listing \in {"open", "read", "listed", "CouldNotReadCPUFile"}
  BY DEF ListInv
<1>2. CASE OpenFile
  BY <1>1, <1>2, RestListInv DEF OpenFile
<1>3. CASE OpenFails
  BY <1>1, <1>3, RestListInv DEF OpenFails
<1>4. CASE ReadFile
  BY <1>4, ReadFileListInv
<1>5. CASE ReadFails
  BY <1>1, <1>5, RestListInv DEF ReadFails
<1>6. ASSUME NEW cpu \in Cpus, Hotplug(cpu) PROVE ListInv'
  <2>1. /\ hotplugs' = hotplugs + 1 /\ online' \subseteq Cpus
        /\ UNCHANGED <<cores, listing, result, seen>>
    BY <1>1, <1>6 DEF Hotplug
  <2>2. hotplugs' \in Nat
    BY <1>1, <2>1
  <2> QED
    BY <1>1, <2>1, <2>2, RestListInv
<1> QED
  BY <1>2, <1>3, <1>4, <1>5, <1>6 DEF ListNext

THEOREM ListInvariant == MCSpec => []ListInv
<1>1. MCInit => ListInv
  BY MCInitListInv
<1>2. ListInv /\ [MCNext]_<<vars, listVars>> => ListInv'
  <2> SUFFICES ASSUME ListInv, [MCNext]_<<vars, listVars>> PROVE ListInv'
    OBVIOUS
  <2>1. CASE ListNext
    BY <2>1, ListNextListInv
  <2>2. CASE UNCHANGED listVars
    <3>1. UNCHANGED <<cores, online, hotplugs, listing, result, seen>>
      BY <2>2 DEF listVars
    <3>2. /\ online \subseteq Cpus /\ hotplugs \in Nat
          /\ listing \in {"open", "read", "listed", "CouldNotReadCPUFile"}
      BY DEF ListInv
    <3> QED
      BY <3>1, <3>2, RestListInv
  <2> QED
    BY <2>1, <2>2 DEF MCNext
<1> QED
  BY <1>1, <1>2, PTL DEF MCSpec

LEMMA ListFollows == ListInv => CoresAreListed
<1> SUFFICES ASSUME ListInv PROVE CoresAreListed
  OBVIOUS
<1>1. PICK n \in Nat : n = Len(result) /\ DOMAIN result = 1..n
  BY LenProperties DEF ListInv
<1>2. ASSUME NEW k \in 1..n
      PROVE  /\ result[k].core_idx = k - 1 /\ k - 1 \in CpusRead(k)
             /\ Lists(CpusRead(k), 0, result[k].siblings)
             /\ CpusRead(k) \subseteq Nat
  <2>1. /\ result[k].core_idx = k - 1 /\ k - 1 \in CpusRead(k)
        /\ Lists(CpusRead(k), 0, result[k].siblings)
    BY <1>1 DEF ListInv
  <2>2. CpusRead(k) \subseteq Nat
    BY CpusAre DEF ListInv, CpusRead
  <2> QED
    BY <2>1, <2>2
<1>3. ASSUME NEW k \in 1..n, NEW s, s = result[k].siblings
      PROVE  /\ Range(s) = CpusRead(k) /\ s[1] \in CpusRead(k)
             /\ \A a, b \in DOMAIN s : a < b => s[a] < s[b]
  <2>1. CpusRead(k) \in SUBSET Nat /\ CpusRead(k) # {} /\ Lists(CpusRead(k), 0, s)
    BY <1>2, <1>3
  <2> QED
    BY <2>1, FirstIs
<1>4. \A k \in DOMAIN result :
          LET s == result[k].siblings
          IN  /\ result[k].core_idx = k - 1 /\ k - 1 \in Range(s)
              /\ Range(s) = CoreOf(k - 1) \cap seen[k]
              /\ \A a, b \in DOMAIN s : a < b => s[a] < s[b]
  <2> SUFFICES ASSUME NEW k \in 1..n, NEW s, s = result[k].siblings
               PROVE  /\ result[k].core_idx = k - 1 /\ k - 1 \in Range(s)
                      /\ Range(s) = CoreOf(k - 1) \cap seen[k]
                      /\ \A a, b \in DOMAIN s : a < b => s[a] < s[b]
    BY <1>1
  <2>1. CpusRead(k) = CoreOf(k - 1) \cap seen[k]
    BY DEF CpusRead
  <2>2. result[k].core_idx = k - 1 /\ k - 1 \in CpusRead(k)
    BY <1>2
  <2>3. Range(s) = CpusRead(k) /\ \A a, b \in DOMAIN s : a < b => s[a] < s[b]
    BY <1>3
  <2> QED
    BY <2>1, <2>2, <2>3
<1>5. listing \notin {"MalformedFile", "overrun"}
  BY DEF ListInv
<1>6. ASSUME NEW k \in DOMAIN result PROVE Firsts \cap CoreOf(k - 1) # {}
  <2>1. result[k].siblings[1] \in Firsts
    BY DEF Firsts
  <2>2. result[k].siblings[1] \in CoreOf(k - 1)
    BY <1>1, <1>3 DEF CpusRead
  <2> QED
    BY <2>1, <2>2
<1>7. \A c \in Range(cores) : Cardinality(Firsts \cap c) <= 1 + hotplugs
  BY DEF ListInv, FirstsAre
<1> QED
  BY <1>4, <1>5, <1>6, <1>7 DEF CoresAreListed

\* Each core listed is the one of its CPU, with every sibling that was online when
\* its file was read, ascending, also if CPUs come and go meanwhile; a core has one
\* first sibling, and at most one more for each CPU that came or went; and the
\* parser leaves what was read only if that ends in a number: on any machine, of
\* however many cores with however many CPUs whose lists fit what is read.
THEOREM ListsAreRight == MCSpec => []ListIsRight
<1>1. ListInv => ListIsRight
  BY ListFollows, ContentsAreInside DEF ListIsRight
<1> QED
  BY <1>1, ListInvariant, PTL
=============================================================================
