------------------------------ MODULE UnitRepr ------------------------------
(***************************************************************************)
(* shclog::bench::report::UnitRepr (include/shclog/bench/report.hpp): how  *)
(* a value in one unit of a scale is shown in the biggest unit it fills,   *)
(* with one decimal below ten, and how long the text is.  Integer values   *)
(* only; the template's type T is a record of its least and greatest       *)
(* values.                                                                 *)
(***************************************************************************)
EXTENDS Integers, Sequences, FiniteSetsExt

CONSTANTS Scales,      \* S::scale of each unit, smallest unit first
          Symbols      \* the length in bytes of S::symbol of each unit

Units == 1..Len(Scales)
LastUnit == Len(Scales)

\* unit_scales_fit, without its bound on the last scale.
ASSUME ScalesAssumption ==
    /\ Scales \in Seq(Nat \ {0}) /\ Len(Scales) >= 1
    /\ \A u \in Units \ {1} : Scales[u] % Scales[u - 1] = 0
    /\ Symbols \in Seq(Nat) /\ Len(Symbols) = Len(Scales)

Magnitude(v) == IF v < 0 THEN -v ELSE v

\* C++ v / d, which truncates towards zero.
Quotient(v, d) ==
    LET q == Magnitude(v) \div Magnitude(d) IN IF v < 0 <=> d < 0 THEN q ELSE -q

\* int_cast<T>(n): where assert(std::in_range<T>(n)) is compiled out, the value
\* of T that has the low bits of n.
IntCast(n, T) == T.min + ((n - T.min) % (T.max - T.min + 1))

Ratio(from, to) == Scales[to] \div Scales[from]

\* Mutant of FillsUnit: a value of exactly one unit stays in the smaller one.
FillsUnit_Strict(v, from, to) == Magnitude(v) > Ratio(from, to)

FillsUnit(v, from, to) == v >= Ratio(from, to) \/ v <= -Ratio(from, to)

\* The loop goes up from u while the next unit is filled.
BiggestUnitFit(v, u) ==
    Max({t \in u..LastUnit : \A s \in (u + 1)..t : FillsUnit(v, u, s)})

\* The value is divided by what the ratio is as a T.  The remainder is multiplied
\* before it is divided by the ratio itself, to give the tenth.
Fit(T, v, u) ==
    LET unit == BiggestUnitFit(v, u)
        ratio == Ratio(u, unit)
        ratioInT == IntCast(ratio, T)
        whole == Quotient(v, ratioInT)
        rem == Magnitude(v) % Magnitude(ratioInT)
        decimal == ratio # 1 /\ whole < 10 /\ whole > -10
    IN  [whole |-> whole,
         tenth |-> IF decimal THEN (rem * 10) \div ratio ELSE 0,
         unit  |-> unit]

\* Digits of n >= 0.
Digits(n) == LET d[m \in 0..n] == IF m < 10 THEN 1 ELSE d[m \div 10] + 1 IN d[n]

\* std::numeric_limits<T>::digits10: T holds any number of that many digits.
Digits10(T) == Digits(T.max) - 1

\* Mutant of ReprMaxLen: no room for the sign.
ReprMaxLen_NoSign(T) == Digits10(T) + 1 + 1 + Max({Symbols[u] : u \in Units})

\* REPR_MAX_LEN<T>.
ReprMaxLen(T) == Digits10(T) + 1 + 1 + 1 + Max({Symbols[u] : u \in Units})

\* write: the number, a point and the tenth unless it is zero, a space and the
\* symbol.  It returns their length, or refuses when one does not fit.
BufferTooSmall == -1

Write(r, len) ==
    LET number == (IF r.whole < 0 THEN 1 ELSE 0) + Digits(Magnitude(r.whole))
        decimal == IF r.tenth # 0 THEN 2 ELSE 0
        text == number + decimal + 1 + Symbols[r.unit]
    IN  IF text <= len THEN text ELSE BufferTooSmall

-----------------------------------------------------------------------------

\* The ratio fit divides by is a value of T, as int_cast asserts.
CastIsInRange(T, v, u) == Ratio(u, BiggestUnitFit(v, u)) \in T.min..T.max

\* What a reader takes from the text is the value, cut off towards zero at the
\* last place shown, with its sign, in the biggest unit it fills; and no
\* assertion failed on the way.
FitIsRight(T, v, u) ==
    LET r == Fit(T, v, u)
        ratio == Ratio(u, r.unit)
        shown == (10 * Magnitude(r.whole) + r.tenth) * ratio     \* in tenths
        place == IF Magnitude(r.whole) < 10 THEN ratio ELSE 10 * ratio
    IN  /\ CastIsInRange(T, v, u)
        /\ shown <= 10 * Magnitude(v)
        /\ 10 * Magnitude(v) < shown + place \/ ratio = 1
        /\ r.tenth \in 0..9
        /\ v # 0 => (r.whole > 0 <=> v > 0) /\ r.whole # 0
        /\ r.unit # u => Magnitude(r.whole) >= 1
        /\ r.unit # LastUnit => Magnitude(v) < Ratio(u, r.unit + 1)

\* REPR_MAX_LEN, the length the callers' buffers have, is enough for the text of
\* the value.
TextFits(T, v, u) == Write(Fit(T, v, u), ReprMaxLen(T)) # BufferTooSmall
=============================================================================
