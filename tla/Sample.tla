------------------------------- MODULE Sample -------------------------------
(***************************************************************************)
(* shclog::bench::sample::Sample (include/shclog/bench/sample.hpp): a      *)
(* fixed buffer of samples of an integer type T, with running summaries    *)
(* and statistics computed from the buffer when asked.                     *)
(*                                                                         *)
(* percentile() sorts the buffer in place the first time it is called      *)
(* after a push; total saturates once it overflows T and avg() then sums   *)
(* the buffer again for the wider type C.  min, max, total and avg change   *)
(* nothing and are operators here.  A percentile is k of PercentileSteps   *)
(* equal parts; the code's product of doubles is exact for such p when     *)
(* PercentileSteps is a power of two.  Floating-point T and C are left     *)
(* out.                                                                    *)
(***************************************************************************)
EXTENDS Integers, Sequences, FiniteSets, SequencesExt

CONSTANTS TMin, TMax,        \* the range of T
          PMin, PMax,        \* the range of the type in which two values of T
                             \* are added: int if T is narrower than int, else T
          CMin, CMax,        \* the range of C
          Values,            \* the samples that are pushed
          Size,              \* samples->len
          PercentileSteps

\* avg's static_assert: C is wider than T and keeps its sign.
ASSUME TypesAssumption ==
    /\ {TMin, PMin, CMin} \subseteq Int /\ {TMax, PMax, CMax} \subseteq Nat
    /\ PMin <= TMin /\ TMax <= PMax
    /\ CMin <= TMin /\ TMin <= 0 /\ 2 * (TMax - TMin + 1) <= CMax - CMin + 1
    /\ Values \subseteq TMin..TMax

ASSUME SizesAssumption == Size \in Nat /\ PercentileSteps \in Nat \ {0}

VARIABLES
    samples,          \* span(): the first `count' elements of the buffer
    samples_sorted,
    min, max,         \* _min and _max
    total,            \* _total
    pushed            \* history: what was pushed, in order

vars == <<samples, samples_sorted, min, max, total, pushed>>

count == Len(samples)

Init ==
    /\ samples = <<>>
    /\ samples_sorted = FALSE
    /\ min = TMax /\ max = TMin
    /\ total = [value |-> 0, overflow |-> FALSE]
    /\ pushed = <<>>

-----------------------------------------------------------------------------
(* Integer arithmetic of C++ *)

\* v / d, which truncates towards zero, for d > 0.
TruncDiv(v, d) == IF v >= 0 THEN v \div d ELSE -((-v) \div d)

\* The value of the type lo..hi that has the low bits of v.
Wrap(v, lo, hi) == lo + ((v - lo) % (hi - lo + 1))

\* The sums of the first n elements of s, for every n.
Sums(s) == LET f[n \in 0..Len(s)] == IF n = 0 THEN 0 ELSE f[n - 1] + s[n] IN f

Sum(s) == Sums(s)[Len(s)]

\* std::reduce from C{} on contiguous memory, as libstdc++ has it: elements are
\* taken in blocks of four and added in pairs before anything is a C, the rest
\* one by one.  For a signed T as wide as int an overflow of such a pair is
\* undefined; wrapping is what the build does.
Reduce(s) ==
    LET inBlocks == 4 * (Len(s) \div 4)
        pairs == [i \in 1..(inBlocks \div 2) |-> Wrap(s[2 * i - 1] + s[2 * i], PMin, PMax)]
    IN  Wrap(Sum(pairs) + Sum(SubSeq(s, inBlocks + 1, Len(s))), CMin, CMax)

\* _total = add_with_overflow(_total.value, v), saturated.
AddWithOverflow(a, v) ==
    IF a + v \in TMin..TMax
    THEN [value |-> a + v, overflow |-> FALSE]
    ELSE [value |-> TMax, overflow |-> TRUE]

-----------------------------------------------------------------------------
(* Operations *)

\* Mutant of Push: the buffer still counts as sorted.
Push_StaysSorted(v) ==
    /\ count < Size
    /\ samples' = Append(samples, v)
    /\ pushed' = Append(pushed, v)
    /\ min' = IF v < min THEN v ELSE min
    /\ max' = IF v > max THEN v ELSE max
    /\ total' = IF total.overflow THEN total ELSE AddWithOverflow(total.value, v)
    /\ UNCHANGED samples_sorted

\* Mutant of Push: the overflow is forgotten by the next push.
Push_NotSticky(v) ==
    /\ count < Size
    /\ samples' = Append(samples, v)
    /\ pushed' = Append(pushed, v)
    /\ samples_sorted' = FALSE
    /\ min' = IF v < min THEN v ELSE min
    /\ max' = IF v > max THEN v ELSE max
    /\ total' = AddWithOverflow(total.value, v)

\* A push into a full buffer returns BufferFull and changes nothing.
Push(v) ==
    /\ count < Size
    /\ samples' = Append(samples, v)
    /\ pushed' = Append(pushed, v)
    /\ samples_sorted' = FALSE
    /\ min' = IF v < min THEN v ELSE min
    /\ max' = IF v > max THEN v ELSE max
    /\ total' = IF total.overflow THEN total ELSE AddWithOverflow(total.value, v)

\* std::ranges::sort: the elements of s from the least to the greatest.
Ascending(s) ==
    LET order == CHOOSE p \in [DOMAIN s -> DOMAIN s] :
                    /\ \A k \in 2..Len(s) : s[p[k - 1]] <= s[p[k]]
                    /\ IsInjective(p)
    IN  [k \in DOMAIN s |-> s[order[k]]]

Sorted == IF samples_sorted THEN samples ELSE Ascending(samples)

\* What a call of percentile leaves behind.
SortSamples ==
    /\ count > 0
    /\ ~samples_sorted
    /\ samples' = Sorted
    /\ samples_sorted' = TRUE
    /\ UNCHANGED <<min, max, total, pushed>>

Next == (\E v \in Values : Push(v)) \/ SortSamples

Spec == Init /\ [][Next]_vars

\* (*samples)[idx], where the code's indices begin at 0.
PercentileIndex(k) == (k * (count - 1)) \div PercentileSteps

Percentile(k) == Sorted[PercentileIndex(k) + 1]

\* Mutant of Avg: the saturated total is divided.
Avg_OfTotal == TruncDiv(total.value, Wrap(count, CMin, CMax))

\* avg<C>() for an integer C: the buffer is summed again after an overflow.
Avg ==
    TruncDiv(IF total.overflow THEN Reduce(samples) ELSE total.value,
             Wrap(count, CMin, CMax))

-----------------------------------------------------------------------------
(* Properties *)

\* percentile returns the sample of its rank among everything pushed so far,
\* however pushes and percentiles alternate: a push after a sort is not missed,
\* and sorting in place loses nothing.
PercentileIsRank ==
    count > 0 => \A k \in 0..PercentileSteps :
        LET Below(x) == {i \in DOMAIN pushed : pushed[i] < x}
            UpTo(x) == {i \in DOMAIN pushed : pushed[i] <= x}
        IN  /\ Cardinality(Below(Percentile(k))) <= PercentileIndex(k)
            /\ PercentileIndex(k) < Cardinality(UpTo(Percentile(k)))

\* min, max and total are those of everything pushed; overflow is reported
\* exactly if some sum on the way left T, also when a later one is back in it.
\* The buffer never holds more than it has room for.
Exact(n) == Sums(pushed)[n]

SummaryIsExact ==
    /\ count = Len(pushed) /\ count <= Size
    /\ count > 0 => {min, max} \subseteq Range(pushed)
    /\ \A i \in DOMAIN pushed : min <= pushed[i] /\ pushed[i] <= max
    /\ total.overflow <=> \E n \in DOMAIN pushed : Exact(n) \notin TMin..TMax
    /\ ~total.overflow => total.value = Exact(Len(pushed))

\* avg is the mean, truncated, whenever the sum and the count fit C: an overflow
\* of total does not show in it.  It is what the static_assert (sample.hpp:106-112)
\* says a C wider than T "that keeps its sign" is needed for: "to recover from
\* total overflow".
MeanOfPushed == TruncDiv(Sum(pushed), Len(pushed))

AvgRecovers ==
    count > 0 /\ {Sum(pushed), Len(pushed)} \subseteq CMin..CMax => Avg = MeanOfPushed
=============================================================================
