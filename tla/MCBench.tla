------------------------------ MODULE MCBench -------------------------------
(***************************************************************************)
(* What a benchmark relies on, for TLC: the list of cores its threads are  *)
(* pinned to, and the numbers it reports, samples of a Sample shown by     *)
(* UnitRepr.  The two share nothing; a behaviour does one of them.         *)
(*                                                                         *)
(* T is i16 and the samples are boundaries of the units.  C, and the type  *)
(* two i16 are added in, are 30 bits wide: TLC's integers have 32.         *)
(***************************************************************************)
EXTENDS Sample, UnitRepr, CpuList

I16Min == -32768
I30Min == -536870912

SecondsMinutesHours == <<1, 60, 3600>>      \* the last units of TimeScale
SMH == <<1, 1, 1>>                          \* lengths of their symbols

\* A scale that UnitScale accepts, with a ratio of one more than i16 holds.
HalfWords == <<1, 32768>>
HW == <<1, 1>>

Boundaries == {-32768, -3600, -61, 0, 59, 60, 599, 605, 3599, 32767}

\* Four CPUs: one core, or two with their threads next to each other or apart;
\* six on one core, whose lists have up to three runs.
Machines == {<<0..3>>, <<{0, 1}, {2, 3}>>, <<{0, 2}, {1, 3}>>, <<0..5>>}
NoMachine == <<>>

sampling == cores = NoMachine

MCInit ==
    /\ Init
    /\ \/ ListInit
       \/ /\ cores = NoMachine /\ online = {} /\ hotplugs = 0
          /\ listing = "listed" /\ result = <<>> /\ seen = <<>>

MCNext ==
    \/ sampling /\ Next /\ UNCHANGED listVars
    \/ ListNext /\ UNCHANGED vars

MCSpec == MCInit /\ [][MCNext]_<<vars, listVars>>

TRange == [min |-> TMin, max |-> TMax]
CRange == [min |-> CMin, max |-> CMax]

\* Every statistic a sample offers is shown rightly in every unit it may be in,
\* avg as a C and the others as a T: the extremes of T, their mean, and values
\* just below and at the next unit; and the buffer for the text is long enough.
ShownRight(T, v) == \A u \in Units : FitIsRight(T, v, u) /\ TextFits(T, v, u)

Statistics == {min, max} \cup {Percentile(k) : k \in 0..PercentileSteps}

ReportIsRight ==
    count > 0 => ShownRight(CRange, Avg) /\ \A v \in Statistics : ShownRight(TRange, v)

\* int_cast is for an "int<->int in range (does not truncate)" and asserts it
\* (cast.hpp:29 and 52); report.hpp:121 casts the ratio to T because the value, a
\* T, fills the unit.  The least value of a signed T fills a unit that is one
\* greater than its greatest value, so the property fails for such a scale.
CastsAreInRange ==
    count > 0 => \A v \in Statistics, u \in Units : CastIsInRange(TRange, v, u)

\* The list of cores is right; the parser by itself is looked at once, initially.
ListIsRight ==
    /\ CoresAreListed
    /\ ~sampling /\ hotplugs = 0 /\ i = 0 /\ listing = "open" => ParserStaysInside
=============================================================================
