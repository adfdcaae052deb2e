SPECIFICATION MCSpec
CONSTANTS
    TMin <- I16Min
    TMax = 32767
    PMin <- I30Min
    PMax = 536870911
    CMin <- I30Min
    CMax = 536870911
    Size = 4
    PercentileSteps = 4
    Values <- Boundaries
    Scales <- HalfWords
    Symbols <- HW
    Topologies <- Machines
    MaxHotplugs = 2
    MaxContent = 5
INVARIANT CastsAreInRange
\* The run ends when the buffer is full and sorted, or the cores are listed.
CHECK_DEADLOCK FALSE
