SPECIFICATION MCSpec
CONSTANTS
    TMin <- I16Min
    TMax = 32767
    PMin <- I30Min
    PMax = 536870911
    CMin <- I30Min
    CMax = 536870911
    Size = 4
    PercentileSteps = 4
    Values <- Boundaries
    Scales <- SecondsMinutesHours
    Symbols <- SMH
    Topologies <- Machines
    MaxHotplugs = 2
    MaxContent = 5
INVARIANTS PercentileIsRank SummaryIsExact AvgRecovers ReportIsRight ListIsRight
\* The run ends when the buffer is full and sorted.
CHECK_DEADLOCK FALSE
