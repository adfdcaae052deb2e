SPECIFICATION Spec
CONSTANTS
    TMin = 0
    TMax = 3
    PMin = 0
    PMax = 3
    CMin = 0
    CMax = 15
    Size = 4
    PercentileSteps = 4
    Values = {0, 1, 2, 3}
INVARIANTS AvgRecovers
CHECK_DEADLOCK FALSE
