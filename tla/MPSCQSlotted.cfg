SPECIFICATION FairSpec
CONSTANTS
    NULL = NULL
    Producers = {p1, p2}
    Items = {i1, i2, i3, i4}
    N = 2
    W = 8
INVARIANTS
    TypeOK
    NoDataRace
    CellsInStep
PROPERTIES
    ImplementsChannel
    EveryItemDelivered
