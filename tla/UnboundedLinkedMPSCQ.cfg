SPECIFICATION FairSpec
CONSTANTS
    NULL = NULL
    stub = stub
    Producers = {p1, p2}
    Nodes = {n1, n2, n3}
INVARIANTS
    TypeOK
    ChainIntact
    NoUseAfterFree
    NoItemLeaks
PROPERTIES
    NullMeansEmptyOrRacing
    ImplementsChannel
    EveryItemDelivered
\* The run ends when the queue was destroyed.
CHECK_DEADLOCK FALSE
