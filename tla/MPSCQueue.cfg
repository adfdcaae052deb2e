SPECIFICATION FairSpec
CONSTANTS
    NULL = NULL
    Producers = {p1, p2, p3}
    max = 2
    Quota = 2
INVARIANTS
    TypeOK
    RingInv
    NoOverwrite
    CountAccounts
    NullMeansPending
    NothingLost
    DrainLeavesNothing
PROPERTIES
    ImplementsChannel
    EverythingDelivered
\* The run ends when the queue was destroyed.
CHECK_DEADLOCK FALSE
