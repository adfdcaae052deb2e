SPECIFICATION FairSpec
CONSTANTS
    NULL = NULL
    Producers = {p1, p2}
    LinesPerProducer = 2
    MaxIoBytes = 3
INVARIANTS TypeOK OneInFlight NoLineLost FileIsExpected
PROPERTIES BufferStable Ends
CHECK_DEADLOCK FALSE
