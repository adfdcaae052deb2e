SPECIFICATION Spec
CONSTANTS
    NULL = NULL
    Producers = {p1, p2}
    LinesPerProducer = 1
    MaxIoBytes = 3
INVARIANTS AllLinesConsumedAtEnd
CHECK_DEADLOCK FALSE
