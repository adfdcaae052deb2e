SPECIFICATION FairSpec
CONSTANTS
    NULL = NULL
    Reqs = {r1, r2}
    Created <- SqPollRing
    W = 8
    MaxFailures = 0
PROPERTIES PopReturns
CHECK_DEADLOCK FALSE
