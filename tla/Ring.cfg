SPECIFICATION Spec
CONSTANTS
    NULL = NULL
    Reqs = {r1, r2, r3}
    Created <- Rings
    W = 8
    MaxFailures = 2
SYMMETRY Symmetry
INVARIANTS TypeOK NoRequestLost StrandedStay
PROPERTIES InOrderUntilFailure
CHECK_DEADLOCK FALSE
