SPECIFICATION Spec
CONSTANTS
    r1 = r1
    r2 = r2
    r3 = r3
    r4 = r4
    None = None
    Requests <- FourRequests
    TTL = 1
    MaxTime = 2
SYMMETRY Symmetry
INVARIANT
    OneValidSession
CHECK_DEADLOCK FALSE
