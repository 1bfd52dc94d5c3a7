SPECIFICATION Spec
CONSTANTS
    r1 = r1
    r2 = r2
    r3 = r3
    r4 = r4
    None = None
    Requests <- FourRequests
    TTL = 1
    MaxTime = 2
SYMMETRY Symmetry
INVARIANTS
    OlderSessionsEnd
    RevokedWithinTTL
    ValidNotRejected
PROPERTY
    NoRevival
CHECK_DEADLOCK FALSE
