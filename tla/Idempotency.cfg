SPECIFICATION FairSpec
CONSTANTS
    p1 = p1
    p2 = p2
    p3 = p3
    k1 = k1
    b1 = b1
    b2 = b2
    NoRow = NoRow
    NoResponse = NoResponse
    NoKey = NoKey
    Requests <- ThreeRequests
    Keys = {k1}
    Bodies = {b1, b2}
    StatementsFail = TRUE
    CommitReplyLost = FALSE
INVARIANTS
    AtMostOnce
    ReplayIsFaithful
    ClaimIsExclusive
PROPERTY
    NoClaimForEver
CHECK_DEADLOCK FALSE
