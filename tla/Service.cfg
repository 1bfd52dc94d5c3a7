SPECIFICATION Spec
CONSTANTS
    p1 = p1
    p2 = p2
    c1 = c1
    c2 = c2
    s1 = s1
    s2 = s2
    proxy = proxy
    address = address
    user = user
    None = None
    MaxTime = 5
    Handlers = {p1, p2}
    Calls <- MCCalls
    TrustedProxies = {proxy}
    Limit <- MCLimit
    Window <- MCWindow
    CleanupInterval = 2
    Stall = 1
    RateRequests = {p1, p2}
    CacheTTL = 1
    FailureLimit = 2
    ResetTimeout = 2
    RateDeadline = 1
    MaxRates = 2
    Connections = {c1, c2}
    Schedulers = {s1, s2}
    ShutdownTimeout = 2
    ann = ann
    ben = ben
    dan = dan
    a1 = a1
    a2 = a2
    b1 = b1
    k1 = k1
    k2 = k2
    Null = Null
    Applicants = {ann, ben, dan}
    Email <- MCEmail
    Username <- MCUsername
    Accounts = {a1, a2, b1}
    Owner <- MCOwner
    Cards = {k1, k2}
    CardAccount <- MCCardAccount
    Amounts = {1, 2}
    ListLimit = 2
    MaxRows = 3
INVARIANTS
    AdmissionsSpread
    FreshRateIsRecent
    CallsAreSpared
    DatabaseOutlivesWork
    FirstUsersAdminister
    StatisticsMatchBalances
    ReportsMoveForward
PROPERTY
    SignalEndsProcess
CHECK_DEADLOCK FALSE
