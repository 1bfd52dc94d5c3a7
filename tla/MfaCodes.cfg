SPECIFICATION Spec
CONSTANTS
    r1 = r1
    r2 = r2
    a1 = a1
    a2 = a2
    NoCode = NoCode
    Requests <- MCRequests
    Attempts <- MCAttempts
    MaxFailures = 2
    Lockout = 3
    Cooldown = 2
    Lifetime = 2
    Deadline = 1
    MaxTime = 6
SYMMETRY Symmetry
INVARIANTS
    OneActiveCode
    GuessesLimited
PROPERTY
    NewestAuthorises
CHECK_DEADLOCK FALSE
