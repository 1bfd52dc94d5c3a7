SPECIFICATION MCSpec
CONSTANTS
    alice = alice
    bob = bob
    k1 = k1
    k2 = k2
    k3 = k3
    c1 = c1
    c2 = c2
    v1 = v1
    r1 = r1
    r2 = r2
    Nothing = Nothing
    Accounts <- MCAccounts
    Users = {alice, bob}
    Owner <- MCOwner
    Codes = {c1, c2}
    Ops <- MCOps
    CodeOp <- MCCodeOp
    Existing = {1, 2}
    Opening <- MCOpening
    Indebted = {}
    Cards <- MCCards
    CardAccount <- MCCardAccount
    Expires <- MCExpires
    Issued = {k1, k2}
    Asks <- MCAsks
    RevealCodes = {v1}
    CodeAsk <- MCCodeAsk
    Requests = {r1, r2}
    MaxFailures = 2
    Lockout = 2
    MaxCreations = 2
    Deadline = 1
    MaxTime = 3
SYMMETRY Symmetry
INVARIANTS
    GuessesSpread
PROPERTIES
    ClosedCardStops
    NoCardAfterClosing
CHECK_DEADLOCK FALSE
