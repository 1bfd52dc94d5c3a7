SPECIFICATION Spec
CONSTANTS
    alice = alice
    bob = bob
    r1 = r1
    r2 = r2
    r3 = r3
    c1 = c1
    c2 = c2
    c3 = c3
    c4 = c4
    Free = Free
    NoOp = NoOp
    NoCode = NoCode
    Accounts <- MCAccounts
    Users = {alice, bob}
    Owner <- MCOwner
    Codes <- MCCodes
    Ops <- MCOps
    CodeOp <- MCCodeOp
    Existing = {1}
    Opening <- MCOpening
    Indebted = {}
    Requests <- MCRequests
SYMMETRY Symmetry
INVARIANTS
    BalanceMatchesLedger
    DebitStaysCovered
    ClosedAccountIsEmpty
    CodeAuthorisesOnce
    NoDeadlock
PROPERTY
    ImplementsBank
    UnavailableIsFrozen
CHECK_DEADLOCK FALSE
