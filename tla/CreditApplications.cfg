SPECIFICATION Spec
CONSTANTS
    alice = alice
    c1 = c1
    c2 = c2
    c3 = c3
    r1 = r1
    r2 = r2
    Scheduler = Scheduler
    Free = Free
    Users = {alice}
    Accounts <- TwoAccounts
    Owner <- TwoOwner
    Credits <- ThreeCredits
    Account <- ThreeAccount
    Principal <- ThreePrincipal
    Monthly <- ThreeMonthly
    Term <- ThreeTerm
    Turn <- ThreeTurn
    Opening <- ThreeOpening
    Issued = {c1}
    Requests <- MCRequests
    Prepayments = {}
    Amounts = {2}
    Checks <- Policy
    MaxActive = 2
    MaxPrincipal = 9
    MaxTotal = 18
    MaxLoad = 20
    BatchLimit = 2
    MaxBalance = 11
    Horizon = 2
    MaxFaults = 0
SYMMETRY Symmetry
INVARIANTS
    TypeOK
    ActiveCreditsLimited
    ClosedAccountOwesNothing
