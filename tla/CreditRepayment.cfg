SPECIFICATION RepaymentSpec
CONSTANTS
    alice = alice
    c1 = c1
    c2 = c2
    c3 = c3
    r1 = r1
    r2 = r2
    Scheduler = Scheduler
    Free = Free
    Users = {alice}
    Accounts <- OneAccount
    Owner <- OneOwner
    Credits <- OneCredit
    Account <- OneAccountOf
    Principal <- OnePrincipal
    Monthly <- OneMonthly
    Term <- OneTerm
    Turn <- OneTurn
    Opening <- OneOpening
    Issued = {c1}
    Requests <- MCRequests
    Prepayments <- OnePrepayments
    Amounts = {10}
    Checks <- Policy
    MaxActive = 1
    MaxPrincipal = 18
    MaxTotal = 18
    MaxLoad = 20
    BatchLimit = 2
    MaxBalance = 24
    Horizon = 2
    MaxFaults = 1
    MaxTerm = 4
    MaxMonthly = 6
SYMMETRY Symmetry
INVARIANTS
    DebtFallsByThePrepayment
    PlanStaysLevel
    ClosedMeansPaid
    DebtAccountedFor
    BalanceMatchesTransactions
    OverdueShowsOnCredit
    OnlyPrepaymentsDeadlock
