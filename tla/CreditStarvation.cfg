SPECIFICATION FairSpec
CONSTANTS
    alice = alice
    c1 = c1
    c2 = c2
    c3 = c3
    r1 = r1
    r2 = r2
    Scheduler = Scheduler
    Free = Free
    Users = {alice}
    Accounts <- TwoAccounts
    Owner <- TwoOwner
    Credits <- RetryCredits
    Account <- RetryAccount
    Principal <- RetryPrincipal
    Monthly <- RetryMonthly
    Term <- RetryTerm
    Turn <- RetryTurn
    Opening <- RetryOpening
    Issued = {c1, c2}
    Requests = {r1}
    Prepayments <- RetryPrepayments
    Amounts = {11}
    Checks <- Policy
    MaxActive = 2
    MaxPrincipal = 18
    MaxTotal = 36
    MaxLoad = 20
    BatchLimit = 2
    MaxBalance = 12
    Horizon = 2
    MaxFaults = 1
PROPERTY
    FundedPaymentIsCharged
