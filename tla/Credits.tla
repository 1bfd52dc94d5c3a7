------------------------------ MODULE Credits ------------------------------
(***************************************************************************)
(* Credits from issue to payoff: the transactions of CreditRepository that *)
(* issue and prepay a credit, and the scheduler that charges instalments,  *)
(* running concurrently with each other and with everything else that      *)
(* moves the balances of the accounts the credits are on.                  *)
(*                                                                         *)
(* A transaction takes its locks one statement at a time; once it holds    *)
(* the rows it writes, the rest of it is a single step (Ledger shows why   *)
(* that is sound).  MFA codes are in Ledger: here a refused code is one    *)
(* of the reasons for which a transaction fails.                           *)
(***************************************************************************)
EXTENDS Prepayment, FiniteSets, FiniteSetsExt

CONSTANTS
    Accounts, Users, Owner,
    Credits,        \* the credits ever asked for, by terms:
    Account,        \*   the account each is paid to and charged from,
    Principal,      \*   the amount lent,
    Monthly, Term,  \*   the annuity payment and the number of instalments
    Turn,           \* (payment_date, id) of each instalment, as one number
    Issued,         \* the credits issued before the first step
    Opening,        \* the balances at the first step
    Checks,         \* what the credit policy looks at: nothing when disabled
    MaxActive, MaxPrincipal, MaxTotal, MaxLoad,     \* its limits
    BatchLimit,     \* LIMIT of FindDuePayments
    Requests, Scheduler, Free,
    Prepayments,    \* [credit, amount, mode] users ask for
    Amounts,        \* what deposits and other operations move
    MaxBalance, Horizon, MaxFaults  \* bounds: balances, days, scheduler faults

Instalments == UNION {{<<c, i>> : i \in 1..Term[c]} : c \in Credits}
Rows == [table : {"user"}, id : Users] \cup [table : {"account"}, id : Accounts]
        \cup [table : {"credit"}, id : Credits]
        \cup [table : {"instalment"}, id : Instalments]
Processes == Requests \cup {Scheduler}
Modes == {"reduce_term", "reduce_payment", "full_close"}
NoJob == [kind |-> "none"]
Jobs == {NoJob} \cup [kind : {"issue"}, credit : Credits]
        \cup [kind : {"prepay"}, credit : Credits, amount : Nat \ {0}, mode : Modes]
        \cup [kind : {"charge"}, credit : Credits, instalment : Instalments]

(* The instalments of a credit fall due in order.  A policy that is        *)
(* enabled looks at overdue credits, and at the limits that are set.       *)
ASSUME CreditsAssumption ==
    /\ Owner \in [Accounts -> Users]
    /\ Account \in [Credits -> Accounts]
    /\ Principal \in [Credits -> Nat \ {0}]
    /\ Monthly \in [Credits -> Nat \ {0}]
    /\ Term \in [Credits -> Nat \ {0}]
    /\ Turn \in [Instalments -> Nat]
    /\ \A x, y \in Instalments : x # y => Turn[x] # Turn[y]
    /\ \A x, y \in Instalments : x[1] = y[1] /\ x[2] < y[2] => Turn[x] < Turn[y]
    /\ IsFiniteSet(Credits)
    /\ Issued \subseteq Credits
    /\ Opening \in [Accounts -> Nat]
    /\ Checks \subseteq {"principal", "overdue", "active", "total", "load"}
    /\ Checks # {} => "overdue" \in Checks
    /\ MaxActive \in Nat /\ Horizon \in Nat /\ MaxFaults \in Nat
    /\ Amounts \subseteq Nat
    /\ "active" \in Checks => \A u \in Users :
          Cardinality({c \in Issued : Owner[Account[c]] = u}) <= MaxActive
    /\ BatchLimit \in Nat \ {0}
    /\ Scheduler \notin Requests
    /\ Free \notin Processes
    /\ \A o \in Prepayments :
          /\ o.credit \in Credits
          /\ o.amount \in Nat \ {0}
          /\ o.mode \in Modes

VARIABLES
    balance, closed, blocked,   \* accounts
    status,     \* credits.status, "absent" before the row is inserted
    principal,  \* credits.principal_amount
    monthly,    \* credits.monthly_payment
    state,      \* payment_schedules.status
    amount,     \* payment_schedules.amount
    penalty,    \* payment_schedules.penalty_amount
    charged,    \* sum of the transactions that repay each credit
    net,        \* what all other transactions add up to on each account
    today,      \* CURRENT_DATE, on the scale of Turn
    pc, job,    \* the next statement of each process, and what it is doing
    lock,       \* the holder of each row, or of a user's advisory lock
    batch,      \* due instalments the scheduler read and has not processed
    faults      \* how often a scheduler transaction has failed

accountVars == <<balance, closed, blocked, net>>
creditVars  == <<status, principal, monthly, state, amount, penalty, charged>>
processVars == <<pc, job, lock, batch, faults>>
vars == <<accountVars, creditVars, today, processVars>>

----------------------------------------------------------------------------
(* Helpers *)

User(u)       == [table |-> "user", id |-> u]
AccountRow(a) == [table |-> "account", id |-> a]
CreditRow(c)  == [table |-> "credit", id |-> c]
ScheduleRow(x) == [table |-> "instalment", id |-> x]

InstalmentsOf(c) == {<<c, i>> : i \in 1..Term[c]}
PendingOf(c) == {x \in InstalmentsOf(c) : state[x] = "pending"}
Borrower(c)  == Owner[Account[c]]
Available(a) == ~closed[a] /\ ~blocked[a]

LiveCredits(u) == {c \in Credits : Borrower(c) = u /\ status[c] \in {"active", "overdue"}}

(* buildCreditPolicyDecisionFromSummary: the debt load only limits users   *)
(* that already pay a credit.                                              *)
Eligible(c) ==
    LET live == LiveCredits(Borrower(c))
    IN  /\ "principal" \in Checks => Principal[c] <= MaxPrincipal
        /\ "overdue" \in Checks => \A d \in live : status[d] # "overdue"
        /\ "active" \in Checks => Cardinality(live) < MaxActive
        /\ "total" \in Checks =>
               SumFunctionOnSet(principal, live) + Principal[c] <= MaxTotal
        /\ "load" \in Checks /\ live # {} =>
               SumFunctionOnSet(monthly, live) + Monthly[c] <= MaxLoad

(* ORDER BY payment_date, id.                                              *)
InTurn(S) ==
    CHOOSE s \in [1..Cardinality(S) -> S] :
        \A i, j \in 1..Cardinality(S) : i < j => Turn[s[i]] < Turn[s[j]]

(* The pending amounts in payment order, as findPendingCreditPayments-     *)
(* ForUpdate returns them.                                                 *)
PendingSeq(c) == InTurn(PendingOf(c))
Plan(c) == [i \in 1..Len(PendingSeq(c)) |-> amount[PendingSeq(c)[i]]]

(* ROUND(amount * 0.10, 2), in cents. *)
Tenth(n) == (n + 5) \div 10

----------------------------------------------------------------------------
Init ==
    /\ balance = Opening
    /\ closed = [a \in Accounts |-> FALSE]
    /\ blocked = [a \in Accounts |-> FALSE]
    /\ status = [c \in Credits |-> IF c \in Issued THEN "active" ELSE "absent"]
    /\ principal = Principal
    /\ monthly = Monthly
    /\ state = [x \in Instalments |-> IF x[1] \in Issued THEN "pending" ELSE "absent"]
    /\ amount = [x \in Instalments |-> Monthly[x[1]]]
    /\ penalty = [x \in Instalments |-> 0]
    /\ charged = [c \in Credits |-> 0]
    /\ net = [a \in Accounts |-> Opening[a] -
                 SumFunctionOnSet(Principal, {c \in Issued : Account[c] = a})]
    /\ today = 0
    /\ pc = [p \in Processes |-> "idle"]
    /\ job = [p \in Processes |-> NoJob]
    /\ lock = [r \in Rows |-> Free]
    /\ batch = <<>>
    /\ faults = 0

(* The statements of the three transactions, in order. *)
CreateWithScheduleAndIssue ==
    [start |-> "lockUser",
     lockUser |-> "lockAccount", lockAccount |-> "assess", assess |-> "issue"]
PrepayAccountFirst ==
    [start |-> "lockAccount", lockAccount |-> "lockCredit",
     lockCredit |-> "lockPending", lockPending |-> "prepay"]
Prepay ==
    [start |-> "lockCredit", lockCredit |-> "lockAccount",
     lockAccount |-> "lockPending", lockPending |-> "prepay"]
ProcessPayment ==
    [start |-> "lockInstalment", lockInstalment |-> "lockCredit",
     lockCredit |-> "lockAccount", lockAccount |-> "charge"]

Method(kind) == CASE kind = "issue"  -> CreateWithScheduleAndIssue
                  [] kind = "prepay" -> Prepay
                  [] kind = "charge" -> ProcessPayment

Then(p) == pc' = [pc EXCEPT ![p] = Method(job[p].kind)[pc[p]]]

Start(p, j) ==
    /\ pc[p] = "idle"
    /\ pc' = [pc EXCEPT ![p] = Method(j.kind).start]
    /\ job' = [job EXCEPT ![p] = j]
    /\ UNCHANGED <<accountVars, creditVars, today, lock, faults>>

(* Commit or rollback ends the transaction and frees its locks.            *)
End(p) ==
    /\ pc' = [pc EXCEPT ![p] = "idle"]
    /\ job' = [job EXCEPT ![p] = NoJob]
    /\ lock' = [r \in Rows |-> IF lock[r] = p THEN Free ELSE lock[r]]
    /\ UNCHANGED <<today, batch, faults>>

Abort(p) == End(p) /\ UNCHANGED <<accountVars, creditVars>>

(* The statement locks rows and, judging by what it then reads, goes on.   *)
LockNothing(p, rows, verdict) ==
    \/ /\ verdict
       /\ Then(p)
       /\ UNCHANGED <<accountVars, creditVars, today, job, lock, batch, faults>>
    \/ ~verdict /\ Abort(p)

Lock(p, rows, verdict) ==
    /\ \A r \in rows : lock[r] = Free
    /\ \/ /\ verdict
          /\ Then(p)
          /\ lock' = [r \in Rows |-> IF r \in rows THEN p ELSE lock[r]]
          /\ UNCHANGED <<accountVars, creditVars, today, job, batch, faults>>
       \/ ~verdict /\ Abort(p)

----------------------------------------------------------------------------
(* Requests *)

(* CreateCredit checks the policy once before it opens the transaction;    *)
(* its schedule starts a month ahead.                                      *)
CreateCredit(p, c) ==
    /\ status[c] = "absent"
    /\ \A q \in Requests \ {p} : job[q].kind = "issue" => job[q].credit # c
    /\ \A x \in InstalmentsOf(c) : Turn[x] > today
    /\ Available(Account[c])
    /\ Eligible(c)
    /\ Start(p, [kind |-> "issue", credit |-> c])
    /\ UNCHANGED batch

PrepayCredit(p, o) ==
    /\ Start(p, [kind |-> "prepay", credit |-> o.credit,
                 amount |-> o.amount, mode |-> o.mode])
    /\ UNCHANGED batch

(* pg_advisory_xact_lock serialises the credit creations of one user.      *)
LockUser(p) ==
    /\ pc[p] = "lockUser"
    /\ Lock(p, {User(Borrower(job[p].credit))}, TRUE)

LockAccount(p) ==
    /\ pc[p] = "lockAccount"
    /\ LET a == Account[job[p].credit]
       IN  Lock(p, {AccountRow(a)}, Available(a))

(* The policy again, on what is committed by now. *)
AssessNothing(p) == pc[p] = "assess" /\ Lock(p, {}, TRUE)
Assess(p) ==
    /\ pc[p] = "assess"
    /\ Lock(p, {}, Eligible(job[p].credit))

(* The rest of CreateWithScheduleAndIssue: the credit, its schedule and    *)
(* the principal on the account, all at once.                              *)
IssueCredit(p) ==
    LET c == job[p].credit
    IN  /\ pc[p] = "issue"
        /\ status' = [status EXCEPT ![c] = "active"]
        /\ state' = [x \in Instalments |-> IF x[1] = c THEN "pending" ELSE state[x]]
        /\ balance' = [balance EXCEPT ![Account[c]] = @ + Principal[c]]
        /\ UNCHANGED <<closed, blocked, net, principal, monthly, amount, penalty, charged>>
        /\ End(p)

(* A prepayment locks the credit, which must be active; the scheduler the  *)
(* credit of the instalment it locked, which must still be unpaid.         *)
LockCredit(p) ==
    /\ pc[p] = "lockCredit"
    /\ LET c == job[p].credit
       IN  \/ /\ job[p].kind = "prepay"
              /\ Lock(p, {CreditRow(c)}, status[c] = "active")
           \/ /\ job[p].kind = "charge"
              /\ Lock(p, {CreditRow(c)}, state[job[p].instalment] \in {"pending", "overdue"})

(* creditHasOverdueSchedule, then SELECT ... FOR UPDATE of the pending     *)
(* instalments, then the amount against the outstanding debt.  The rows    *)
(* are taken together or not at all, where PostgreSQL takes one by one;    *)
(* whoever holds one waits for nothing but what this transaction holds.    *)
LockPending(p) ==
    /\ pc[p] = "lockPending"
    /\ LET c == job[p].credit
       IN  Lock(p, {ScheduleRow(x) : x \in PendingOf(c)},
                /\ \A x \in InstalmentsOf(c) : state[x] # "overdue"
                /\ PendingOf(c) # {}
                /\ job[p].amount <= Outstanding(Plan(c)))

(* The plan becomes new, one amount per pending instalment; 0 means paid.  *)
Reschedule(c, new) ==
    LET pending == PendingSeq(c)
        At(x)   == CHOOSE i \in 1..Len(pending) : pending[i] = x
        Gone(x) == x \in PendingOf(c) /\ new[At(x)] = 0
    IN  /\ state' = [x \in Instalments |-> IF Gone(x) THEN "paid" ELSE state[x]]
        /\ amount' = [x \in Instalments |->
                         IF x \in PendingOf(c) /\ ~Gone(x) THEN new[At(x)] ELSE amount[x]]
        /\ monthly' = [monthly EXCEPT ![c] = NewMonthlyPayment(new)]
        /\ principal' = [principal EXCEPT ![c] = Outstanding(new)]
        /\ status' = [status EXCEPT ![c] = "active"]

(* The whole outstanding debt: every pending instalment is paid, and the   *)
(* credit closed.                                                          *)
PayOff(c) ==
    /\ state' = [x \in Instalments |-> IF x \in PendingOf(c) THEN "paid" ELSE state[x]]
    /\ status' = [status EXCEPT ![c] = "closed"]
    /\ principal' = [principal EXCEPT ![c] = 0]
    /\ UNCHANGED <<amount, monthly>>

(* The rest of Prepay. *)
PayAhead(p) ==
    LET c == job[p].credit
        a == Account[c]
        paid == job[p].amount
        left == Outstanding(Plan(c)) - paid
        New == IF job[p].mode = "reduce_term" THEN ReduceTerm(Plan(c), paid)
               ELSE ReducePayment(Plan(c), left)
        Accepted == /\ balance[a] >= paid
                    /\ \/ left = 0
                       \/ job[p].mode = "reduce_term"
                       \/ job[p].mode = "reduce_payment" /\ CanReducePayment(Plan(c), left)
    IN  /\ pc[p] = "prepay"
        /\ \/ /\ Accepted
              /\ IF left = 0 THEN PayOff(c) ELSE Reschedule(c, New)
              /\ balance' = [balance EXCEPT ![a] = @ - paid]
              /\ charged' = [charged EXCEPT ![c] = @ + paid]
              /\ UNCHANGED <<closed, blocked, net, penalty>>
              /\ End(p)
           \/ ~Accepted /\ Abort(p)

----------------------------------------------------------------------------
(* The scheduler *)

(* Without the overdue rows the scheduler would not retry them. *)
PendingRows == {x \in Instalments :
                   state[x] = "pending" /\ Turn[x] <= today /\ status[x[1]] \in {"active", "overdue"}}

DueRows == {x \in Instalments :
               /\ state[x] \in {"pending", "overdue"}
               /\ Turn[x] <= today
               /\ status[x[1]] \in {"active", "overdue"}}

FindDuePayments ==
    LET due == InTurn(DueRows)
    IN  /\ pc[Scheduler] = "idle"
        /\ batch = <<>>
        /\ due # <<>>
        /\ batch' = SubSeq(due, 1, Min({Len(due), BatchLimit}))
        /\ UNCHANGED <<accountVars, creditVars, today, pc, job, lock, faults>>

(* ProcessDuePayments takes the rows it read one after the other. *)
ProcessNext ==
    /\ batch # <<>>
    /\ Start(Scheduler, [kind |-> "charge", credit |-> Head(batch)[1],
                         instalment |-> Head(batch)])
    /\ batch' = Tail(batch)

LockInstalment(p) ==
    /\ pc[p] = "lockInstalment"
    /\ Lock(p, {ScheduleRow(job[p].instalment)}, TRUE)

(* paymentAmountForWithdrawal, and a version that never collects penalties. *)
DueWithoutPenalty(x) == amount[x]
DueAmount(x) == amount[x] + IF state[x] = "overdue" THEN penalty[x] ELSE 0

(* closeCreditIfFullyPaid, and a version that looks at pending rows only.  *)
NothingPending(c, x) == \A y \in InstalmentsOf(c) \ {x} : state[y] # "pending"
FullyPaid(c, x) == \A y \in InstalmentsOf(c) \ {x} : state[y] = "paid"

(* markPaymentPaid and the transactions rows. *)
PayInstalment(x, c, a) ==
    /\ state' = [state EXCEPT ![x] = "paid"]
    /\ status' = [status EXCEPT ![c] = IF FullyPaid(c, x) THEN "closed" ELSE @]
    /\ balance' = [balance EXCEPT ![a] = @ - DueAmount(x)]
    /\ charged' = [charged EXCEPT ![c] = @ + amount[x] + penalty[x]]
    /\ UNCHANGED <<closed, blocked, net, principal, monthly, amount, penalty>>

(* markPaymentOverdue and markCreditOverdue, and the first alone. *)
MarkPaymentOverdue(x, c) ==
    /\ state' = [state EXCEPT ![x] = "overdue"]
    /\ penalty' = [penalty EXCEPT ![x] = IF @ > 0 THEN @ ELSE Tenth(amount[x])]
    /\ UNCHANGED <<status, accountVars, principal, monthly, amount, charged>>
MarkOverdue(x, c) ==
    /\ state' = [state EXCEPT ![x] = "overdue"]
    /\ penalty' = [penalty EXCEPT ![x] = IF @ > 0 THEN @ ELSE Tenth(amount[x])]
    /\ status' = [status EXCEPT ![c] = "overdue"]
    /\ UNCHANGED <<accountVars, principal, monthly, amount, charged>>

(* The rest of ProcessPayment, and without a look at the balance. *)
ChargeAnyway(p) ==
    /\ pc[p] = "charge"
    /\ PayInstalment(job[p].instalment, job[p].credit, Account[job[p].credit])
    /\ End(p)
Charge(p) ==
    LET x == job[p].instalment
        c == job[p].credit
        a == Account[c]
    IN  /\ pc[p] = "charge"
        /\ \/ balance[a] >= DueAmount(x) /\ PayInstalment(x, c, a)
           \/ balance[a] < DueAmount(x) /\ state[x] = "pending" /\ MarkOverdue(x, c)
           \/ /\ balance[a] < DueAmount(x)
              /\ state[x] = "overdue"
              /\ UNCHANGED <<accountVars, creditVars>>
        /\ End(p)

----------------------------------------------------------------------------
(* Failures: an error, the deadline of a request, a deadlock that          *)
(* PostgreSQL breaks, a refused MFA code, a crash.                         *)

Fail(p) == pc[p] # "idle" /\ Abort(p)

(* The scheduler goes on with its batch after an error; the two minute     *)
(* deadline of a run, or a restart, drops the rest of it.                  *)
SchedulerFault ==
    /\ faults < MaxFaults
    /\ pc[Scheduler] # "idle"
    /\ faults' = faults + 1
    /\ batch' \in {batch, <<>>}
    /\ pc' = [pc EXCEPT ![Scheduler] = "idle"]
    /\ job' = [job EXCEPT ![Scheduler] = NoJob]
    /\ lock' = [r \in Rows |-> IF lock[r] = Scheduler THEN Free ELSE lock[r]]
    /\ UNCHANGED <<accountVars, creditVars, today>>

(* Operations on the account that are transactions of their own here.      *)
Unlocked(a) == lock[AccountRow(a)] = Free

Deposit(a, n) ==
    /\ Unlocked(a) /\ Available(a)
    /\ balance[a] + n <= MaxBalance
    /\ balance' = [balance EXCEPT ![a] = @ + n]
    /\ net' = [net EXCEPT ![a] = @ + n]
    /\ UNCHANGED <<closed, blocked, creditVars, today, processVars>>

Withdraw(a, n) ==
    /\ Unlocked(a) /\ Available(a)
    /\ balance[a] >= n
    /\ balance' = [balance EXCEPT ![a] = @ - n]
    /\ net' = [net EXCEPT ![a] = @ - n]
    /\ UNCHANGED <<closed, blocked, creditVars, today, processVars>>

SetAccountBlocked(a) ==
    /\ Unlocked(a)
    /\ blocked' = [blocked EXCEPT ![a] = ~@]
    /\ UNCHANGED <<balance, closed, net, creditVars, today, processVars>>

(* accountHasBlockingCredit; the weaker one knows active credits only.     *)
HasActiveCredit(a) == \E c \in Credits : Account[c] = a /\ status[c] = "active"
HasBlockingCredit(a) ==
    \E c \in Credits :
        /\ Account[c] = a
        /\ \/ status[c] \in {"active", "overdue"}
           \/ \E x \in InstalmentsOf(c) : state[x] \in {"pending", "overdue"}

CloseAccount(a) ==
    /\ Unlocked(a) /\ Available(a)
    /\ balance[a] = 0
    /\ ~HasBlockingCredit(a)
    /\ closed' = [closed EXCEPT ![a] = TRUE]
    /\ UNCHANGED <<balance, blocked, net, creditVars, today, processVars>>

NextDay ==
    /\ today < Horizon
    /\ today' = today + 1
    /\ UNCHANGED <<accountVars, creditVars, processVars>>

----------------------------------------------------------------------------
Submit(p) == (\E c \in Credits : CreateCredit(p, c)) \/ (\E o \in Prepayments : PrepayCredit(p, o))

Statement(p) ==
    \/ LockUser(p) \/ LockAccount(p) \/ Assess(p) \/ IssueCredit(p)
    \/ LockInstalment(p) \/ LockCredit(p) \/ LockPending(p) \/ PayAhead(p) \/ Charge(p)

SchedulerStep == FindDuePayments \/ ProcessNext \/ Statement(Scheduler)

Next ==
    \/ \E p \in Requests : Submit(p) \/ Statement(p) \/ Fail(p)
    \/ SchedulerStep \/ SchedulerFault
    \/ \E a \in Accounts :
          \/ \E n \in Amounts : Deposit(a, n) \/ Withdraw(a, n)
          \/ SetAccountBlocked(a) \/ CloseAccount(a)
    \/ NextDay

Spec == Init /\ [][Next]_vars

(* The scheduler runs again every twelve hours, and PostgreSQL queues the  *)
(* waiters for a row, so the scheduler is not overtaken for ever; requests *)
(* have a deadline of twenty seconds; days pass.  Faults of the scheduler  *)
(* are at most MaxFaults: they do not go on for ever.                      *)
Fairness ==
    /\ SF_vars(SchedulerStep)
    /\ \A p \in Requests : WF_vars(Statement(p) \/ Fail(p))
    /\ WF_vars(NextDay)

FairSpec == Spec /\ Fairness

----------------------------------------------------------------------------
(* Properties *)

TypeOK ==
    /\ balance \in [Accounts -> Nat]
    /\ closed \in [Accounts -> BOOLEAN]
    /\ blocked \in [Accounts -> BOOLEAN]
    /\ status \in [Credits -> {"absent", "active", "overdue", "closed"}]
    /\ principal \in [Credits -> Nat]
    /\ monthly \in [Credits -> Nat \ {0}]
    /\ state \in [Instalments -> {"absent", "pending", "overdue", "paid"}]
    /\ amount \in [Instalments -> Nat \ {0}]
    /\ penalty \in [Instalments -> Nat]
    /\ charged \in [Credits -> Nat]
    /\ net \in [Accounts -> Int]
    /\ today \in 0..Horizon
    /\ pc \in [Processes -> {"idle", "lockUser", "lockAccount", "assess", "issue", "lockCredit",
                             "lockPending", "prepay", "lockInstalment", "charge"}]
    /\ job \in [Processes -> Jobs]
    /\ lock \in [Rows -> Processes \cup {Free}]
    /\ batch \in Seq(Instalments)
    /\ faults \in 0..MaxFaults

(* Where the policy sets a limit, no user holds more unpaid credits than it *)
(* allows, however many applications run at once: each passed the check    *)
(* before any of the others was issued.                                    *)
ActiveCreditsLimited ==
    "active" \in Checks => \A u \in Users : Cardinality(LiveCredits(u)) <= MaxActive

(* The debt is never lost nor collected twice: what was charged and what   *)
(* is still to be charged make up the schedule that was agreed, plus the   *)
(* penalties that were collected, whatever prepayments and charges ran     *)
(* into each other.                                                        *)
DebtAccountedFor ==
    \A c \in Credits : status[c] # "absent" =>
        LET unpaid == {x \in InstalmentsOf(c) : state[x] # "paid"}
        IN  charged[c] + SumFunctionOnSet(amount, unpaid) =
                Monthly[c] * Term[c]
                + SumFunctionOnSet(penalty, InstalmentsOf(c) \ unpaid)

(* The balance of an account is what its transactions add up to: what is   *)
(* withdrawn for an instalment is what the rows of transactions record.    *)
BalanceMatchesTransactions ==
    \A a \in Accounts :
        balance[a] = net[a] + SumFunctionOnSet(
            [c \in Credits |-> Principal[c] - charged[c]],
            {c \in Credits : Account[c] = a /\ status[c] # "absent"})

(* A credit is closed exactly when every instalment is paid, by whichever  *)
(* of the two ways; then nobody looks at its schedule any more.            *)
ClosedMeansPaid ==
    \A c \in Credits : status[c] # "absent" =>
        (status[c] = "closed" <=> \A x \in InstalmentsOf(c) : state[x] = "paid")

(* As long as an instalment is overdue so is its credit: the policy and    *)
(* the prepayment look at the credit only.                                 *)
OverdueShowsOnCredit ==
    \A x \in Instalments : state[x] = "overdue" => status[x[1]] = "overdue"

(* A closed account has no credit left to charge: closing and issuing      *)
(* cannot cross.                                                           *)
ClosedAccountOwesNothing ==
    \A c \in Credits : closed[Account[c]] => status[c] \in {"absent", "closed"}

(* p waits for a row, or an advisory lock, that q holds.                   *)
Wanted(p) ==
    CASE pc[p] = "lockUser"       -> {User(Borrower(job[p].credit))}
      [] pc[p] = "lockAccount"    -> {AccountRow(Account[job[p].credit])}
      [] pc[p] = "lockCredit"     -> {CreditRow(job[p].credit)}
      [] pc[p] = "lockPending"    -> {ScheduleRow(x) : x \in PendingOf(job[p].credit)}
      [] pc[p] = "lockInstalment" -> {ScheduleRow(job[p].instalment)}
      [] OTHER -> {}
WaitsFor(p, q) == p # q /\ \E r \in Wanted(p) : lock[r] = q

(* The lock orders differ in one place only: a prepayment locks the credit *)
(* before its instalments, the scheduler an instalment before its credit.  *)
(* Any other set of transactions that wait for each other is impossible.   *)
OnlyPrepaymentsDeadlock ==
    \A S \in (SUBSET Processes) \ {{}} :
        (\A p \in S : \E q \in S : WaitsFor(p, q)) => \E p \in S : pc[p] = "lockPending"

(* The account of a due instalment could pay it, with its penalty.         *)
Payable(x) ==
    /\ state[x] \in {"pending", "overdue"}
    /\ Turn[x] <= today
    /\ Available(Account[x[1]])
    /\ balance[Account[x[1]]] >= DueAmount(x)

(* The next batch of the scheduler has room for x.                         *)
InReach(x) == Cardinality({y \in DueRows : Turn[y] < Turn[x]}) < BatchLimit

(* The comment of ProcessPayment: once the account has enough funds, the   *)
(* scheduler charges the payment plus its penalty.  No instalment stays    *)
(* due for ever on an account that stays able to pay it.  This is not so:  *)
(* instalments before it that cannot be paid may fill every batch.         *)
FundedPaymentIsCharged == \A x \in Instalments : []<>~Payable(x)

(* What is so: an instalment that stays payable is charged, unless from    *)
(* time to time as many due ones as a batch holds are before it.  Faults,  *)
(* requests in the way and rows that are skipped do not keep it waiting.   *)
PaymentInReachIsCharged ==
    \A x \in Instalments : []<>~(Payable(x) /\ InReach(x))
============================================================================
