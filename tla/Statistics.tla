----------------------------- MODULE Statistics -----------------------------
(* Reports on the table transactions: AnalyticsRepository and the          *)
(* statistics of AdminRepository.  A report is several statements, each    *)
(* with a snapshot of its own, and operations commit between them.  The    *)
(* operations are those of Ledger and Credits, each at once; all of them   *)
(* write rows with status 'completed'.  Everything happens in one month.   *)
EXTENDS Registration, Integers, Sequences, FiniteSets, Functions

CONSTANTS
    Accounts, Owner, Cards, CardAccount,
    Amounts, Null,
    ListLimit,      \* operations listed by a report
    MaxRows         \* bound of the table transactions

ASSUME StatisticsAssumption ==
    /\ IsFiniteSet(Accounts)
    /\ Owner \in [Accounts -> Applicants]
    /\ CardAccount \in [Cards -> Accounts]
    /\ Amounts \subseteq Nat \ {0}
    /\ {ListLimit, MaxRows} \subseteq Nat \ {0}
    /\ Null \notin Accounts \cup Cards

VARIABLES
    opened,     \* the rows of accounts
    balance,
    blocked,    \* accounts.is_blocked
    rows,       \* transactions, in the order of their commits
    report      \* the report in the making: what it asked for, what it read;
                \* history: how many rows there were when it was asked for

bookVars == <<opened, balance, blocked, rows>>
statisticsVars == <<registrationVars, bookVars, report>>

NoReport == [kind |-> Null]

BooksInit(accounts) ==
    /\ opened = accounts
    /\ balance = [a \in Accounts |-> 0]
    /\ blocked = {}
    /\ rows = <<>>
    /\ report = NoReport

----------------------------------------------------------------------------
(* The rows that operations write.                                         *)
Row(type, user, from, to, fromCard, toCard, amount) ==
    [type |-> type, user |-> user, from |-> from, to |-> to,
     fromCard |-> fromCard, toCard |-> toCard, amount |-> amount]

Incoming == {"deposit", "credit_issue"}
Outgoing == {"withdraw", "credit_payment", "credit_prepayment"}

CreditAccount(type, a, m) == Row(type, Owner[a], Null, a, Null, Null, m)
DebitAccount(type, a, m)  == Row(type, Owner[a], a, Null, Null, Null, m)
PayByCard(k, m) ==
    Row("card_payment", Owner[CardAccount[k]], CardAccount[k], Null, k, Null, m)
TransferBetween(a, b, m) == Row("transfer", Owner[a], a, b, Null, Null, m)
TransferByCard(k, l, m) ==
    Row("transfer", Owner[CardAccount[k]], CardAccount[k], CardAccount[l], k, l, m)

(* What one database transaction writes.                                   *)
Postings ==
    UNION {
        {<<CreditAccount(t, a, m)>> : t \in Incoming, a \in Accounts, m \in Amounts},
        {<<DebitAccount(t, a, m)>> : t \in Outgoing, a \in Accounts, m \in Amounts},
        {<<DebitAccount("credit_payment", a, m), DebitAccount("penalty", a, n)>> :
            a \in Accounts, m \in Amounts, n \in Amounts},
        {<<PayByCard(k, m)>> : k \in Cards, m \in Amounts},
        {<<r>> : r \in {TransferBetween(a, b, m) : a \in Accounts, b \in Accounts,
                                                   m \in Amounts}
                       \cup {TransferByCard(k, l, m) : k \in Cards, l \in Cards,
                                                       m \in Amounts}}}

(* COUNT and SUM of the rows that a condition selects.                     *)
Where(table, Test(_)) == {i \in DOMAIN table : Test(table[i])}
AmountOf(table, those) ==
    SumFunctionOnSet([i \in DOMAIN table |-> table[i].amount], those)

Number(table, Test(_)) == Cardinality(Where(table, Test))
Total(table, Test(_))  == AmountOf(table, Where(table, Test))
Count(table)           == Cardinality(DOMAIN table)

Into(table, a)  == Total(table, LAMBDA r : r.to = a)
OutOf(table, a) == Total(table, LAMBDA r : r.from = a)

(* The rows are locked, checked and changed, and the record is inserted.   *)
Post(posting) ==
    LET touched == UNION {{posting[i].from, posting[i].to} \ {Null} : i \in DOMAIN posting}
    IN  /\ Len(rows) + Len(posting) <= MaxRows
        /\ \A i \in DOMAIN posting : posting[i].from # posting[i].to
        /\ touched \subseteq opened \ blocked
        /\ \A a \in touched : balance[a] >= OutOf(posting, a)
        /\ rows' = rows \o posting
        /\ balance' = [a \in Accounts |-> balance[a] + Into(posting, a) - OutOf(posting, a)]
        /\ UNCHANGED <<opened, blocked>>

Open(a) ==
    /\ Owner[a] \in Registered
    /\ a \notin opened
    /\ opened' = opened \cup {a}
    /\ UNCHANGED <<balance, blocked, rows>>

(* WHERE is_blocked <> $2: one of two administrators is refused.           *)
SetAccountBlocked(a) ==
    /\ Admins # {}
    /\ a \in opened
    /\ blocked' = IF a \in blocked THEN blocked \ {a} ELSE blocked \cup {a}
    /\ UNCHANGED <<opened, balance, rows>>

----------------------------------------------------------------------------
(* The queries.                                                            *)

(* The rows of an account or a card: $1 is on one of the two sides.        *)
Base(from, to, x) == Restrict(rows, Where(rows, LAMBDA r : x \in {r[from], r[to]}))

Direction(from, to, x, r) ==
    CASE r[to] = x /\ r[from] # x -> "income"
      [] r[from] = x /\ r[to] # x -> "expense"
      [] OTHER -> "neutral"

Flow(from, to, x, table) ==
    LET Income(r)  == Direction(from, to, x, r) = "income"
        Expense(r) == Direction(from, to, x, r) = "expense"
    IN  [count |-> Count(table),
         incomes |-> Number(table, Income),   income |-> Total(table, Income),
         expenses |-> Number(table, Expense), expense |-> Total(table, Expense)]

Net(flow) == flow.income - flow.expense

GroupByType(table, Value(_)) ==
    LET types == {table[i].type : i \in DOMAIN table}
    IN  [t \in types |-> Value(Restrict(table, Where(table, LAMBDA r : r.type = t)))]

Listed(table) == IF Count(table) < ListLimit THEN Count(table) ELSE ListLimit

(* The statements of a report on an account or on a card.                  *)
OperationStatistics(from, to, x) ==
    LET base == Base(from, to, x)
        Value(table) == Flow(from, to, x, table)
        Anything(r) == TRUE
    IN  [summary  |-> Value(base),
         byType   |-> GroupByType(base, Value),
         byStatus |-> [count |-> Count(base), amount |-> Total(base, Anything)],
         entries  |-> Listed(base)]

(* Transfers between two accounts of one user are no income of his and no  *)
(* expense.  ExternalAlways is a flag for queries without that condition.  *)
OwnerOf(a) == IF a = Null THEN Null ELSE Owner[a]
ExternalAlways(other, u) == TRUE
External(other, u) == OwnerOf(other) # u

(* Each query has its own list of types, none of them that of the writers. *)
MonthlyIncomeTypes   == {"deposit", "credit_issue"}
MonthlyExpenseTypes  == {"withdraw", "card_payment", "credit_payment", "penalty"}
ForecastIncomeTypes  == {"deposit", "credit_issue"}
ForecastExpenseTypes == {"withdraw", "card_payment", "credit_payment", "penalty"}

MonthlyIncome(table, u) ==
    Total(table, LAMBDA r : \/ r.type \in MonthlyIncomeTypes /\ r.user = u
                           \/ /\ r.type = "transfer"
                              /\ OwnerOf(r.to) = u
                              /\ External(r.from, u))

MonthlyExpense(table, u) ==
    Total(table, LAMBDA r : \/ r.type \in MonthlyExpenseTypes /\ r.user = u
                           \/ /\ r.type = "transfer"
                              /\ OwnerOf(r.from) = u
                              /\ External(r.to, u))

(* One statement.  The scaling by days and the scheduled instalments, which *)
(* are no rows of this table, are left out.                                 *)
PredictBalance(u, a) ==
    [balance |-> balance[a],
     income |-> Total(rows, LAMBDA r :
        \/ r.type \in ForecastIncomeTypes /\ r.to = a /\ r.user = u
        \/ r.type = "transfer" /\ r.to = a /\ External(r.from, u)),
     expense |-> Total(rows, LAMBDA r :
        \/ r.type \in ForecastExpenseTypes /\ r.from = a
        \/ r.type = "transfer" /\ r.from = a /\ External(r.to, u))]

(* A second statement, on the sessions that are active, is left out.       *)
UserStatistics ==
    [total |-> Cardinality(Registered), admins |-> Cardinality(Admins)]

(* No account is closed here: all that are opened are active.              *)
AccountStatistics ==
    [total |-> Cardinality(opened), blocked |-> Cardinality(blocked),
     balance |-> SumFunctionOnSet(balance, opened)]

TransactionStatistics ==
    LET Anything(r) == TRUE
        Value(table) == [count |-> Count(table), amount |-> Total(table, Anything)]
    IN  [transactions |-> Value(rows),
         types        |-> GroupByType(rows, Value),
         recent       |-> Listed(rows)]

(* The sections on cards, credits and the audit log are left out.          *)
SystemStatistics ==
    [users        |-> UserStatistics,
     accounts     |-> AccountStatistics,
     transactions |-> TransactionStatistics.transactions,
     types        |-> TransactionStatistics.types,
     recent       |-> TransactionStatistics.recent]

(* The sections of a report, each as if it were read now.                  *)
Sections(r) ==
    CASE r.kind = "account" -> OperationStatistics("from", "to", r.about)
      [] r.kind = "card"    -> OperationStatistics("fromCard", "toCard", r.about)
      [] r.kind = "month"   -> [income |-> MonthlyIncome(rows, r.user),
                                expense |-> MonthlyExpense(rows, r.user)]
      [] r.kind = "system"  -> SystemStatistics

(* The order in which they are read; OutOfOrder is a flag for another one. *)
OutOfOrder(kind) ==
    CASE kind = "month"  -> <<"expense", "income">>
      [] kind = "system" -> <<"transactions", "users", "accounts", "types", "recent">>
      [] OTHER           -> <<"byType", "summary", "byStatus", "entries">>

Order(kind) ==
    CASE kind = "month"  -> <<"income", "expense">>
      [] kind = "system" -> <<"users", "accounts", "transactions", "types", "recent">>
      [] OTHER           -> <<"summary", "byType", "byStatus", "entries">>

Belongs(r) ==
    CASE r.kind = "account" -> r.about \in opened /\ Owner[r.about] = r.user
      [] r.kind = "card"    -> /\ CardAccount[r.about] \in opened
                               /\ Owner[CardAccount[r.about]] = r.user
      [] r.kind = "month"   -> r.user \in Registered
      [] r.kind = "system"  -> r.user \in Admins

(* The check that comes first: of the owner, or of the administrator.      *)
Ask(kind, user, about) ==
    LET r == [kind |-> kind, user |-> user, about |-> about, read |-> <<>>,
              asked |-> Len(rows)]
    IN  /\ report = NoReport
        /\ Belongs(r)
        /\ report' = r

ReadSection ==
    /\ report # NoReport
    /\ LET order == Order(report.kind)
           done  == Cardinality(DOMAIN report.read)
           next  == order[done + 1]
       IN  /\ done < Len(order)
           /\ report' = [report EXCEPT !.read = [s \in DOMAIN @ \cup {next} |->
                 IF s = next THEN Sections(report)[s] ELSE @[s]]]

(* The answer is sent, or a statement failed and there is none.            *)
Finish ==
    /\ report # NoReport
    /\ report' = NoReport

StatisticsNext ==
    \/ /\ \/ \E posting \in Postings : Post(posting)
          \/ \E a \in Accounts : Open(a) \/ SetAccountBlocked(a)
       /\ UNCHANGED <<registrationVars, report>>
    \/ RegistrationNext /\ UNCHANGED <<bookVars, report>>
    \/ /\ \/ \E u \in Applicants, a \in Accounts : Ask("account", u, a)
          \/ \E u \in Applicants, k \in Cards : Ask("card", u, k)
          \/ \E u \in Applicants : Ask("month", u, Null) \/ Ask("system", u, Null)
          \/ ReadSection
          \/ Finish
       /\ UNCHANGED <<registrationVars, bookVars>>

StatisticsSpec ==
    RegistrationInit /\ BooksInit({}) /\ [][StatisticsNext]_statisticsVars
----------------------------------------------------------------------------
(* Properties *)

Belonging(u) == {a \in Accounts : Owner[a] = u}
Prepaid(table, of) ==
    Total(table, LAMBDA r : r.type = "credit_prepayment" /\ r.from \in of)
Between(table, from, to) ==
    Total(table, LAMBDA r : r.from \in from /\ r.to \in to)

(* The queries agree with the balances, though each has its own list of    *)
(* types: the statistics of an account add up to its balance; the month of *)
(* a user to what he has, once his prepayments, which the lists of         *)
(* expenses lack, are taken off; and the forecast to the balance, once the *)
(* transfers among the accounts of the user are added as well.             *)
StatisticsMatchBalances ==
    /\ \A a \in Accounts :
        /\ Net(OperationStatistics("from", "to", a).summary) = balance[a]
        /\ LET u     == Owner[a]
               p     == PredictBalance(u, a)
               inner == Between(rows, Belonging(u), {a}) - Between(rows, {a}, Belonging(u))
           IN  p.income - p.expense - Prepaid(rows, {a}) + inner = p.balance
    /\ \A u \in Applicants :
        MonthlyIncome(rows, u) - MonthlyExpense(rows, u) - Prepaid(rows, Belonging(u))
            = SumFunctionOnSet(balance, Belonging(u))

(* What users brought in from outside and took out of it, in a ledger.     *)
Holdings(table, of) ==
    Total(table, LAMBDA r : r.to \in of) - Total(table, LAMBDA r : r.from \in of)

Ledgers == {SubSeq(rows, 1, n) : n \in 0 .. Len(rows)}

(* What has been committed since a report was asked for.                   *)
Meanwhile(r) == Len(rows) - r.asked
LedgersSince(r) == {table \in Ledgers : r.asked <= Len(table)}

CountOf(groups) ==
    SumFunctionOnSet([t \in DOMAIN groups |-> groups[t].count], DOMAIN groups)

(* The sections of a report are no snapshot and need not agree, but they   *)
(* differ by no more than what commits while the report is made, and one   *)
(* way only.  No section of a report on an account or card counts less     *)
(* than the one before it, nor more rows than have been added meanwhile.   *)
(* The total balance is one that the bank had since it was asked for, at a *)
(* moment no later than the count of transactions after it; and a month    *)
(* never shows more left over than there was at some moment since then.    *)
ReportsMoveForward ==
    report # NoReport =>
        LET read   == report.read
            Has(n) == n \in DOMAIN read
            mine   == Belonging(report.user)
        IN  CASE report.kind \in {"account", "card"} ->
                    /\ Has("summary") /\ Has("byType") =>
                            CountOf(read.byType) \in
                                read.summary.count .. read.summary.count + Meanwhile(report)
                    /\ Has("byStatus") =>
                            read.byStatus.count \in
                                CountOf(read.byType) .. read.summary.count + Meanwhile(report)
                    /\ Has("entries") =>
                            read.entries = ListLimit \/ read.entries >= read.byStatus.count
              [] report.kind = "month" ->
                    Has("income") /\ Has("expense") => \E table \in LedgersSince(report) :
                        read.income - read.expense <= Holdings(table, mine) + Prepaid(table, mine)
              [] report.kind = "system" ->
                    /\ Has("accounts") /\ Has("transactions") => \E table \in LedgersSince(report) :
                            /\ Len(table) <= read.transactions.count
                            /\ Holdings(table, Accounts) = read.accounts.balance
                    /\ Has("types") => CountOf(read.types) >= read.transactions.count
                    /\ Has("recent") =>
                            read.recent = ListLimit \/ read.recent >= CountOf(read.types)
=============================================================================
