# Verification of GoBankService

TLA+ models of the banking core of this repository, the instances TLC checks, and
theorems TLAPS proves about them for every value of the constants. Paths below are
relative to the root of the repository; line numbers refer to the same commit.

## 1. The system

A Go HTTP service over PostgreSQL (isolation READ COMMITTED) with a React front end.
A request passes the middleware chain of `src/internal/router/router.go` (request
id, logging, body limit, rate limits, authentication, a deadline of 20 s,
idempotency), then a handler, a service and a repository. A repository method is one
database transaction of a few statements. Schedulers (credit payments every twelve
hours, three cleanups every hour) run in the same process, and several processes may
share the database. So every difficulty has the same origin: statements of
different requests interleave, a request can stop after any of them, and what a
statement read may be stale when the next one uses it.

### Inventory

| Component | State it keeps | Operations | What is hard | What makes it correct |
|---|---|---|---|---|
| Accounts and transactions (`repositories/account_repository.go`, `services/account_service.go`, `transfer_service.go`) | `accounts` (balance, status, is_blocked), `transactions` | create, deposit, withdraw, card payment, transfer, card transfer, close; an administrator blocks | two-row locks, checks before updates, blocking and closing in between | each committed operation is one atomic step; no overdraft; balances equal the sums of transactions; no money on closed accounts |
| MFA codes (`services/mfa_service.go`, `mfa_repository.go`, `mfa_tx.go`, the two limiters) | `mfa_codes`; in memory failures and cooldowns | request, verify, spend, clean up | verification and spending are in different transactions; limiters are three separate steps | a code authorises one operation, the newest one only; guesses are limited |
| Credits (`credit_repository.go`, `credit_payment_repository.go`, their services, the scheduler) | `credits`, `payment_schedules` | apply, prepay in three modes, charge with penalty and retry | policy decided on stale data, prepayment against the scheduler, batches, lock order | limits hold; the debt is neither lost nor collected twice; funded instalments within reach of a batch are charged |
| Idempotency (`middleware/idempotency.go`, its repository and cleanup) | `idempotency_keys` | claim, execute, store, replay, release, clean up | cancelled contexts, crashes between claim and answer, lost replies | an operation is executed at most once per key, replays are faithful, no key is blocked for ever |
| Sessions (`services/auth_service.go`, `token_repository.go`, `user_session_repository.go`, the revocation cache) | `user_sessions`, `revoked_tokens`, cache entries | login, logout, authenticate, expire, clean up | two stores that must agree, cache fills that race with revocations | revoked tokens stay revoked; the cache lags by its TTL at most |
| Cards (`services/card_service.go`, `card_repository.go`) | `cards`, CVV failures in memory | create, reveal, pay, transfer, close | the status is read before CVV and MFA are checked; a card is inserted on a snapshot | what a closed card or account leaves open ends with the requests under way; guesses at a CVV are spread |
| Key rate (`services/rate_service.go`, `integrations/cbr`) | cached rate, breaker | get | half-open state, late answers, elements out of order | a fresh rate was in force recently; the CBR is spared while it fails |
| Rate limiter (`middleware/rate_limiter.go`, the rules of `router/router.go`) | windows per rule and client | allow, clean up | window boundary, old clock readings, early cleanup | a client gets through less than twice the limit per window |
| Users (`services/auth_service.go`, `user_repository.go`) | `users` | register; roles are read | the first registrations race | there is an administrator from the first row on, and nobody becomes one later |
| Administration (`admin_repository.go`) | reads; `accounts.is_blocked` | block, unblock, system statistics | sections are read at different moments | sections only move forward |
| Analytics (`analytics_repository.go`) | reads | account, card and monthly statistics, forecast | the same; each query has its own list of types | totals agree with balances |
| Process (`app/app.go`, schedulers) | goroutines, signal context | serve, shut down | jobs and requests that start or never end during the shutdown | the database outlives them, and the process ends |
| Audit, notifications, handlers, configuration, web client, deployment | `audit_logs`; the session cookie and the events between tabs in the browser | | input and output | not modelled, section 8 |

Interactions: account and credit operations spend MFA codes in their own
transaction; credit charges and prepayments update account balances under the same
row locks; idempotency wraps whatever handler it is given and knows only whether
the status was below 400; the deadline of a request bounds everything it does.

## 2. Modules

| Module | Models | Kind |
|---|---|---|
| `BankState` | the rows account operations commit, and what their checks ask of them | state |
| `Bank` | the promise: whole operations, one atomic step each | abstract specification |
| `Ledger` | the same operations as READ COMMITTED transactions, one action per statement | detailed specification, implements `Bank` |
| `LedgerProofs` | theorems about `Ledger` | proofs |
| `Prepayment` | how a prepayment rewrites the pending instalments, to the cent | pure functions |
| `PrepaidPlan` | one plan prepaid again and again, in every way; extends `Prepayment` | specification |
| `Credits` | applications, prepayments, the scheduler and its batches; extends `Prepayment` | specification |
| `CreditsProofs` | theorems about `PrepaidPlan` and `Credits` | proofs |
| `Idempotency`, `IdempotencyProofs` | the idempotency middleware and its table | specification, proofs |
| `Sessions`, `SessionsProofs` | sessions, revocations and the cache | specification, proofs |
| `MfaCodes`, `MfaCodesProofs` | codes of an operation, cooldown and attempt limiter | specification, proofs |
| `Clock` | the time that modules with durations share | state |
| `Cards`, `CardsProofs` | cards over the accounts of `Bank`, with the CVV limiter | specification, composed with `Bank`; proofs |
| `RateLimiter` | the two limiters of the router and their rules | specification |
| `KeyRate` | cache, stale fallback and circuit breaker | specification |
| `Shutdown` | `app.Run` from start to exit | specification |
| `Registration` | the table `users` | specification |
| `Statistics` | the reports, over registrations and the rows that operations write; extends `Registration` | specification |
| `ServiceProofs` | theorems about `RateLimiter`, `KeyRate`, `Shutdown`, `Registration` and `Statistics` | proofs |
| `SumTheorems` | finite sets, their sums and their orders: lemmas the other proofs share | lemmas |
| `MC*` | instances for TLC; `MCRepayment` puts `PrepaidPlan` beside `Credits`, `MCService` the modules that share nothing: `RateLimiter`, `KeyRate`, `Shutdown`, `Registration` and `Statistics` | |

### Bank and Ledger

`Ledger` describes a method of the repository as a record from each statement to the
next (`TransferWithMFA == [lockLow |-> "lock", lock |-> "mark", ...]`) and has one
action per statement: `LockLowRow`/`LockTransferAccounts` for the `ORDER BY id FOR
UPDATE` of a transfer, `LockAccount` with the check of owner, status and block,
`MarkMFACodeUsed`, `WithdrawAccountBalance`, `UpdateAccountBalance`, `CloseAccountRow`
(each with the whole `WHERE` of its UPDATE: the balance, the status, the block; one that
finds no row aborts, `Write`), `CreateTransaction`, `Commit`. A
transaction's own writes are in `done[p]` and reach the rows when it commits; its
locks are `rowLock` and `codeLock`; a failing statement, a cancelled context or a
crash is `Fail`, which forgets `done` and frees the locks. `SaveCode`,
`DeleteExpired`, `Create` and `SetAccountBlocked` are transactions of one step that
wait for the row locks they need; the two statements of `SaveCode` are taken apart in
`MfaCodes`. `credited`, `debited` and `uses` are what the rows of `transactions`
add up to. Amounts are integers. `Ledger!Abstract` instantiates `Bank` on the
committed rows: the refinement mapping is the identity on them, and every action
but `Commit` and the single-step ones is a stutter.

### Credits and Prepayment

A transaction takes its locks one statement at a time (advisory lock of the user,
account, credit, instalments), and does the rest in one step once it holds the rows
it writes; `Ledger` justifies this, since nothing that holds the locks can be
observed half-way. Requests apply and prepay again and again (`CreateCredit`,
`PrepayCredit`); one scheduler process reads a batch (`FindDuePayments`, with its
LIMIT and its order), then locks and charges one instalment after the other,
fails, or goes on. `Turn` is the position in the order `(payment_date, id)`, and `today`
moves along it. `Deposit`, `Withdraw`, `SetAccountBlocked` and `CloseAccount` stand
for everything else that touches the accounts. `MaxLoad` stands for the part of the
policy that depends on income. `Checks` is the part of the policy that is switched on: a
limit of nothing is no limit, and the whole policy can be disabled. The rows that
`LockPending` locks one by one are taken at once; what waits for what is the same. The terms of a credit (principal, annuity, number of
instalments) are constants of it: the float64 annuity formula is not modelled.
MFA refusals are ordinary failures here.

### Idempotency

One action per statement of the middleware: `ClaimKey` (a plain `INSERT` whose unique
violation, SQLSTATE 23505, means a duplicate), `ResolveDuplicate` or `ResolveFails` (its
read fails: 500), `Perform`/`PerformFails` for the handler,
`StoreResponse`, `ReleaseKey`, and `DeleteOlderThan` for the cleanup. `Cancel` ends
the context a statement runs under, so that the store or the release that follows
fails; a panic or a crash leaves the claim. `executions` is a history of the operations that
took effect under a key, and starts anew when the cleanup forgets the key.

### Sessions

The tokens of one user (users share no rows), each named after the login that
issued it. `Login` revokes through two statements and a commit, `CreateSession`
follows in another transaction. A request presents a token, reads the cache,
evicts an expired entry under a second lock, queries the store and writes the
cache, in separate steps that any other request can come between; a logout parses the
token once more before it writes. `since` is the
history of when each token became invalid.

### MfaCodes

The codes of one operation of one user (operations share neither rows nor limiter
keys). `Allow` is the cooldown, `Invalidate` and `Save` the two statements of
`SaveCode` around its commit; an attempt is `FindActiveCode`, `IsLocked`, then
`Accept` or `RecordFailure`, then `MarkUsed`. `Fail`, `Restart` (the limiters are in
memory) and `Tick` can come anywhere, except that no request outlives `Deadline`.
`wrong` is the history of wrong guesses at each code.

### Cards

`PayByCard`, `TransferByCard` and `RevealCard` are one request that goes from check
to check: `Begin` reads the card, then `IsLocked`, `WrongCVV`/`RightCVV`,
`FindRecipient`, `HashCard`, `HashRecipient` and `HashAccounts` (the operation hash reads
everything again, statement by statement), `VerifyCode`, and `Execute` or `Reveal`. `Execute` is one step of `Bank`
(`Accounting == INSTANCE Bank`), which `Ledger` implements; it looks at the accounts
and the code but never at the card, as in the code. `CreateCard` is the `WHERE
EXISTS` on the snapshot of the statement (`InsertWhereExists`), then the row
(`Insert`), with the retries after a taken number. `guesses` is the history of wrong
CVVs since the last right one, `closedSince` is `accounts.closed_at`.

### RateLimiter, KeyRate, Shutdown

A handler of `RateLimiter` reads the clock, and reaches the mutex up to `Stall`
later, as `allow` does. `MatchRule` takes the first rule that matches. `admitted` is
the history of each key. A request of `KeyRate` is `ReadCache`, `AllowRequest`,
`Answer` (the elements of an answer come in any order, some without date or number,
and `ParseXMLResponse` chooses among them), `RecordSuccess` or `RecordFailure`, and
`WriteCache` or `ReadStaleCache`, each at its own moment. `Shutdown` follows `Run`:
`server.Shutdown` and the wait for the schedulers share one timeout, the error of
the first skips the second, and the database is closed last.

### Registration and Statistics

`ComputeIsAdmin` evaluates `NOT EXISTS (SELECT 1 FROM users)` on the snapshot of the
INSERT and `Create` commits it or violates a unique constraint. `Statistics` has one
action for every kind of database transaction that writes `transactions` (`Post`,
with the rows of each operation in `Postings`) and reads a report in its sections,
in the code's order, each on the rows as they are then. The queries are translated
one by one, each with the list of types its SQL spells out (`MonthlyIncomeTypes`,
`ForecastIncomeTypes`, ...); the rows that operations write have lists of their own.

## 3. Properties and the runs that check them

Runs are in `PROJECT.json`. The passing ones are exhaustive for their constants.

| Run | Instance | States | Shows |
|---|---|---|---|
| `ledger` | 3 requests, 2 accounts (one still to be created), 5 operations, 4 codes, two of them for one operation | 344,361 | refinement of `Bank`, `BalanceMatchesLedger`, `DebitStaysCovered`, `ClosedAccountIsEmpty`, `CodeAuthorisesOnce`, `UnavailableIsFrozen`, `NoDeadlock` |
| `credit_applications` | 2 requests, 3 credits, limit 2, 2 accounts | 149,096 | `TypeOK` (no column runs out of its range), `ActiveCreditsLimited`, `ClosedAccountOwesNothing` |
| `credit_repayment` | every plan of up to 4 instalments of up to 6 cents under every prepayment, repeatedly; apart from it, 2 prepaying requests against the scheduler, 1 credit of 2 instalments, 3 modes, 1 fault | 86,300 | `DebtFallsByThePrepayment` (to the cent), `PlanStaysLevel` (no balloon; `reduce_term` keeps the first instalments), `DebtAccountedFor`, `ClosedMeansPaid`, `BalanceMatchesTransactions`, `OverdueShowsOnCredit`, `OnlyPrepaymentsDeadlock` |
| `credit_retry` | 3 instalments of 2 credits on 2 accounts, batch of 2, fairness | 22,688 | `PaymentInReachIsCharged` |
| `credit_starvation` | the same | violation | `FundedPaymentIsCharged`, section 7 |
| `idempotency` | 3 requests, 1 key, 2 bodies, statements fail, fairness | 57,859 | `AtMostOnce`, `ReplayIsFaithful`, `ClaimIsExclusive`, `NoClaimForEver` |
| `idempotency_lost_reply` | the same, a reply to a COMMIT may be lost | violation | `AtMostOnce`, section 7 |
| `sessions` | 4 requests of a user, TTL 1, clock to 2 | 1,533,891 | `OlderSessionsEnd`, `NoRevival`, `RevokedWithinTTL`, `ValidNotRejected` |
| `two_logins` | the same | violation | `OneValidSession`, section 7 |
| `mfa_codes` | 2 requests, 2 attempts, limit 2, lifetime 2, lockout 3, cooldown 2, deadline 1, clock to 6 | 216,442 | `OneActiveCode`, `GuessesLimited`, `NewestAuthorises` |
| `cards` | 2 requests, 3 cards (one to be issued) of two users, 2 accounts, 3 codes, 2 failures, lockout 2, deadline 1, clock to 3 | 911,436 | `ClosedCardStops`, `NoCardAfterClosing`, `GuessesSpread` |
| `service` | six questions, each apart: limiter with 2 handlers, limit 2 in a window of 4, stall 1; key rate with 2 requests, 2 rates, breaker at 2 failures; shutdown with 2 connections, 2 schedulers, timeout 2; 3 users who register and open 2 accounts; up to 3 rows of amounts 1 and 2 on 3 accounts and 2 cards; reports beside them | 645,806 | `AdmissionsSpread`, `FreshRateIsRecent`, `CallsAreSpared`, `DatabaseOutlivesWork`, `SignalEndsProcess`, `FirstUsersAdminister`, `StatisticsMatchBalances`, `ReportsMoveForward` |

Why the bounds are enough to be interesting. In `ledger` a third request can come
between the two that cross, and a second code competes for one operation; card
payments have the statements of withdrawals and are covered by the proofs. In
`credit_repayment` the opening balance pays one instalment and a penalty but not
both, so that payments become overdue, are prepaid, retried and closed. In
`credit_retry` the two instalments of one credit can be overdue and fill the batch
before the instalment of the other, which is the starvation of `credit_starvation`;
`PaymentInReachIsCharged` says what is left: an instalment that stays payable is charged
unless the batch is full before it again and again.
In `sessions` four requests are what a stale cache entry takes: a login, a check
that fills the cache late, a login that revokes, and the check that reads the stale
entry. In `mfa_codes` the clock reaches past a lockout and the code that was
requested during it, and the bound of `GuessesLimited` is attained. The passing runs `credit_repayment`, `cards` and `service` choose a
`focus` in the initial state: parts that share nothing (the limiter, the rate, the
shutdown and the books), or questions that need different operations (guessing at a
CVV, using a card and issuing one; registering, adding up and reporting), are explored
beside each other instead of in every combination. In `cards` two requests can pass
`isLocked` beside the failure that locks the card, a lockout passes, cards expire at
1 and others are closed while a request holds a verified code. In `service` the clock
passes a window, a reset of the breaker and the life of a cached rate.
`ReportsMoveForward` bounds how far the sections of a report may disagree by what has
been committed since it was asked for;
three rows allow a credit payment with its penalty and a transfer between the same
accounts, and a list of two is exceeded. Where a theorem
exists (section 5) the bounds do not matter to the result.

Explicit bounds: `MaxBalance`, `Horizon` and `MaxFaults` in `Credits`, `MaxTime` in
`Sessions`, `MfaCodes` and `Clock` (a guard of the clock; the theorems hold for every
`MaxTime`), `MaxTerm` and `MaxMonthly` in `PrepaidPlan` (again the theorems hold for all), `MaxRates` in `KeyRate`,
`MaxRows` in `Statistics`, `RateHorizon` (the clock of the key rate) in `MCService`. `CHECK_DEADLOCK FALSE` where requests are
one-shot and the system stops when they have all been answered; waiting in a cycle is the
subject of `NoDeadlock` and `OnlyPrepaymentsDeadlock`, which are stated on the waits.

Symmetry is used for interchangeable requests, attempts and codes, and never in a
run with a liveness property.

## 4. Fairness

Safety properties assume none. Four runs do for their liveness property.

`credit_retry` and `credit_starvation`: strong fairness of the scheduler's next step, because it retries for
ever by its ticker and a fault cannot recur for ever (`MaxFaults`); weak fairness of
each request's statement or failure, because a request has a deadline; weak fairness
of the next day. No deposit and no withdrawal is assumed ever to come.

`idempotency` (`NoClaimForEver`): weak fairness of each request's steps (its
deadline again) and of the cleanup, which runs every hour and deletes keys older
than 24 hours. That a key is not deleted under a running request is a guard of
`DeleteOlderThan`: the retention exceeds the deadline by far.

`service` (`SignalEndsProcess`): weak fairness of main's next step and of the timer
of the shutdown, which the Go runtime gives. No request, job or scheduler is assumed
to end or to be scheduled.

## 5. What is proved

By TLAPS, for all values of the constants that satisfy the named assumptions.

`LedgerProofs`, from `BankAssumption` (operations are well formed, codes are bound to
operations that take one) and `LedgerAssumption` (the three placeholders are no
requests, operations or codes, and the requests are finitely many). The inductive
invariant `LedgerInv` says, for each statement a request can be at, which locks it
holds, that what its check found still holds while the row is locked, and which writes
are in `done`. None of the properties is inductive without it: a balance found
sufficient stays so only because nobody else can hold the row. From it follow
`TypeCorrect`, `DebitsCovered` and `LedgerImplementsBank` (`Spec => Abstract!Spec`:
`Init` maps to `Init`, `Commit` to the whole operation, since its guard still holds,
and the other statements to stutters). `LedgerBalanced`, `ClosedEmpty`, `CodeOnce` and
the action property `Frozen` are proved from an invariant of `Bank`'s steps (`BankInv`)
and hold of `Ledger` because its steps are steps of `Bank`. `NeverDeadlocks` adds to
`LedgerInv` that a request holds nothing but what it has come to (`LockInv`). Whoever
holds a code waits for nothing any more, so a set of requests that all wait for each
other wait for rows; and whoever holds the row another wants and waits himself wants a
row with a greater id, of which there is no end in a finite set of requests.

`CreditsProofs`, of prepayments. `PrepaymentsLowerTheDebt` and `PlansStayLevel`, of
`PrepaidPlan`, for plans of any length and amounts of any size. The walks of the code
over the instalments are folds; each is shown to be the function that its recursion
describes, and the facts about it by the first instalment at which they fail
(`SumTheorems`). The invariant is that the plan stays level (`LevelPlan`: the amounts
are positive and never rise), which every prepayment needs of the plan it finds.

`CreditsProofs`, of credits, from `CreditsAssumption` (`Credits.tla`), for any number
of credits, accounts, users, requests, instalments and modes. The invariant
`CreditsInv` has three parts besides the types.
- `ControlInv`: which of the four locks a transaction holds at which statement. It
  is inductive on its own, and `DeadlocksNeedPrepayment` needs nothing else: an
  application locks the user and then the account, a charge the instalment, the credit
  and the account, and only a prepayment, which locks the instalments last, goes back.
- `Judged`: what a transaction has found out under its locks is still so.
- `ScheduleOK`: of each credit, the range of its instalments, that it is closed
  exactly when they are paid, that an overdue instalment shows on it, and that what was
  charged and what is unpaid add up to the schedule and the penalties paid.

Without `ControlInv` the sums are not kept (another transaction could write between
the read of the pending instalments and their rewriting), and without `Judged` a credit
could be issued to an account that was closed after it was looked at. Each step that
writes no row is shown to be a `QuietStep`, one that writes an account an
`AccountStep`, one that writes a credit a `CreditStep`; a credit step leaves a single
schedule to look at. From the invariant follow `CreditsTyping`, `CreditsStayLimited`,
`DebtIsAccountedFor`, `BalancesMatch`, `ClosedIsPaid`, `OverdueIsShown` and
`ClosedOwesNothing`: everything the runs of `Credits` check but the liveness property.

`IdempotencyProofs`. `TypeCorrect`, `ClaimsExclude`, `ExecutedAtMostOnce` and
`ReplaysAreFaithful`, from three invariants: a row
exists for every request that has claimed it, and one request at most has
(`ClaimInv`); what was executed under a key keeps its row and is never released
(`OnceInv`); a stored response is that of a request that succeeded with the key
and hash of its row (`ReplayInv`).
`ExecutedAtMostOnce` assumes `~CommitReplyLost`: with it the property is false, as
the run `idempotency_lost_reply` shows.

`SessionsProofs`. `TypeCorrect`, `NeverRevived`, `LoginsEndOlderSessions`,
`RevokedInTime`, `ValidAdmitted`, from an invariant on the life cycle of a token and
on what a check in flight knows: what it read was true at some moment since it
came in, so an entry it writes expires within TTL of that moment.

`MfaCodesProofs`. `TypeCorrect`; `OneActive` and `NewestIsSpent` from the fact that
a cooldown longer than the deadline leaves one request for a code in flight at a
time (`Alone`); `GuessesAreLimited` from a budget per code: wrong guesses plus
attempts that may still make one stay below `MaxFailures + Cardinality(Attempts)`
(`Budget`), which needs that `failures` counts all guesses at codes that can still
be guessed, or that the lockout outlasts them (`Counted`), and that what an attempt
holds was active when it came in (`Held`). The assumption `MfaAssumption` names what
the configuration must satisfy: `Cooldown > Deadline` and `Lockout >= Lifetime +
Deadline`, both true of the defaults (60 s, 20 s, 600 s, 300 s) and enforced
nowhere in the code.

`CardsProofs`. `CardsTyping`; `ClosedCardsStop` and `ClosedAccountsGetNoCards` are
action properties and follow from one invariant: a request under way came in a
`Deadline` ago at most (`Timely`), and what it has read of its cards and of the
account was true at some moment since (`Grounded`). Each operation is first shown to
move rows only in the ways `RowsMove` lists, which keep what other requests rest on.
`GuessesAreSpread` has an invariant per card (`Limits`): the failures that are counted
and the requests that passed `isLocked` fit together into one burst, while it is locked
every guess is older than the end of the lockout by its length, and the guesses no
longer counted are older than a lockout. `CardsAssumption` asks little: codes are bound
to well-formed asks, requests are finitely many and the lockout outlasts the deadline.

`ServiceProofs`, one section for each module.
- `RateLimiter`: `LimiterTyping` and `AdmissionsAreSpread`, for any limits, windows,
  calls and handlers. The invariant says of each key that the open window holds the last
  `count` admissions, and that the `Limit` before them are older than the window by its
  length (`InWindow`), or, with no entry, that a window can open (`MayOpen`). It rests
  on `LimiterAssumption`: no window is longer than two cleanup intervals, which the
  defaults satisfy and the configuration does not enforce; otherwise the cleanup forgets
  a window that is open.
- `KeyRate`: `FreshRatesAreRecent`, from what a request under way and the cache hold
  having been in force at some moment since the request came in or the fetch began
  (`RecentInv`); `BreakerSparesCalls`, from the calls without an answer being counted
  or under way (`CallsInv`), so that once the breaker has opened those not under way
  are from before. The number of requests bounds the herd.
- `Shutdown`: `DatabaseClosesLast`. Main waits for the schedulers only when no request
  is left and none can come; it leaves when they have stopped or when the time is over.
- `Statistics`: `ReportsAgreeWithBalances`. Every balance is the sum of the rows in
  less the rows out (`BooksInv`), of a table whose rows have the shapes that
  operations write (`FormedRow`). The lists of types of each query are then shown to
  split the rows of an account or of a user without gap or overlap, which is the point
  at which a forgotten type would show. `ReportsGoForward`: the sections that a report
  has read are those the order of the code says (`ReportShape`), and each was true of
  the table as it was at some moment since the report was asked for, the later section of
  the longer one, so that they differ by what was committed meanwhile at most (`OperationsRead`, `MonthRead`, `SystemRead`).
- `Registration`: `Bootstrap`: a row that is being inserted while the table is empty is
  an administrator's, so that the first to commit is one, and a row computed as an
  administrator's came before any other was committed.

`SumTheorems`. The induction theorems of the library take an operator as a parameter,
which the provers at hand cannot instantiate. What they are used for is had from a
minimal counterexample instead: among the finite sets (numbers) of which a claim fails
there is one that contains no other (`SmallestSet`, `SmallestNumber`, from the
well-foundedness of strict inclusion). On this rest the facts about
`SumFunctionOnSet` (of a union, a change at one point, a partition by class) and about
folds over sequences, where it is first shown that the function that the fold chooses
exists (`FoldExists`).

Every invariant was first checked by TLC on the instance of its run.

## 6. What is only model-checked

Liveness: `PaymentInReachIsCharged`, `NoClaimForEver` and `SignalEndsProcess`. TLAPS does not reason about fairness and
ENABLED. They are therefore known for the instances of their runs only.
Every safety property and action property of the passing runs has a theorem.

What the theorems do not say: that the instances are those of the deployment. The
assumptions on durations (`MfaAssumption`, `CardsAssumption`, `LimiterAssumption`) are
met by the defaults of `src/internal/config/config.go`, and a configuration that
breaks them breaks the properties.

## 7. Where code and documents disagree

Each with a run of its own, and quoted in `PROJECT.json`:

- `idempotency_lost_reply`: the 500 of an operation whose COMMIT took effect
  releases the key, and the retry executes it again (`src/README.md:733`).
- `credit_starvation`: instalments that cannot be paid stay at the head of the batch
  (`ORDER BY payment_date, id LIMIT`, 100 in the code), and as many of them as the limit
  keep a funded instalment from ever being charged; the comment at
  `src/internal/repositories/credit_payment_repository.go:125` says that it is, once the
  account has enough funds.
- `two_logins`: two logins at once both revoke, then both create, and leave two valid
  sessions; the comment at `src/internal/services/auth_service.go:107` says "one user has
  one currently valid session", `src/README.md:102` "single-session login". What does
  hold is `OlderSessionsEnd`.

In the models, but not a run of their own:

- The response is stored under the request's context: a client that disconnects after
  the commit leaves a claim that answers 409 until the cleanup, although the comment at
  `src/internal/middleware/idempotency.go:110` says that successful requests keep a
  stored response (`Cancel` before `StoreResponse`).
- Registrations that run while `users` is empty all become administrators, although
  `src/README.md:681` and the comment at
  `src/internal/repositories/user_repository.go:28` speak of the first user. What does
  hold is `FirstUsersAdminister`: there is an administrator from the first row on, and
  nobody who began to register after it becomes one.
- A failed request for the key rate falls back on the cached one, whatever its age;
  the comment at `src/internal/services/rate_service.go:108` calls it recent.
- Prepayments of credits are in none of the lists of expenses; the statement of
  `StatisticsMatchBalances` takes them off.
- The monthly payments in the analytics count overdue credits, the number of active
  credits beside them does not (not modelled).
- `src/README.md` leaves `/credits/{id}/prepay` out of the list of protected
  operations, the code protects it.

## 8. What is not modelled

The component list of `PROJECT.json` names every part.

- Audit, notifications and handlers change no state that decides anything. SMTP, the
  SOAP client of the CBR, cryptography and configuration are input, output or data.
- Of the reports: the sections on credits, cards and the audit log, the scheduled
  instalments and the rounding of the forecast, the turn of a month, and which entries
  (rather than how many) a list shows.
- Of users: the login by name and the roles, which are read from the row on each
  request and which no operation changes.
- Of the start: wiring, configuration, the connection to the database.
- Rounding of float64 amounts, SQL types and the parameters of bcrypt are abstracted.
- PostgreSQL is trusted to implement READ COMMITTED, row locks and advisory locks as
  documented, and to detect deadlocks.
- The web client. What a tab believes of the session (`contexts/AuthContext.tsx`) is
  the state of a query of `@tanstack/react-query`: whether `clear` and
  `invalidateQueries` drop, keep or fetch again what a mounted component shows is
  decided by that library, which is not in the repository, so a model of the tabs
  would rest on assumptions the source cannot settle.

## 9. Plan

In order; done parts first.

1. `BankState`, `Bank`, `Ledger`, `LedgerProofs` with the lock order: done.
2. `Prepayment`, `PrepaidPlan`, `Credits` with four runs, `CreditsProofs`: done.
3. `Idempotency`, `Sessions`, `MfaCodes` with proofs: done.
4. `Cards`, `CardsProofs`: done.
5. `KeyRate`, `RateLimiter`, `Shutdown`, with `ServiceProofs`: done.
6. `Registration`, `Statistics`, with `ServiceProofs`: done.
7. A composition of `Idempotency` over `Ledger`, to state that a retried transfer
   moves money once.
8. `Cards` as an implementation of `Bank`, as a theorem: its steps on the accounts
   are steps of `Bank` by construction (`Accounting`), `Execute` deserves the proof.
9. An abstract specification of `MfaCodes` (a code spends itself once, or expires) that
   `Bank` and `MfaCodes` would share, so that the composition of the two is stated.
