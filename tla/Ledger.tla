------------------------------- MODULE Ledger -------------------------------
(***************************************************************************)
(* The money methods of AccountRepository as PostgreSQL runs them: each    *)
(* request is a READ COMMITTED transaction whose statements interleave     *)
(* with those of the others.  SELECT ... FOR UPDATE and UPDATE take row    *)
(* locks that last until commit or rollback; what a transaction writes     *)
(* becomes visible when it commits.  Any statement may fail (an error, the *)
(* 20 second request deadline, a crash), which rolls everything back.      *)
(***************************************************************************)
EXTENDS BankState, FiniteSets

CONSTANTS Requests, Free, NoOp, NoCode

ASSUME LedgerAssumption ==
    /\ Free \notin Requests
    /\ NoOp \notin Ops
    /\ NoCode \notin Codes
    /\ IsFiniteSet(Requests)

VARIABLES
    pc,         \* the statement each request runs next
    op,         \* the operation it asked for
    code,       \* the id of the code verifyCode returned to its service
    done,       \* the writes of its open transaction
    rowLock,    \* holder of each account row
    codeLock    \* holder of each mfa_codes row

txVars == <<pc, op, code, done, rowLock, codeLock>>
vars == <<bankVars, txVars>>

Writes == {"mark", "debit", "credit", "close", "record"}
Statements == Writes \cup {"lockLow", "lock", "commit"}

----------------------------------------------------------------------------
(* The statements each repository method runs, in the order it runs them *)

Deposit == [lock |-> "credit", credit |-> "record", record |-> "commit"]

WithdrawWithMFA ==
    [lock |-> "mark", mark |-> "debit", debit |-> "record", record |-> "commit"]

CardPaymentWithMFA ==
    [lock |-> "mark", mark |-> "debit", debit |-> "record", record |-> "commit"]

(* Transfers that forget a statement. *)
TransferUnmarked ==
    [lockLow |-> "lock", lock |-> "debit",
     debit |-> "credit", credit |-> "record", record |-> "commit"]
TransferUncredited ==
    [lockLow |-> "lock", lock |-> "mark", mark |-> "debit",
     debit |-> "record", record |-> "commit"]

TransferWithMFA ==
    [lockLow |-> "lock", lock |-> "mark", mark |-> "debit",
     debit |-> "credit", credit |-> "record", record |-> "commit"]

TransferByCardWithMFA ==
    [lockLow |-> "lock", lock |-> "mark", mark |-> "debit",
     debit |-> "credit", credit |-> "record", record |-> "commit"]

Close == [lock |-> "close", close |-> "commit"]

Method(kind) ==
    CASE kind = "deposit"       -> Deposit
      [] kind = "withdraw"      -> WithdrawWithMFA
      [] kind = "card_payment"  -> CardPaymentWithMFA
      [] kind = "transfer"      -> TransferWithMFA
      [] kind = "card_transfer" -> TransferByCardWithMFA
      [] kind = "close"         -> Close

Then(p) == Method(op[p].kind)[pc[p]]
FirstStatement(o) == IF o.kind \in TransferKinds THEN "lockLow" ELSE "lock"

(* ORDER BY id FOR UPDATE locks the row with the lower id first; without   *)
(* it the source would come first.                                         *)
SourceFirst(o) == o.from
LowRow(o)  == IF o.from <= o.to THEN o.from ELSE o.to
HighRow(o) == IF LowRow(o) = o.from THEN o.to ELSE o.from

InFlight(p) == pc[p] \in Statements

----------------------------------------------------------------------------
Init ==
    /\ BankInit
    /\ pc = [p \in Requests |-> "idle"]
    /\ op = [p \in Requests |-> NoOp]
    /\ code = [p \in Requests |-> NoCode]
    /\ done = [p \in Requests |-> {}]
    /\ rowLock = [a \in Accounts |-> Free]
    /\ codeLock = [c \in Codes |-> Free]

Begin(p, o, c) ==
    /\ pc[p] = "idle"
    /\ pc' = [pc EXCEPT ![p] = FirstStatement(o)]
    /\ op' = [op EXCEPT ![p] = o]
    /\ code' = [code EXCEPT ![p] = c]
    /\ UNCHANGED <<bankVars, done, rowLock, codeLock>>

(* Deposit and CloseAccount go to the repository without a code.           *)
SubmitPlain(p, o) ==
    /\ o.kind \in {"deposit", "close"}
    /\ Begin(p, o, NoCode)

(* The service verifies a code of this very operation before it opens the  *)
(* transaction; nothing is locked meanwhile.                               *)
SubmitVerified(p, o, c) ==
    /\ o.kind \in CodeKinds
    /\ CodeOp[c] = o
    /\ codes[c] = "active"
    /\ Begin(p, o, c)

(* The transaction ends: its locks are released, its writes forgotten.     *)
End(p, result) ==
    /\ pc' = [pc EXCEPT ![p] = result]
    /\ done' = [done EXCEPT ![p] = {}]
    /\ rowLock' = [a \in Accounts |-> IF rowLock[a] = p THEN Free ELSE rowLock[a]]
    /\ codeLock' = [c \in Codes |-> IF codeLock[c] = p THEN Free ELSE codeLock[c]]
    /\ UNCHANGED <<op, code>>

Abort(p) == End(p, "refused") /\ UNCHANGED bankVars

(* The statement succeeded: its write joins the transaction.               *)
Continue(p, write) ==
    /\ pc' = [pc EXCEPT ![p] = Then(p)]
    /\ done' = [done EXCEPT ![p] = @ \cup write]
    /\ UNCHANGED <<bankVars, op, code>>

(* The first of the two rows of a transfer.                                *)
LockLowRow(p) ==
    /\ pc[p] = "lockLow"
    /\ rowLock[LowRow(op[p])] = Free
    /\ Continue(p, {})
    /\ rowLock' = [rowLock EXCEPT ![LowRow(op[p])] = p]
    /\ UNCHANGED codeLock

(* The row is locked, then judged; Unlocked is a SELECT that forgets FOR   *)
(* UPDATE.                                                                 *)
Unlocked(p, row, verdict) ==
    \/ verdict /\ Continue(p, {}) /\ UNCHANGED <<rowLock, codeLock>>
    \/ ~verdict /\ Abort(p)

Lock(p, row, verdict) ==
    /\ rowLock[row] = Free
    /\ \/ /\ verdict
          /\ Continue(p, {})
          /\ rowLock' = [rowLock EXCEPT ![row] = p]
          /\ UNCHANGED codeLock
       \/ ~verdict /\ Abort(p)

LockAccount(p) ==
    /\ pc[p] = "lock"
    /\ op[p].kind \in PaymentKinds \cup {"deposit"}
    /\ Lock(p, op[p].from, Admissible(op[p]))

LockTransferAccounts(p) ==
    /\ pc[p] = "lock"
    /\ op[p].kind \in TransferKinds
    /\ Lock(p, HighRow(op[p]), Admissible(op[p]))

(* Close also wants a zero balance and no unpaid credit on the account.    *)
Closable(o) == Admissible(o) /\ balance[o.from] = 0 /\ o.from \notin Indebted

LockAccountForClose(p) ==
    /\ pc[p] = "lock"
    /\ op[p].kind = "close"
    /\ Lock(p, op[p].from, Closable(op[p]))

(* UPDATE mfa_codes SET used_at ... WHERE used_at IS NULL, in the same     *)
(* transaction as the money; MarkAnyCode forgets used_at IS NULL.          *)
MarkAnyCode(p) ==
    /\ pc[p] = "mark"
    /\ codeLock[code[p]] = Free
    /\ Continue(p, {"mark"})
    /\ codeLock' = [codeLock EXCEPT ![code[p]] = p]
    /\ UNCHANGED rowLock

MarkMFACodeUsed(p) ==
    /\ pc[p] = "mark"
    /\ codeLock[code[p]] = Free
    /\ \/ /\ codes[code[p]] = "active"
          /\ Continue(p, {"mark"})
          /\ codeLock' = [codeLock EXCEPT ![code[p]] = p]
          /\ UNCHANGED rowLock
       \/ /\ codes[code[p]] # "active"
          /\ Abort(p)

(* A write to a row that is locked already; an UPDATE whose WHERE finds no *)
(* row is an error.                                                        *)
Write(p, statement, found) ==
    /\ pc[p] = statement
    /\ \/ /\ found
          /\ Continue(p, {statement})
          /\ UNCHANGED <<rowLock, codeLock>>
       \/ ~found /\ Abort(p)

WithdrawAccountBalance(p) ==
    LET from == op[p].from
    IN  Write(p, "debit", balance[from] >= op[p].amount /\ Available(from))

UpdateAccountBalance(p) == Write(p, "credit", Available(op[p].to))
CloseAccountRow(p)      == Write(p, "close", status[op[p].from] = "active")
CreateTransaction(p)    == Write(p, "record", TRUE)

(* Commit publishes exactly the writes the transaction made.               *)
Commit(p) ==
    LET o == op[p]
        Taken(a) == IF "debit" \in done[p] /\ a = o.from THEN o.amount ELSE 0
        Given(a) == IF "credit" \in done[p] /\ a = o.to THEN o.amount ELSE 0
        Recorded == "record" \in done[p]
    IN  /\ pc[p] = "commit"
        /\ balance' = [a \in Accounts |-> balance[a] - Taken(a) + Given(a)]
        /\ credited' = [a \in Accounts |-> credited[a] + IF Recorded THEN In(o, a) ELSE 0]
        /\ debited' = [a \in Accounts |-> debited[a] + IF Recorded THEN Out(o, a) ELSE 0]
        /\ status' = [a \in Accounts |->
                         IF "close" \in done[p] /\ a = o.from THEN "closed" ELSE status[a]]
        /\ codes' = [c \in Codes |->
                        IF "mark" \in done[p] /\ c = code[p] THEN "used" ELSE codes[c]]
        /\ uses' = [c \in Codes |->
                       IF Recorded /\ c = code[p] THEN uses[c] + 1 ELSE uses[c]]
        /\ UNCHANGED blocked
        /\ End(p, "committed")

(* A statement or the commit itself fails, or the process dies.            *)
Fail(p) == InFlight(p) /\ Abort(p)

----------------------------------------------------------------------------
(* Statements that are transactions of their own *)

(* POST /accounts inserts a row with balance 0.                            *)
Create(a) ==
    /\ status[a] = "absent"
    /\ status' = [status EXCEPT ![a] = "active"]
    /\ UNCHANGED <<balance, blocked, codes, credited, debited, uses, txVars>>

(* An administrator blocks or unblocks; the UPDATE waits for the row lock. *)
SetAccountBlocked(a) ==
    /\ status[a] # "absent"
    /\ rowLock[a] = Free
    /\ blocked' = [blocked EXCEPT ![a] = ~@]
    /\ UNCHANGED <<balance, status, codes, credited, debited, uses, txVars>>

(* SaveCode spends the live codes of the same operation, whose rows it     *)
(* must lock, and inserts the new one.  The two statements are one step    *)
(* here; MfaCodes takes them apart.                                        *)
Supersedes(c) == {d \in Codes \ {c} : CodeOp[d] = CodeOp[c] /\ codes[d] = "active"}

SaveCode(c) ==
    /\ codes[c] = "absent"
    /\ \A d \in Supersedes(c) : codeLock[d] = Free
    /\ codes' = [d \in Codes |-> IF d = c THEN "active"
                                 ELSE IF d \in Supersedes(c) THEN "used"
                                 ELSE codes[d]]
    /\ UNCHANGED <<balance, status, blocked, credited, debited, uses, txVars>>

(* The cleanup deletes a used code, or one that has expired.               *)
DeleteExpired(c) ==
    /\ codes[c] \in {"active", "used"}
    /\ codeLock[c] = Free
    /\ codes' = [codes EXCEPT ![c] = "purged"]
    /\ UNCHANGED <<balance, status, blocked, credited, debited, uses, txVars>>

----------------------------------------------------------------------------
Step(p) ==
    \/ LockLowRow(p) \/ LockAccount(p) \/ LockTransferAccounts(p)
    \/ LockAccountForClose(p) \/ MarkMFACodeUsed(p)
    \/ WithdrawAccountBalance(p) \/ UpdateAccountBalance(p)
    \/ CloseAccountRow(p) \/ CreateTransaction(p) \/ Commit(p) \/ Fail(p)

Submit(p) ==
    \E o \in Ops : SubmitPlain(p, o) \/ \E c \in Codes : SubmitVerified(p, o, c)

Next ==
    \/ \E p \in Requests : Submit(p) \/ Step(p)
    \/ \E a \in Accounts : Create(a) \/ SetAccountBlocked(a)
    \/ \E c \in Codes : SaveCode(c) \/ DeleteExpired(c)

Spec == Init /\ [][Next]_vars

----------------------------------------------------------------------------
(* Properties *)

TypeOK ==
    /\ BankTypeOK
    /\ pc \in [Requests -> Statements \cup {"idle", "committed", "refused"}]
    /\ op \in [Requests -> Ops \cup {NoOp}]
    /\ code \in [Requests -> Codes \cup {NoCode}]
    /\ done \in [Requests -> SUBSET Writes]
    /\ rowLock \in [Accounts -> Requests \cup {Free}]
    /\ codeLock \in [Codes -> Requests \cup {Free}]

(* A balance that was found sufficient still is when the transaction       *)
(* commits, whatever committed in between: no withdrawal, card payment or  *)
(* transfer overdraws its account.                                         *)
DebitStaysCovered ==
    \A p \in Requests :
        "debit" \in done[p] => balance[op[p].from] >= op[p].amount

(* The lock a request needs before its next statement can run is held by q. *)
WaitsFor(p, q) ==
    \/ pc[p] = "lockLow" /\ rowLock[LowRow(op[p])] = q
    \/ pc[p] = "lock" /\ rowLock[HighRow(op[p])] = q
    \/ pc[p] = "mark" /\ codeLock[code[p]] = q

(* No set of transactions wait for one another, whichever accounts they    *)
(* touch and in whichever direction they transfer: PostgreSQL never has to *)
(* break a deadlock among them.                                            *)
NoDeadlock ==
    \A S \in (SUBSET Requests) \ {{}} :
        \E p \in S : \A q \in S : ~WaitsFor(p, q)

Abstract == INSTANCE Bank WITH
    balance <- balance, status <- status, blocked <- blocked, codes <- codes,
    credited <- credited, debited <- debited, uses <- uses

(* Each commit is one whole operation of Bank, and nothing else shows.     *)
ImplementsBank == Abstract!Spec
============================================================================
