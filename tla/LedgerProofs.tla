---------------------------- MODULE LedgerProofs ----------------------------
(***************************************************************************)
(* Ledger implements Bank, for every set of accounts, requests, codes and  *)
(* operations, and the safety properties of the committed state hold.      *)
(***************************************************************************)
EXTENDS Ledger, SumTheorems

(* What a transaction has written when it reaches the record statement.    *)
Moves(o) == (IF Debits(o) THEN {"mark", "debit"} ELSE {})
            \cup (IF Credits(o) THEN {"credit"} ELSE {})

Judged(p) == pc[p] \in {"mark", "debit", "credit", "close", "record", "commit"}

(* A request in flight asks for one of Ops and carries a code of its own   *)
(* operation, or none where none is needed.                                *)
Bound(p) ==
    InFlight(p) =>
        /\ op[p] \in Ops
        /\ IF op[p].kind \in CodeKinds
           THEN code[p] \in Codes /\ CodeOp[code[p]] = op[p]
           ELSE code[p] = NoCode

(* The writes made so far are those of the statements before pc.           *)
Trace(p) ==
    /\ pc[p] \in {"idle", "committed", "refused", "lockLow", "lock"} => done[p] = {}
    /\ pc[p] = "lockLow" => op[p].kind \in TransferKinds
    /\ pc[p] = "mark" => op[p].kind \in CodeKinds /\ done[p] = {}
    /\ pc[p] = "debit" => op[p].kind \in CodeKinds /\ done[p] = {"mark"}
    /\ pc[p] = "credit" =>
          \/ op[p].kind = "deposit" /\ done[p] = {}
          \/ op[p].kind \in TransferKinds /\ done[p] = {"mark", "debit"}
    /\ pc[p] = "record" => op[p].kind # "close" /\ done[p] = Moves(op[p])
    /\ pc[p] = "close" => op[p].kind = "close" /\ done[p] = {}
    /\ pc[p] = "commit" =>
          done[p] = IF op[p].kind = "close" THEN {"close"}
                    ELSE Moves(op[p]) \cup {"record"}

(* Once judged, the rows are locked, and nobody changes the judgement.     *)
Holds(p) ==
    Judged(p) =>
        /\ rowLock[op[p].from] = p
        /\ rowLock[op[p].to] = p
        /\ Admissible(op[p])
        /\ op[p].kind = "close" => Closable(op[p])

(* A marked code is locked and still unused in the committed state.        *)
HoldsCode(p) ==
    "mark" \in done[p] => codeLock[code[p]] = p /\ codes[code[p]] = "active"

(* The first of two rows is held while the second is waited for.           *)
HoldsLow(p) ==
    pc[p] = "lock" /\ op[p].kind \in TransferKinds => rowLock[LowRow(op[p])] = p

Covered(p) == "debit" \in done[p] => balance[op[p].from] >= op[p].amount

RequestInv(p) ==
    Bound(p) /\ Trace(p) /\ HoldsLow(p) /\ Holds(p) /\ HoldsCode(p) /\ Covered(p)

(* The inductive invariant. *)
LedgerInv == TypeOK /\ \A p \in Requests : RequestInv(p)

----------------------------------------------------------------------------
(* Where each method goes after a statement. *)
LEMMA NextStatement ==
    ASSUME NEW p \in Requests, op[p].kind \in Kinds
    PROVE  /\ pc[p] = "lockLow" /\ op[p].kind \in TransferKinds => Then(p) = "lock"
           /\ pc[p] = "lock" =>
                 Then(p) = IF op[p].kind = "close" THEN "close"
                           ELSE IF op[p].kind = "deposit" THEN "credit" ELSE "mark"
           /\ pc[p] = "mark" /\ op[p].kind \in CodeKinds => Then(p) = "debit"
           /\ pc[p] = "debit" /\ op[p].kind \in CodeKinds =>
                 Then(p) = IF op[p].kind \in TransferKinds THEN "credit" ELSE "record"
           /\ pc[p] = "credit" /\ op[p].kind \in TransferKinds \cup {"deposit"} =>
                 Then(p) = "record"
           /\ pc[p] = "record" /\ op[p].kind # "close" => Then(p) = "commit"
           /\ pc[p] = "close" /\ op[p].kind = "close" => Then(p) = "commit"
  BY DEF Then, Method, Deposit, WithdrawWithMFA, CardPaymentWithMFA,
         TransferWithMFA, TransferByCardWithMFA, Close,
         Kinds, CodeKinds, TransferKinds, PaymentKinds

LEMMA InitLedgerInv == Init => LedgerInv
  BY BankAssumption, LedgerAssumption
  DEF Init, BankInit, LedgerInv, TypeOK, BankTypeOK, Bound, Trace, HoldsLow, Holds,
      HoldsCode, Judged, InFlight, Statements, Writes, Covered, RequestInv

(* The two rows of an operation. *)
LEMMA Rows ==
    ASSUME NEW o \in Ops
    PROVE  /\ {LowRow(o), HighRow(o)} = {o.from, o.to}
           /\ o.from \in Accounts /\ o.to \in Accounts
           /\ LowRow(o) \in Accounts /\ HighRow(o) \in Accounts
           /\ o.kind \notin TransferKinds => o.from = o.to
           /\ o.amount \in Nat \ {0} /\ o.kind \in Kinds
  BY BankAssumption DEF LowRow, HighRow

(* A step that leaves a request, the rows it holds and the code it holds   *)
(* alone keeps what is known of that request.                              *)
LEMMA Undisturbed ==
    ASSUME NEW q \in Requests, TypeOK, RequestInv(q),
           pc'[q] = pc[q], op'[q] = op[q], code'[q] = code[q], done'[q] = done[q],
           \A a \in Accounts : rowLock[a] = q =>
               /\ rowLock'[a] = q
               /\ balance'[a] = balance[a]
               /\ status'[a] = status[a]
               /\ blocked'[a] = blocked[a],
           \A c \in Codes : codeLock[c] = q => codeLock'[c] = q /\ codes'[c] = codes[c]
    PROVE  RequestInv(q)'
  <1>1. Bound(q)' /\ Trace(q)'
    BY DEF RequestInv, Bound, Trace, InFlight, Moves, Debits, Credits
  <1>2. HoldsLow(q)'
    BY Rows DEF RequestInv, HoldsLow, Bound, InFlight, Statements, LowRow
  <1>3. Holds(q)'
    <2>1. SUFFICES ASSUME Judged(q) PROVE Holds(q)'
      BY DEF Holds, Judged
    <2>2. op[q] \in Ops /\ op[q].from \in Accounts /\ op[q].to \in Accounts
      BY <2>1, Rows DEF RequestInv, Bound, InFlight, Judged, Statements, Writes
    <2>3. rowLock[op[q].from] = q /\ rowLock[op[q].to] = q
      BY <2>1 DEF RequestInv, Holds
    <2>4. QED
      BY <2>1, <2>2, <2>3 DEF RequestInv, Holds, Judged, Admissible, Available, Closable
  <1>4. HoldsCode(q)'
    <2>1. "mark" \in done[q] => code[q] \in Codes
      BY DEF RequestInv, Trace, Bound, InFlight, Statements, Writes, TypeOK, Moves, Debits,
             CodeKinds
    <2>2. QED
      BY <2>1 DEF RequestInv, HoldsCode
  <1>5. Covered(q)'
    <2>1. "debit" \in done[q] => Judged(q)
      BY DEF RequestInv, Trace, TypeOK, Judged, Statements, Writes
    <2>2. "debit" \in done[q] => op[q].from \in Accounts /\ rowLock[op[q].from] = q
      BY <2>1, Rows DEF RequestInv, Holds, Bound, InFlight, Judged, Statements, Writes
    <2>3. QED
      BY <2>2 DEF RequestInv, Covered
  <1>6. QED
    BY <1>1, <1>2, <1>3, <1>4, <1>5 DEF RequestInv

(* Committing, refusing and failing: the ended request is idle, the rows   *)
(* and codes of the others are untouched.                                  *)
LEMMA EndKeeps ==
    ASSUME LedgerInv, NEW p \in Requests, NEW result \in {"committed", "refused"},
           End(p, result), BankTypeOK',
           \A a \in Accounts : rowLock[a] \in Requests \ {p} =>
               /\ balance'[a] = balance[a]
               /\ status'[a] = status[a]
               /\ blocked'[a] = blocked[a],
           \A c \in Codes : codeLock[c] \in Requests \ {p} => codes'[c] = codes[c]
    PROVE  LedgerInv'
  <1>1. TypeOK'
    BY DEF LedgerInv, TypeOK, End, Statements, Writes
  <1>2. RequestInv(p)'
    BY DEF LedgerInv, TypeOK, End, RequestInv, Bound, InFlight, Statements, Writes,
           Trace, HoldsLow, Holds, Judged, HoldsCode, Covered
  <1>3. ASSUME NEW q \in Requests \ {p} PROVE RequestInv(q)'
    <2>1. /\ pc'[q] = pc[q] /\ op'[q] = op[q]
          /\ code'[q] = code[q] /\ done'[q] = done[q]
      BY DEF End, LedgerInv, TypeOK
    <2>2. \A a \in Accounts : rowLock[a] = q => rowLock'[a] = q
      BY DEF End
    <2>3. \A c \in Codes : codeLock[c] = q => codeLock'[c] = q
      BY DEF End
    <2>4. QED
      BY <2>1, <2>2, <2>3, Undisturbed DEF LedgerInv
  <1>4. QED
    BY <1>1, <1>2, <1>3 DEF LedgerInv

LEMMA AbortKeeps ==
    ASSUME LedgerInv, NEW p \in Requests, Abort(p)
    PROVE  LedgerInv'
  <1>1. BankTypeOK'
    BY DEF LedgerInv, TypeOK, BankTypeOK, Abort, bankVars
  <1>2. QED
    BY <1>1, EndKeeps DEF Abort, bankVars

(* A statement that succeeds touches the locks of nobody else.             *)
LEMMA ContinueKeeps ==
    ASSUME LedgerInv, NEW p \in Requests, NEW w \in SUBSET Writes,
           Continue(p, w), Then(p) \in Statements,
           rowLock' \in [Accounts -> Requests \cup {Free}],
           codeLock' \in [Codes -> Requests \cup {Free}],
           \A a \in Accounts : rowLock[a] \in Requests \ {p} => rowLock'[a] = rowLock[a],
           \A c \in Codes : codeLock[c] \in Requests \ {p} => codeLock'[c] = codeLock[c],
           RequestInv(p)'
    PROVE  LedgerInv'
  <1>1. TypeOK'
    BY DEF LedgerInv, TypeOK, BankTypeOK, Continue, bankVars
  <1>2. ASSUME NEW q \in Requests \ {p} PROVE RequestInv(q)'
    <2>1. /\ pc'[q] = pc[q] /\ op'[q] = op[q]
          /\ code'[q] = code[q] /\ done'[q] = done[q]
      BY DEF Continue, LedgerInv, TypeOK
    <2>2. QED
      BY <2>1, Undisturbed DEF LedgerInv, Continue, bankVars
  <1>3. QED
    BY <1>1, <1>2 DEF LedgerInv

----------------------------------------------------------------------------
(* One lemma per action *)

LEMMA SubmitKeeps ==
    ASSUME LedgerInv, NEW p \in Requests, Submit(p)
    PROVE  LedgerInv'
  <1>1. PICK o \in Ops, c \in Codes \cup {NoCode} :
            /\ Begin(p, o, c)
            /\ IF o.kind \in CodeKinds THEN c \in Codes /\ CodeOp[c] = o ELSE c = NoCode
    <2>1. CASE \E o \in Ops : SubmitPlain(p, o)
      BY <2>1 DEF SubmitPlain, CodeKinds, TransferKinds, PaymentKinds
    <2>2. CASE \E o \in Ops, c \in Codes : SubmitVerified(p, o, c)
      BY <2>2 DEF SubmitVerified
    <2>3. QED
      BY <2>1, <2>2 DEF Submit
  <1>2. TypeOK'
    BY <1>1 DEF LedgerInv, TypeOK, BankTypeOK, bankVars, Begin, FirstStatement, Statements
  <1>3. RequestInv(p)'
    BY <1>1, BankAssumption
    DEF LedgerInv, TypeOK, Begin, FirstStatement, RequestInv, Bound, InFlight,
        Trace, HoldsLow, Holds, Judged, HoldsCode, Covered
  <1>4. ASSUME NEW q \in Requests \ {p} PROVE RequestInv(q)'
    <2>1. /\ pc'[q] = pc[q] /\ op'[q] = op[q]
          /\ code'[q] = code[q] /\ done'[q] = done[q]
      BY <1>1 DEF Begin, LedgerInv, TypeOK
    <2>2. QED
      BY <1>1, <2>1, Undisturbed DEF LedgerInv, Begin, bankVars
  <1>5. QED
    BY <1>2, <1>3, <1>4 DEF LedgerInv

(* What every step of a request in flight starts from. *)
LEMMA InFlightFacts ==
    ASSUME LedgerInv, NEW p \in Requests, InFlight(p)
    PROVE  /\ op[p] \in Ops /\ op[p].kind \in Kinds
           /\ op[p].from \in Accounts /\ op[p].to \in Accounts
           /\ LowRow(op[p]) \in Accounts /\ HighRow(op[p]) \in Accounts
           /\ op[p].kind \in CodeKinds => code[p] \in Codes
  BY Rows DEF LedgerInv, RequestInv, Bound

LEMMA LockLowRowKeeps ==
    ASSUME LedgerInv, NEW p \in Requests, LockLowRow(p)
    PROVE  LedgerInv'
  <1>1. /\ op[p] \in Ops /\ op[p].kind \in TransferKinds /\ op[p].kind \in Kinds
        /\ LowRow(op[p]) \in Accounts
    BY InFlightFacts DEF LedgerInv, RequestInv, Trace, LockLowRow, InFlight, Statements
  <1>2. Then(p) = "lock"
    BY <1>1, NextStatement DEF LockLowRow
  <1>3. RequestInv(p)'
    BY <1>1, <1>2
    DEF LockLowRow, Continue, LedgerInv, TypeOK, RequestInv, Bound, InFlight, Statements,
        Writes, Trace, HoldsLow, Holds, Judged, HoldsCode, Covered, bankVars, LowRow
  <1>4. QED
    BY <1>1, <1>2, <1>3, LedgerAssumption, ContinueKeeps, ZenonT(30)
    DEF LockLowRow, Continue, Statements, LedgerInv, TypeOK

LEMMA LockKeeps ==
    ASSUME LedgerInv, NEW p \in Requests,
           LockAccount(p) \/ LockTransferAccounts(p) \/ LockAccountForClose(p)
    PROVE  LedgerInv'
  <1> DEFINE row == IF op[p].kind \in TransferKinds THEN HighRow(op[p]) ELSE op[p].from
             verdict == IF op[p].kind = "close" THEN Closable(op[p]) ELSE Admissible(op[p])
  <1>1. pc[p] = "lock" /\ Lock(p, row, verdict)
    BY DEF LockAccount, LockTransferAccounts, LockAccountForClose, PaymentKinds, TransferKinds
  <1>2. /\ op[p] \in Ops /\ op[p].kind \in Kinds
        /\ op[p].from \in Accounts /\ op[p].to \in Accounts /\ row \in Accounts
        /\ op[p].kind \notin TransferKinds => op[p].from = op[p].to
    BY <1>1, InFlightFacts, Rows DEF InFlight, Statements
  <1>3. CASE Abort(p)
    BY <1>3, AbortKeeps
  <1>4. CASE verdict /\ Continue(p, {}) /\ UNCHANGED codeLock
             /\ rowLock' = [rowLock EXCEPT ![row] = p]
    <2>1. /\ Then(p) = IF op[p].kind = "close" THEN "close"
                       ELSE IF op[p].kind = "deposit" THEN "credit" ELSE "mark"
          /\ op[p].kind \notin {"close", "deposit"} => op[p].kind \in CodeKinds
      BY <1>1, <1>2, NextStatement DEF Kinds
    <2>2. rowLock'[op[p].from] = p /\ rowLock'[op[p].to] = p
      <3>1. CASE op[p].kind \in TransferKinds
        <4>1. rowLock[LowRow(op[p])] = p
          BY <1>1, <3>1 DEF LedgerInv, RequestInv, HoldsLow
        <4>2. QED
          BY <4>1, <1>2, <1>4, <3>1, Rows, ZenonT(30) DEF LedgerInv, TypeOK
      <3>2. CASE op[p].kind \notin TransferKinds
        BY <1>2, <1>4, <3>2 DEF LedgerInv, TypeOK
      <3>3. QED
        BY <3>1, <3>2
    <2>3. done'[p] = {} /\ pc'[p] = Then(p) /\ op'[p] = op[p] /\ code'[p] = code[p]
      BY <1>1, <1>4 DEF Continue, LedgerInv, TypeOK, RequestInv, Trace
    <2>4. Holds(p)'
      BY <1>4, <2>2, <2>3
      DEF Holds, Continue, bankVars, Admissible, Available, Closable
    <2>5. Bound(p)' /\ Trace(p)'
      BY <1>1, <2>1, <2>3 DEF LedgerInv, RequestInv, Bound, Trace, InFlight, Statements, Writes
    <2>6. HoldsLow(p)' /\ HoldsCode(p)' /\ Covered(p)'
      BY <2>1, <2>3 DEF HoldsLow, HoldsCode, Covered
    <2>7. QED
      BY <1>1, <1>2, <1>4, <2>1, <2>4, <2>5, <2>6, LedgerAssumption, ContinueKeeps
      DEF Lock, LedgerInv, TypeOK, RequestInv, Statements, Writes
  <1>5. QED
    BY <1>1, <1>3, <1>4 DEF Lock

LEMMA MarkKeeps ==
    ASSUME LedgerInv, NEW p \in Requests, MarkMFACodeUsed(p)
    PROVE  LedgerInv'
  <1>1. /\ pc[p] = "mark" /\ op[p] \in Ops /\ op[p].kind \in CodeKinds
        /\ op[p].kind \in Kinds /\ code[p] \in Codes /\ done[p] = {}
    BY InFlightFacts
    DEF MarkMFACodeUsed, LedgerInv, RequestInv, Trace, InFlight, Statements, Writes
  <1>2. Then(p) = "debit"
    BY <1>1, NextStatement
  <1>3. CASE Abort(p)
    BY <1>3, AbortKeeps
  <1>4. CASE /\ codes[code[p]] = "active" /\ Continue(p, {"mark"})
             /\ codeLock' = [codeLock EXCEPT ![code[p]] = p] /\ UNCHANGED rowLock
    <2>1. /\ done'[p] = {"mark"} /\ pc'[p] = "debit"
          /\ op'[p] = op[p] /\ code'[p] = code[p]
      BY <1>1, <1>2, <1>4 DEF Continue, LedgerInv, TypeOK
    <2>2. Bound(p)' /\ Trace(p)' /\ HoldsLow(p)' /\ Covered(p)'
      BY <1>1, <2>1
      DEF LedgerInv, RequestInv, Bound, InFlight, Statements, Writes, Trace, HoldsLow, Covered
    <2>3. HoldsCode(p)'
      BY <1>1, <1>4, <2>1 DEF HoldsCode, Continue, bankVars, LedgerInv, TypeOK
    <2>4. Holds(p)'
      BY <1>1, <1>4, <2>1
      DEF LedgerInv, RequestInv, Holds, Judged, Continue, bankVars, Admissible, Available, Closable
    <2>5. \A c \in Codes : codeLock[c] \in Requests \ {p} => codeLock'[c] = codeLock[c]
      BY <1>1, <1>4, LedgerAssumption DEF MarkMFACodeUsed, LedgerInv, TypeOK
    <2>6. RequestInv(p)'
      BY <2>2, <2>3, <2>4 DEF RequestInv
    <2>7. QED
      BY <1>1, <1>2, <1>4, <2>5, <2>6, ContinueKeeps
      DEF LedgerInv, TypeOK, Statements, Writes
  <1>5. QED
    BY <1>3, <1>4 DEF MarkMFACodeUsed

(* A write that takes no lock: the moved money, the closed row, the record. *)
LEMMA WriteKeeps ==
    ASSUME LedgerInv, NEW p \in Requests,
           \/ WithdrawAccountBalance(p) \/ UpdateAccountBalance(p)
           \/ CloseAccountRow(p) \/ CreateTransaction(p)
    PROVE  LedgerInv'
  <1> SUFFICES ASSUME ~Abort(p) PROVE LedgerInv'
    BY AbortKeeps
  <1>1. /\ pc[p] \in {"debit", "credit", "close", "record"}
        /\ Continue(p, {pc[p]}) /\ UNCHANGED <<rowLock, codeLock>>
        /\ pc[p] = "debit" => balance[op[p].from] >= op[p].amount
    BY DEF WithdrawAccountBalance, UpdateAccountBalance, CloseAccountRow,
           CreateTransaction, Write
  <1>2. op[p] \in Ops /\ op[p].kind \in Kinds
    BY <1>1, InFlightFacts DEF InFlight, Statements, Writes
  <1>3. /\ pc[p] = "debit" => op[p].kind \in CodeKinds /\ done[p] = {"mark"} /\
                Then(p) = IF op[p].kind \in TransferKinds THEN "credit" ELSE "record"
        /\ pc[p] = "credit" => op[p].kind \in TransferKinds \cup {"deposit"} /\ Then(p) = "record"
        /\ pc[p] = "record" => op[p].kind # "close" /\ Then(p) = "commit"
        /\ pc[p] = "close" => op[p].kind = "close" /\ Then(p) = "commit"
    BY <1>2, NextStatement DEF LedgerInv, RequestInv, Trace
  <1>4. /\ done'[p] = done[p] \cup {pc[p]} /\ pc'[p] = Then(p)
        /\ op'[p] = op[p] /\ code'[p] = code[p]
    BY <1>1 DEF Continue, LedgerInv, TypeOK
  <1>5. Bound(p)' /\ HoldsLow(p)'
    BY <1>1, <1>3, <1>4
    DEF LedgerInv, RequestInv, Bound, InFlight, Statements, Writes, HoldsLow
  <1>6. Trace(p)'
    <2>1. CASE pc[p] = "debit"
      BY <1>2, <1>3, <1>4, <2>1
      DEF Trace, Moves, Debits, Credits, CodeKinds, TransferKinds, PaymentKinds
    <2>2. CASE pc[p] = "credit"
      BY <1>2, <1>3, <1>4, <2>2
      DEF LedgerInv, RequestInv, Trace, Moves, Debits, Credits, CodeKinds, TransferKinds, PaymentKinds
    <2>3. CASE pc[p] \in {"record", "close"}
      BY <1>3, <1>4, <2>3 DEF LedgerInv, RequestInv, Trace, Moves, Debits, Credits
    <2>4. QED
      BY <1>1, <2>1, <2>2, <2>3
  <1>7. Holds(p)' /\ HoldsCode(p)' /\ Covered(p)'
    BY <1>1, <1>4
    DEF LedgerInv, RequestInv, Holds, Judged, HoldsCode, Covered, Continue, bankVars,
        Admissible, Available, Closable
  <1>8. Then(p) \in Statements /\ RequestInv(p)'
    BY <1>1, <1>3, <1>5, <1>6, <1>7 DEF RequestInv, Statements, Writes
  <1>9. QED
    BY <1>1, <1>8, ContinueKeeps DEF LedgerInv, TypeOK, Writes

(* At the commit statement the transaction has written what its operation  *)
(* stands for, and still holds everything it checked.                      *)
LEMMA AtCommit ==
    ASSUME LedgerInv, NEW p \in Requests, pc[p] = "commit"
    PROVE  /\ op[p] \in Ops /\ op[p].from \in Accounts /\ op[p].to \in Accounts
           /\ op[p].amount \in Nat \ {0} /\ op[p].kind \in Kinds
           /\ rowLock[op[p].from] = p /\ rowLock[op[p].to] = p /\ Admissible(op[p])
           /\ op[p].kind = "close" => done[p] = {"close"} /\ Closable(op[p])
           /\ op[p].kind = "deposit" => done[p] = {"credit", "record"} /\ code[p] \notin Codes
           /\ op[p].kind \in CodeKinds =>
                 /\ done[p] = {"mark", "debit", "record"}
                              \cup (IF Credits(op[p]) THEN {"credit"} ELSE {})
                 /\ code[p] \in Codes /\ CodeOp[code[p]] = op[p]
                 /\ codeLock[code[p]] = p /\ codes[code[p]] = "active"
                 /\ balance[op[p].from] >= op[p].amount
  <1>1. /\ op[p] \in Ops /\ op[p].from \in Accounts /\ op[p].to \in Accounts
        /\ op[p].amount \in Nat \ {0} /\ op[p].kind \in Kinds
    BY InFlightFacts, Rows DEF InFlight, Statements
  <1>2. /\ rowLock[op[p].from] = p /\ rowLock[op[p].to] = p /\ Admissible(op[p])
        /\ op[p].kind = "close" => Closable(op[p])
    BY DEF LedgerInv, RequestInv, Holds, Judged
  <1>3. done[p] = IF op[p].kind = "close" THEN {"close"} ELSE Moves(op[p]) \cup {"record"}
    BY DEF LedgerInv, RequestInv, Trace
  <1>4. op[p].kind = "deposit" => done[p] = {"credit", "record"} /\ code[p] \notin Codes
    BY <1>3, LedgerAssumption
    DEF Moves, Debits, Credits, CodeKinds, TransferKinds, PaymentKinds,
        LedgerInv, RequestInv, Bound, InFlight, Statements
  <1>5. op[p].kind \in CodeKinds =>
            done[p] = {"mark", "debit", "record"}
                      \cup (IF Credits(op[p]) THEN {"credit"} ELSE {})
    BY <1>3 DEF Moves, Debits, CodeKinds, TransferKinds, PaymentKinds
  <1>6. op[p].kind \in CodeKinds =>
            /\ code[p] \in Codes /\ CodeOp[code[p]] = op[p]
            /\ codeLock[code[p]] = p /\ codes[code[p]] = "active"
            /\ balance[op[p].from] >= op[p].amount
    BY <1>5 DEF LedgerInv, RequestInv, Bound, HoldsCode, Covered, InFlight, Statements
  <1>7. QED
    BY <1>1, <1>2, <1>3, <1>4, <1>5, <1>6

(* A commit is one operation of Bank. *)
LEMMA CommitIsAbstract ==
    ASSUME LedgerInv, NEW p \in Requests, Commit(p)
    PROVE  \/ Abstract!Deposit(op[p])
           \/ Abstract!Close(op[p])
           \/ code[p] \in Codes /\ Abstract!Spend(op[p], code[p])
  <1>1. pc[p] = "commit"
    BY DEF Commit
  <1>2. CASE op[p].kind = "deposit"
    <2>1. Abstract!Post(op[p])
      BY <1>1, <1>2, AtCommit
      DEF Commit, Abstract!Post, In, Out, Abstract!In, Abstract!Out, Debits, Credits,
          Abstract!Debits, Abstract!Credits, CodeKinds, TransferKinds, PaymentKinds,
          Abstract!CodeKinds, Abstract!TransferKinds, Abstract!PaymentKinds
    <2>2. UNCHANGED <<status, blocked, codes, uses>>
      BY <1>1, <1>2, AtCommit DEF Commit, LedgerInv, TypeOK, BankTypeOK
    <2>3. QED
      BY <1>1, <1>2, <2>1, <2>2, AtCommit
      DEF Abstract!Deposit, Admissible, Available, Abstract!Admissible, Abstract!Available
  <1>3. CASE op[p].kind = "close"
    <2>1. done[p] = {"close"} /\ Closable(op[p])
      BY <1>1, <1>3, AtCommit
    <2>2. UNCHANGED <<balance, blocked, codes, credited, debited, uses>>
      BY <2>1 DEF Commit, LedgerInv, TypeOK, BankTypeOK
    <2>3. status' = [status EXCEPT ![op[p].from] = "closed"]
      BY <2>1 DEF Commit, LedgerInv, TypeOK, BankTypeOK
    <2>4. QED
      BY <1>3, <2>1, <2>2, <2>3
      DEF Abstract!Close, Closable, Admissible, Available,
          Abstract!Admissible, Abstract!Available
  <1>4. CASE op[p].kind \in CodeKinds
    <2>1. Abstract!Post(op[p])
      BY <1>1, <1>4, AtCommit
      DEF Commit, Abstract!Post, In, Out, Abstract!In, Abstract!Out, Debits, Credits,
          Abstract!Debits, Abstract!Credits, CodeKinds, TransferKinds, PaymentKinds,
          Abstract!CodeKinds, Abstract!TransferKinds, Abstract!PaymentKinds
    <2>2. UNCHANGED <<status, blocked>>
      BY <1>1, <1>4, AtCommit, SMTT(30) DEF Commit, LedgerInv, TypeOK, BankTypeOK
    <2>3. "mark" \in done[p] /\ "record" \in done[p] /\ code[p] \in Codes
      BY <1>1, <1>4, AtCommit
    <2>4. codes' = [codes EXCEPT ![code[p]] = "used"]
      BY <2>3 DEF Commit, LedgerInv, TypeOK, BankTypeOK
    <2>5. uses' = [uses EXCEPT ![code[p]] = @ + 1]
      BY <2>3 DEF Commit, LedgerInv, TypeOK, BankTypeOK
    <2>6. QED
      BY <1>1, <1>4, <2>1, <2>2, <2>4, <2>5, AtCommit
      DEF Abstract!Spend, Admissible, Available, Abstract!Admissible, Abstract!Available,
          CodeKinds, TransferKinds, PaymentKinds,
          Abstract!CodeKinds, Abstract!TransferKinds, Abstract!PaymentKinds
  <1>5. QED
    BY <1>1, <1>2, <1>3, <1>4, AtCommit DEF Kinds

LEMMA CommitKeeps ==
    ASSUME LedgerInv, NEW p \in Requests, Commit(p)
    PROVE  LedgerInv'
  <1>1. pc[p] = "commit" /\ End(p, "committed") /\ blocked' = blocked
    BY DEF Commit
  <1>2. \A a \in Accounts : rowLock[a] \in Requests \ {p} => a \notin {op[p].from, op[p].to}
    BY <1>1, AtCommit
  <1>3. \A c \in Codes : codeLock[c] \in Requests \ {p} => ~("mark" \in done[p] /\ c = code[p])
    BY <1>1, AtCommit DEF LedgerInv, RequestInv, HoldsCode
  <1>4. balance' \in [Accounts -> Nat]
    <2>1. ASSUME NEW a \in Accounts PROVE balance'[a] \in Nat
      <3>1. "debit" \in done[p] => balance[op[p].from] >= op[p].amount
        BY DEF LedgerInv, RequestInv, Covered
      <3>2. balance[a] \in Nat /\ op[p].amount \in Nat
        BY <1>1, AtCommit DEF LedgerInv, TypeOK, BankTypeOK
      <3>3. QED
        BY <3>1, <3>2 DEF Commit
    <2>2. QED
      BY <2>1 DEF Commit
  <1>5. /\ credited' \in [Accounts -> Nat] /\ debited' \in [Accounts -> Nat]
        /\ uses' \in [Codes -> Nat]
    <2>1. op[p].amount \in Nat
      BY <1>1, AtCommit
    <2>2. QED
      BY <2>1 DEF Commit, LedgerInv, TypeOK, BankTypeOK, In, Out
  <1>6. /\ status' \in [Accounts -> {"absent", "active", "closed"}]
        /\ codes' \in [Codes -> {"absent", "active", "used", "purged"}]
    BY DEF Commit, LedgerInv, TypeOK, BankTypeOK
  <1>7. BankTypeOK'
    BY <1>1, <1>4, <1>5, <1>6 DEF LedgerInv, TypeOK, BankTypeOK
  <1>8. \A a \in Accounts : a \notin {op[p].from, op[p].to} =>
            balance'[a] = balance[a] /\ status'[a] = status[a]
    BY DEF Commit, LedgerInv, TypeOK, BankTypeOK
  <1>9. \A c \in Codes : codeLock[c] \in Requests \ {p} => codes'[c] = codes[c]
    BY <1>3 DEF Commit
  <1>10. QED
    BY <1>1, <1>2, <1>7, <1>8, <1>9, EndKeeps

(* The statements that are transactions of their own wait for row locks.   *)
LEMMA OutsideKeeps ==
    ASSUME LedgerInv,
           \/ \E a \in Accounts : Create(a) \/ SetAccountBlocked(a)
           \/ \E c \in Codes : SaveCode(c) \/ DeleteExpired(c)
    PROVE  LedgerInv'
  <1>1. TypeOK'
    <2>1. BankTypeOK'
      BY ZenonT(30) DEF LedgerInv, TypeOK, BankTypeOK, Create, SetAccountBlocked, SaveCode, DeleteExpired
    <2>2. UNCHANGED txVars
      BY DEF Create, SetAccountBlocked, SaveCode, DeleteExpired
    <2>3. QED
      BY <2>1, <2>2 DEF LedgerInv, TypeOK, txVars
  <1>2. ASSUME NEW q \in Requests PROVE RequestInv(q)'
    <2>1. UNCHANGED txVars
      BY DEF Create, SetAccountBlocked, SaveCode, DeleteExpired
    <2>2. CASE \E a \in Accounts : Create(a)
      <3>1. PICK a \in Accounts : Create(a)
        BY <2>2
      <3>2. Judged(q) => status[op[q].from] = "active" /\ status[op[q].to] = "active"
        BY DEF LedgerInv, RequestInv, Holds, Admissible, Available
      <3>3. \A b \in Accounts : status[b] = "active" => status'[b] = "active"
        BY <3>1 DEF Create, LedgerInv, TypeOK, BankTypeOK
      <3>4. Holds(q)'
        BY <2>1, <3>1, <3>2, <3>3, InFlightFacts
        DEF Create, txVars, LedgerInv, RequestInv, Holds, Judged, Admissible, Available,
            Closable, InFlight, Statements, Writes
      <3>5. Bound(q)' /\ Trace(q)' /\ HoldsLow(q)'
        BY <2>1
        DEF txVars, LedgerInv, RequestInv, Bound, Trace, HoldsLow, InFlight, Moves
      <3>6. HoldsCode(q)' /\ Covered(q)'
        BY <2>1, <3>1 DEF Create, txVars, LedgerInv, RequestInv, HoldsCode, Covered
      <3>7. QED
        BY <3>4, <3>5, <3>6 DEF RequestInv
    <2>3. CASE \E a \in Accounts : SetAccountBlocked(a)
      <3>1. PICK a \in Accounts : SetAccountBlocked(a)
        BY <2>3
      <3>2. \A b \in Accounts : rowLock[b] = q => blocked'[b] = blocked[b]
        BY <3>1, LedgerAssumption DEF SetAccountBlocked, LedgerInv, TypeOK, BankTypeOK
      <3>3. QED
        BY <2>1, <3>1, <3>2, Undisturbed DEF LedgerInv, SetAccountBlocked, txVars
    <2>4. CASE \E c \in Codes : SaveCode(c)
      <3>1. PICK c \in Codes : SaveCode(c)
        BY <2>4
      <3>2. "mark" \in done[q] => code[q] \in Codes /\ codeLock[code[q]] = q
                                 /\ codes[code[q]] = "active"
        BY InFlightFacts
        DEF LedgerInv, TypeOK, RequestInv, HoldsCode, Trace, InFlight, Statements, Writes,
            Moves, Debits, CodeKinds
      <3>3. "mark" \in done[q] => codes'[code[q]] = "active"
        BY <3>1, <3>2, LedgerAssumption DEF SaveCode, Supersedes
      <3>4. HoldsCode(q)'
        BY <2>1, <3>2, <3>3 DEF txVars, HoldsCode
      <3>5. Bound(q)' /\ Trace(q)' /\ HoldsLow(q)'
        BY <2>1
        DEF txVars, LedgerInv, RequestInv, Bound, Trace, HoldsLow, InFlight, Moves
      <3>6. Holds(q)' /\ Covered(q)'
        BY <2>1, <3>1
        DEF SaveCode, txVars, LedgerInv, RequestInv, Holds, Covered, Judged, Admissible,
            Available, Closable
      <3>7. QED
        BY <3>4, <3>5, <3>6 DEF RequestInv
    <2>5. CASE \E c \in Codes : DeleteExpired(c)
      <3>1. PICK c \in Codes : DeleteExpired(c)
        BY <2>5
      <3>2. \A d \in Codes : codeLock[d] = q => codes'[d] = codes[d]
        BY <3>1, LedgerAssumption DEF DeleteExpired, LedgerInv, TypeOK, BankTypeOK
      <3>3. QED
        BY <2>1, <3>1, <3>2, Undisturbed DEF LedgerInv, DeleteExpired, txVars
    <2>6. QED
      BY <2>2, <2>3, <2>4, <2>5
  <1>3. QED
    BY <1>1, <1>2 DEF LedgerInv

LEMMA StutterKeeps ==
    ASSUME LedgerInv, UNCHANGED vars
    PROVE  LedgerInv'
  <1>1. TypeOK'
    BY DEF LedgerInv, TypeOK, BankTypeOK, vars, bankVars, txVars
  <1>2. ASSUME NEW q \in Requests PROVE RequestInv(q)'
    BY Undisturbed DEF LedgerInv, vars, bankVars, txVars
  <1>3. QED
    BY <1>1, <1>2 DEF LedgerInv

LEMMA NextKeeps == LedgerInv /\ [Next]_vars => LedgerInv'
  <1> SUFFICES ASSUME LedgerInv, [Next]_vars PROVE LedgerInv'
    OBVIOUS
  <1>1. ASSUME NEW p \in Requests, Submit(p) PROVE LedgerInv'
    BY <1>1, SubmitKeeps
  <1>2. ASSUME NEW p \in Requests, Step(p) PROVE LedgerInv'
    BY <1>2, LockLowRowKeeps, LockKeeps, MarkKeeps, WriteKeeps,
       CommitKeeps, AbortKeeps DEF Step, Fail
  <1>3. CASE \/ \E a \in Accounts : Create(a) \/ SetAccountBlocked(a)
             \/ \E c \in Codes : SaveCode(c) \/ DeleteExpired(c)
    BY <1>3, OutsideKeeps
  <1>4. CASE UNCHANGED vars
    BY <1>4, StutterKeeps
  <1>5. QED
    BY <1>1, <1>2, <1>3, <1>4 DEF Next

(* LedgerInv holds in every reachable state. *)
LEMMA LedgerInvariant == Spec => []LedgerInv
  BY InitLedgerInv, NextKeeps, PTL DEF Spec

(* Every variable keeps its type, and no committed balance is negative:    *)
(* the schema's CHECK (balance >= 0) never has to refuse a commit.         *)
THEOREM TypeCorrect == Spec => []TypeOK
  BY LedgerInvariant, PTL DEF LedgerInv

(* A debit found covered is covered when it commits.                       *)
THEOREM DebitsCovered == Spec => []DebitStaysCovered
  <1>1. LedgerInv => DebitStaysCovered
    BY DEF LedgerInv, RequestInv, Covered, DebitStaysCovered
  <1>2. QED
    BY <1>1, LedgerInvariant, PTL

(* Every step of a request is invisible or one operation of Bank.          *)
LEMMA StepImplements ==
    LedgerInv /\ [Next]_vars => [Abstract!Next]_bankVars
  <1> SUFFICES ASSUME LedgerInv, [Next]_vars PROVE [Abstract!Next]_bankVars
    OBVIOUS
  <1>1. ASSUME NEW p \in Requests, Commit(p) PROVE Abstract!Next
    <2>1. op[p] \in Ops
      BY <1>1, AtCommit DEF Commit
    <2>2. QED
      BY <1>1, <2>1, CommitIsAbstract DEF Abstract!Next
  <1>2. ASSUME NEW p \in Requests, Step(p), ~Commit(p) PROVE UNCHANGED bankVars
    BY <1>2
    DEF Step, LockLowRow, LockAccount, LockTransferAccounts, LockAccountForClose, Lock,
        MarkMFACodeUsed, WithdrawAccountBalance, UpdateAccountBalance, CloseAccountRow,
        CreateTransaction, Write, Fail, Abort, Continue
  <1>3. ASSUME NEW p \in Requests, Submit(p) PROVE UNCHANGED bankVars
    BY <1>3 DEF Submit, SubmitPlain, SubmitVerified, Begin
  <1>4. ASSUME NEW a \in Accounts, Create(a) \/ SetAccountBlocked(a) PROVE Abstract!Next
    BY <1>4 DEF Create, SetAccountBlocked, Abstract!Next, Abstract!Open, Abstract!SetBlocked
  <1>5. ASSUME NEW c \in Codes, SaveCode(c) PROVE Abstract!Issue(c)
    <2>1. codes' = [d \in Codes |->
                       IF d = c THEN "active"
                       ELSE IF CodeOp[d] = CodeOp[c] /\ codes[d] = "active"
                            THEN "used" ELSE codes[d]]
      BY <1>5 DEF SaveCode, Supersedes
    <2>2. QED
      BY <1>5, <2>1 DEF SaveCode, Abstract!Issue
  <1>6. ASSUME NEW c \in Codes, DeleteExpired(c) PROVE Abstract!Purge(c)
    BY <1>6 DEF DeleteExpired, Abstract!Purge
  <1>7. QED
    BY <1>1, <1>2, <1>3, <1>4, <1>5, <1>6 DEF Next, Abstract!Next, vars

(* The repository methods implement the abstract bank: transactions that   *)
(* interleave statement by statement look like whole operations one after  *)
(* another, each done completely or not at all.                            *)
THEOREM LedgerImplementsBank == Spec => ImplementsBank
  <1>1. Init => Abstract!BankInit
    BY DEF Init, BankInit, Abstract!BankInit
  <1>2. QED
    BY <1>1, LedgerInvariant, StepImplements, PTL
    DEF Spec, ImplementsBank, Abstract!Spec, bankVars, Abstract!bankVars

----------------------------------------------------------------------------
(* The safety properties of the committed state follow from the steps of   *)
(* Bank alone.                                                             *)

BankInv ==
    /\ BankTypeOK
    /\ BalanceMatchesLedger
    /\ ClosedAccountIsEmpty
    /\ \A c \in Codes :
          /\ codes[c] \in {"absent", "active"} => uses[c] = 0
          /\ uses[c] <= 1

LEMMA BankInvInit == Init => BankInv
  <1> SUFFICES ASSUME Init PROVE BankInv
    OBVIOUS
  <1>1. BankTypeOK
    BY InitLedgerInv DEF LedgerInv, TypeOK
  <1>2. QED
    BY <1>1, BankAssumption
    DEF Init, BankInit, BankInv, BalanceMatchesLedger, ClosedAccountIsEmpty

(* What posting an operation does to one account. *)
LEMMA PostEffect ==
    ASSUME BankTypeOK, NEW o \in Ops, Abstract!Post(o), NEW a \in Accounts
    PROVE  /\ balance'[a] = balance[a] - Abstract!Out(o, a) + Abstract!In(o, a)
           /\ credited'[a] = credited[a] + Abstract!In(o, a)
           /\ debited'[a] = debited[a] + Abstract!Out(o, a)
           /\ Abstract!Out(o, a) \in Nat /\ Abstract!In(o, a) \in Nat
           /\ a \notin {o.from, o.to} => Abstract!Out(o, a) = 0 /\ Abstract!In(o, a) = 0
  BY BankAssumption DEF Abstract!Post, Abstract!Out, Abstract!In

LEMMA BankInvNext ==
    ASSUME BankInv, BankTypeOK', [Abstract!Next]_bankVars
    PROVE  BankInv'
  <1>1. ASSUME NEW o \in Ops, Abstract!Post(o), UNCHANGED status, Abstract!Admissible(o)
        PROVE  BalanceMatchesLedger' /\ ClosedAccountIsEmpty'
    <2>1. ASSUME NEW a \in Accounts PROVE balance'[a] = credited'[a] - debited'[a]
      <3>1. /\ balance[a] = credited[a] - debited[a]
            /\ balance[a] \in Int /\ credited[a] \in Int /\ debited[a] \in Int
        BY DEF BankInv, BalanceMatchesLedger, BankTypeOK
      <3>2. QED
        BY <1>1, <3>1, PostEffect DEF BankInv
    <2>2. ASSUME NEW a \in Accounts, status'[a] = "closed" PROVE balance'[a] = 0
      <3>1. a \notin {o.from, o.to} /\ balance[a] = 0
        BY <1>1, <2>2 DEF Abstract!Admissible, Abstract!Available, BankInv, ClosedAccountIsEmpty
      <3>2. QED
        BY <1>1, <3>1, PostEffect DEF BankInv
    <2>3. QED
      BY <2>1, <2>2 DEF BalanceMatchesLedger, ClosedAccountIsEmpty
  <1>2. ASSUME NEW o \in Ops, Abstract!Deposit(o) PROVE BankInv'
    BY <1>1, <1>2 DEF Abstract!Deposit, BankInv
  <1>3. ASSUME NEW o \in Ops, NEW c \in Codes, Abstract!Spend(o, c) PROVE BankInv'
    <2>1. \A d \in Codes : /\ codes'[d] \in {"absent", "active"} => uses'[d] = 0
                           /\ uses'[d] <= 1
      <3>1. TAKE d \in Codes
      <3>2. /\ uses[d] \in Nat /\ uses[d] <= 1 /\ uses[c] = 0
            /\ codes[d] \in {"absent", "active"} => uses[d] = 0
        BY <1>3 DEF Abstract!Spend, BankInv, BankTypeOK
      <3>3. codes \in [Codes -> {"absent", "active", "used", "purged"}]
            /\ uses \in [Codes -> Nat]
        BY DEF BankInv, BankTypeOK
      <3>4. CASE d = c
        BY <1>3, <3>2, <3>3, <3>4 DEF Abstract!Spend
      <3>5. CASE d # c
        BY <1>3, <3>2, <3>3, <3>5 DEF Abstract!Spend
      <3>6. QED
        BY <3>4, <3>5
    <2>2. QED
      BY <1>1, <1>3, <2>1 DEF Abstract!Spend, BankInv
  <1>4. ASSUME NEW o \in Ops, Abstract!Close(o) PROVE BankInv'
    BY <1>4
    DEF Abstract!Close, BankInv, BankTypeOK, BalanceMatchesLedger, ClosedAccountIsEmpty
  <1>5. ASSUME NEW a \in Accounts, Abstract!Open(a) \/ Abstract!SetBlocked(a) PROVE BankInv'
    BY <1>5
    DEF Abstract!Open, Abstract!SetBlocked, BankInv, BankTypeOK, BalanceMatchesLedger,
        ClosedAccountIsEmpty
  <1>6. ASSUME NEW c \in Codes, Abstract!Issue(c) \/ Abstract!Purge(c) PROVE BankInv'
    BY <1>6
    DEF Abstract!Issue, Abstract!Purge, BankInv, BankTypeOK, BalanceMatchesLedger,
        ClosedAccountIsEmpty
  <1>7. CASE UNCHANGED bankVars
    BY <1>7 DEF bankVars, BankInv, BankTypeOK, BalanceMatchesLedger, ClosedAccountIsEmpty
  <1>8. QED
    BY <1>2, <1>3, <1>4, <1>5, <1>6, <1>7 DEF Abstract!Next

LEMMA BankInvariant == Spec => []BankInv
  <1>1. LedgerInv /\ LedgerInv' /\ BankInv /\ [Next]_vars => BankInv'
    BY StepImplements, BankInvNext DEF LedgerInv, TypeOK
  <1>2. QED
    BY <1>1, BankInvInit, LedgerInvariant, PTL DEF Spec

(* Balances agree with the transaction rows in every reachable state.      *)
THEOREM LedgerBalanced == Spec => []BalanceMatchesLedger
  BY BankInvariant, PTL DEF BankInv

(* No closed account holds money.                                          *)
THEOREM ClosedEmpty == Spec => []ClosedAccountIsEmpty
  BY BankInvariant, PTL DEF BankInv

(* No MFA code authorises two committed operations.                        *)
THEOREM CodeOnce == Spec => []CodeAuthorisesOnce
  <1>1. BankInv => CodeAuthorisesOnce
    <2>1. ASSUME BankInv, NEW c \in Codes
          PROVE  uses[c] <= 1 /\ (uses[c] = 1 => codes[c] \in {"used", "purged"})
      <3>1. codes[c] \in {"absent", "active", "used", "purged"}
        BY <2>1 DEF BankInv, BankTypeOK
      <3>2. QED
        BY <2>1, <3>1 DEF BankInv
    <2>2. QED
      BY <2>1 DEF CodeAuthorisesOnce
  <1>2. QED
    BY <1>1, BankInvariant, PTL

(* A closed or blocked account does not move, not even for operations that *)
(* were under way when it was closed or blocked.                           *)
THEOREM Frozen == Spec => UnavailableIsFrozen
  <1> DEFINE Still(a) == /\ balance'[a] = balance[a]
                         /\ credited'[a] = credited[a]
                         /\ debited'[a] = debited[a]
  <1>1. ASSUME BankInv, [Abstract!Next]_bankVars
        PROVE  [\A a \in Accounts : ~Available(a) => Still(a)]_bankVars
    <2>1. ASSUME NEW a \in Accounts, ~Available(a), NEW o \in Ops,
                 Abstract!Post(o), Abstract!Admissible(o)
          PROVE  Still(a)
      <3>1. a \notin {o.from, o.to}
        BY <2>1 DEF Available, Abstract!Admissible, Abstract!Available
      <3>2. balance[a] \in Nat /\ credited[a] \in Nat /\ debited[a] \in Nat
        BY <1>1 DEF BankInv, BankTypeOK
      <3>3. QED
        BY <1>1, <2>1, <3>1, <3>2, PostEffect DEF BankInv
    <2>2. QED
      BY <1>1, <2>1
      DEF Abstract!Next, Abstract!Deposit, Abstract!Spend, Abstract!Close, Abstract!Open,
          Abstract!SetBlocked, Abstract!Issue, Abstract!Purge
  <1>2. BankInv /\ LedgerInv /\ [Next]_vars =>
            [\A a \in Accounts : ~Available(a) => Still(a)]_bankVars
    BY <1>1, StepImplements
  <1>3. QED
    <2>1. (\A a \in Accounts : ~Available(a) => Still(a))
              <=> \A a \in Accounts : status[a] # "active" \/ blocked[a] => Still(a)
      BY DEF Available
    <2>2. BankInv /\ LedgerInv /\ [Next]_vars =>
              [\A a \in Accounts : status[a] # "active" \/ blocked[a] => Still(a)]_bankVars
      BY <1>2, <2>1
    <2> QED
      BY <2>2, BankInvariant, LedgerInvariant, PTL DEF Spec, UnavailableIsFrozen

----------------------------------------------------------------------------
(* Nobody waits in a circle: rows are locked in the order of their ids,    *)
(* and codes after rows.                                                   *)

PastMark == {"debit", "credit", "record", "commit"}

(* What a request holds, and when: the rows of its operation once they are *)
(* judged, and only the lower one while it waits for the higher.           *)
HoldsOnly(p) ==
    /\ \A a \in Accounts : rowLock[a] = p =>
          \/ Judged(p)
          \/ (pc[p] = "lock" /\ op[p].kind \in TransferKinds /\ a = LowRow(op[p]))
    /\ \A c \in Codes : codeLock[c] = p => pc[p] \in PastMark

LockInv == \A p \in Requests : HoldsOnly(p)

LEMMA LockStart == Init => LockInv
  BY LedgerAssumption DEF Init, LockInv, HoldsOnly

(* A request that stands still and takes no lock.                          *)
LEMMA OthersHold ==
    ASSUME NEW q \in Requests, HoldsOnly(q), pc'[q] = pc[q], op'[q] = op[q],
           \A a \in Accounts : rowLock'[a] = q => rowLock[a] = q,
           \A c \in Codes : codeLock'[c] = q => codeLock[c] = q
    PROVE  HoldsOnly(q)'
  BY DEF HoldsOnly, Judged, LowRow

(* An ended request holds nothing.                                         *)
LEMMA EndReleases ==
    ASSUME LedgerInv, LockInv, NEW p \in Requests, NEW result, End(p, result)
    PROVE  LockInv'
  <1>1. HoldsOnly(p)'
    BY LedgerAssumption DEF End, HoldsOnly
  <1>2. ASSUME NEW q \in Requests \ {p} PROVE HoldsOnly(q)'
    <2>1. pc'[q] = pc[q] /\ op'[q] = op[q]
      BY DEF End, LedgerInv, TypeOK
    <2>2. /\ \A a \in Accounts : rowLock'[a] = q => rowLock[a] = q
          /\ \A c \in Codes : codeLock'[c] = q => codeLock[c] = q
      BY LedgerAssumption DEF End
    <2>3. QED
      BY <2>1, <2>2, OthersHold DEF LockInv
  <1>3. QED
    BY <1>1, <1>2 DEF LockInv

(* A statement that succeeds takes locks for its own request only.         *)
LEMMA ContinueHolds ==
    ASSUME LedgerInv, LockInv, NEW p \in Requests, NEW w, Continue(p, w),
           \A a \in Accounts : rowLock'[a] \in Requests \ {p} => rowLock'[a] = rowLock[a],
           \A c \in Codes : codeLock'[c] \in Requests \ {p} => codeLock'[c] = codeLock[c],
           HoldsOnly(p)'
    PROVE  LockInv'
  <1>1. ASSUME NEW q \in Requests \ {p} PROVE HoldsOnly(q)'
    <2>1. pc'[q] = pc[q] /\ op'[q] = op[q]
      BY DEF Continue, LedgerInv, TypeOK
    <2>2. QED
      BY <2>1, OthersHold DEF LockInv
  <1>2. QED
    BY <1>1 DEF LockInv

LEMMA BeginHolds ==
    ASSUME LedgerInv, LockInv, NEW p \in Requests, Submit(p)
    PROVE  LockInv'
  <1>1. pc[p] = "idle" /\ UNCHANGED <<rowLock, codeLock>>
    BY DEF Submit, SubmitPlain, SubmitVerified, Begin
  <1>2. /\ \A a \in Accounts : rowLock[a] # p
        /\ \A c \in Codes : codeLock[c] # p
    BY <1>1 DEF LockInv, HoldsOnly, Judged, PastMark
  <1>3. HoldsOnly(p)'
    BY <1>1, <1>2 DEF HoldsOnly
  <1>4. ASSUME NEW q \in Requests \ {p} PROVE HoldsOnly(q)'
    <2>1. pc'[q] = pc[q] /\ op'[q] = op[q]
      BY DEF Submit, SubmitPlain, SubmitVerified, Begin, LedgerInv, TypeOK
    <2>2. QED
      BY <2>1, <1>1, OthersHold DEF LockInv
  <1>5. QED
    BY <1>3, <1>4 DEF LockInv

LEMMA LockLowRowHolds ==
    ASSUME LedgerInv, LockInv, NEW p \in Requests, LockLowRow(p)
    PROVE  LockInv'
  <1>1. op[p].kind \in TransferKinds /\ op[p].kind \in Kinds
    BY InFlightFacts DEF LedgerInv, RequestInv, Trace, LockLowRow, InFlight, Statements
  <1>2. Then(p) = "lock"
    BY <1>1, NextStatement DEF LockLowRow
  <1>3. pc'[p] = "lock" /\ op'[p] = op[p]
    BY <1>2 DEF LockLowRow, Continue, LedgerInv, TypeOK
  <1>4. /\ \A a \in Accounts : rowLock[a] # p
        /\ \A c \in Codes : codeLock[c] # p
    BY DEF LockLowRow, LockInv, HoldsOnly, Judged, PastMark
  <1>5. \A a \in Accounts : rowLock'[a] # rowLock[a] => a = LowRow(op[p]) /\ rowLock'[a] = p
    BY DEF LockLowRow, LedgerInv, TypeOK
  <1>6. codeLock' = codeLock
    BY DEF LockLowRow
  <1>7. HoldsOnly(p)'
    BY <1>1, <1>3, <1>4, <1>5, <1>6 DEF HoldsOnly, LowRow
  <1>8. QED
    BY <1>5, <1>6, <1>7, ContinueHolds DEF LockLowRow

LEMMA LockHolds ==
    ASSUME LedgerInv, LockInv, NEW p \in Requests, NEW row, NEW verdict,
           pc[p] = "lock", Lock(p, row, verdict)
    PROVE  LockInv'
  <1>1. CASE Abort(p)
    BY <1>1, EndReleases DEF Abort
  <1>2. CASE ~Abort(p)
    <2>1. /\ Continue(p, {}) /\ rowLock' = [rowLock EXCEPT ![row] = p]
          /\ UNCHANGED codeLock
      BY <1>2 DEF Lock
    <2>2. op[p].kind \in Kinds
      BY InFlightFacts DEF InFlight, Statements
    <2>3. Then(p) \in {"mark", "credit", "close"}
      BY <2>2, NextStatement
    <2>4. pc'[p] \in {"mark", "credit", "close"}
      BY <2>1, <2>3 DEF Continue, LedgerInv, TypeOK
    <2>5. \A c \in Codes : codeLock'[c] # p
      BY <2>1 DEF LockInv, HoldsOnly, PastMark
    <2>6. HoldsOnly(p)'
      BY <2>4, <2>5 DEF HoldsOnly, Judged
    <2>7. \A a \in Accounts : rowLock'[a] \in Requests \ {p} => rowLock'[a] = rowLock[a]
      BY <2>1 DEF LedgerInv, TypeOK
    <2>8. QED
      BY <2>1, <2>6, <2>7, ContinueHolds
  <1>3. QED
    BY <1>1, <1>2

LEMMA MarkHolds ==
    ASSUME LedgerInv, LockInv, NEW p \in Requests, MarkMFACodeUsed(p)
    PROVE  LockInv'
  <1>1. CASE Abort(p)
    BY <1>1, EndReleases DEF Abort
  <1>2. CASE ~Abort(p)
    <2>1. /\ Continue(p, {"mark"}) /\ codeLock' = [codeLock EXCEPT ![code[p]] = p]
          /\ UNCHANGED rowLock
      BY <1>2 DEF MarkMFACodeUsed
    <2>2. op[p].kind \in CodeKinds /\ op[p].kind \in Kinds
      BY InFlightFacts
      DEF MarkMFACodeUsed, LedgerInv, RequestInv, Trace, InFlight, Statements, Writes
    <2>3. Then(p) = "debit"
      BY <2>2, NextStatement DEF MarkMFACodeUsed
    <2>4. pc'[p] = "debit"
      BY <2>1, <2>3 DEF Continue, LedgerInv, TypeOK
    <2>5. HoldsOnly(p)'
      BY <2>4 DEF HoldsOnly, Judged, PastMark
    <2>6. \A c \in Codes : codeLock'[c] \in Requests \ {p} => codeLock'[c] = codeLock[c]
      BY <2>1 DEF LedgerInv, TypeOK
    <2>7. QED
      BY <2>1, <2>5, <2>6, ContinueHolds
  <1>3. QED
    BY <1>1, <1>2

(* The statements that take no lock.                                       *)
LEMMA WriteHolds ==
    ASSUME LedgerInv, LockInv, NEW p \in Requests,
           \/ WithdrawAccountBalance(p) \/ UpdateAccountBalance(p)
           \/ CloseAccountRow(p) \/ CreateTransaction(p)
    PROVE  LockInv'
  <1>1. CASE Abort(p)
    BY <1>1, EndReleases DEF Abort
  <1>2. CASE ~Abort(p)
    <2>1. PICK w : Continue(p, w) /\ UNCHANGED <<rowLock, codeLock>>
      BY <1>2 DEF WithdrawAccountBalance, UpdateAccountBalance, CloseAccountRow,
                  CreateTransaction, Write
    <2>2. /\ pc[p] \in {"debit", "credit", "close", "record"}
          /\ pc[p] = "debit" => op[p].kind \in CodeKinds
          /\ pc[p] = "credit" => op[p].kind \in TransferKinds \cup {"deposit"}
          /\ pc[p] = "close" => op[p].kind = "close"
          /\ pc[p] = "record" => op[p].kind # "close"
      BY DEF WithdrawAccountBalance, UpdateAccountBalance, CloseAccountRow,
             CreateTransaction, Write, LedgerInv, RequestInv, Trace
    <2>3. op[p].kind \in Kinds
      BY <2>2, InFlightFacts DEF InFlight, Statements, Writes
    <2>4. Then(p) \in {"credit", "record", "commit"}
      BY <2>2, <2>3, NextStatement
    <2>5. pc'[p] \in {"credit", "record", "commit"}
      BY <2>1, <2>4 DEF Continue, LedgerInv, TypeOK
    <2>6. HoldsOnly(p)'
      BY <2>5 DEF HoldsOnly, Judged, PastMark
    <2>7. QED
      BY <2>1, <2>6, ContinueHolds
  <1>3. QED
    BY <1>1, <1>2

LEMMA LockStep == LedgerInv /\ LockInv /\ [Next]_vars => LockInv'
  <1> SUFFICES ASSUME LedgerInv, LockInv, [Next]_vars PROVE LockInv'
    OBVIOUS
  <1>1. ASSUME NEW p \in Requests, Submit(p) PROVE LockInv'
    BY <1>1, BeginHolds
  <1>2. ASSUME NEW p \in Requests, Step(p) PROVE LockInv'
    <2>1. CASE LockLowRow(p)
      BY <2>1, LockLowRowHolds
    <2>2. CASE LockAccount(p) \/ LockTransferAccounts(p) \/ LockAccountForClose(p)
      BY <2>2, LockHolds DEF LockAccount, LockTransferAccounts, LockAccountForClose
    <2>3. CASE MarkMFACodeUsed(p)
      BY <2>3, MarkHolds
    <2>4. CASE \/ WithdrawAccountBalance(p) \/ UpdateAccountBalance(p)
               \/ CloseAccountRow(p) \/ CreateTransaction(p)
      BY <2>4, WriteHolds
    <2>5. CASE Commit(p) \/ Fail(p)
      BY <2>5, EndReleases DEF Commit, Fail, Abort
    <2>6. QED
      BY <1>2, <2>1, <2>2, <2>3, <2>4, <2>5 DEF Step
  <1>3. CASE \/ \E a \in Accounts : Create(a) \/ SetAccountBlocked(a)
             \/ \E c \in Codes : SaveCode(c) \/ DeleteExpired(c)
    <2>1. UNCHANGED txVars
      BY <1>3 DEF Create, SetAccountBlocked, SaveCode, DeleteExpired
    <2>2. QED
      BY <2>1, OthersHold DEF txVars, LockInv
  <1>4. CASE UNCHANGED vars
    BY <1>4, OthersHold DEF vars, txVars, LockInv
  <1>5. QED
    BY <1>1, <1>2, <1>3, <1>4 DEF Next

(* The row a waiting request waits for.                                    *)
WantedRow(p) == IF pc[p] = "lockLow" THEN LowRow(op[p]) ELSE HighRow(op[p])

(* Whoever is waited for at a code waits for nothing.                      *)
LEMMA CodeHolderRuns ==
    ASSUME LockInv, NEW p \in Requests, NEW q \in Requests, NEW r \in Requests,
           LedgerInv, pc[p] = "mark", WaitsFor(p, q)
    PROVE  ~WaitsFor(q, r)
  <1>1. code[p] \in Codes /\ codeLock[code[p]] = q
    <2>1. op[p].kind \in CodeKinds
      BY DEF LedgerInv, RequestInv, Trace
    <2>2. QED
      BY <2>1, InFlightFacts DEF WaitsFor, InFlight, Statements, Writes
  <1>2. pc[q] \in PastMark
    BY <1>1 DEF LockInv, HoldsOnly
  <1>3. QED
    BY <1>2 DEF WaitsFor, PastMark

(* Whoever is waited for at a row and waits for a row wants a higher one.  *)
LEMMA RowHolderWantsMore ==
    ASSUME LockInv, LedgerInv, NEW p \in Requests, NEW q \in Requests, NEW r \in Requests,
           pc[p] \in {"lockLow", "lock"}, pc[q] \in {"lockLow", "lock"},
           WaitsFor(p, q), WaitsFor(q, r)
    PROVE  WantedRow(q) > WantedRow(p)
  <1>1. op[p] \in Ops /\ op[q] \in Ops
    BY InFlightFacts DEF InFlight, Statements
  <1>2. WantedRow(p) \in Accounts /\ rowLock[WantedRow(p)] = q
    BY <1>1, Rows DEF WaitsFor, WantedRow
  <1>3. pc[q] = "lock" /\ op[q].kind \in TransferKinds /\ WantedRow(p) = LowRow(op[q])
    BY <1>2 DEF LockInv, HoldsOnly, Judged
  <1>4. op[q].from # op[q].to /\ op[q].from \in Nat /\ op[q].to \in Nat
    BY <1>1, <1>3, Rows, BankAssumption
  <1>5. HighRow(op[q]) > LowRow(op[q])
    BY <1>4 DEF HighRow, LowRow
  <1>6. QED
    BY <1>3, <1>5 DEF WantedRow

LEMMA NobodyCircles == LedgerInv /\ LockInv => NoDeadlock
  <1> SUFFICES ASSUME LedgerInv, LockInv, NEW S \in (SUBSET Requests) \ {{}},
                      \A p \in S : \E q \in S : WaitsFor(p, q)
               PROVE  FALSE
    BY DEF NoDeadlock
  <1>1. S \subseteq Requests /\ S # {} /\ IsFiniteSet(S)
    BY LedgerAssumption, FS_Subset
  <1>2. ASSUME NEW p \in S PROVE pc[p] \in {"lockLow", "lock"}
    <2>1. PICK q \in S : WaitsFor(p, q)
      OBVIOUS
    <2>2. PICK r \in S : WaitsFor(q, r)
      OBVIOUS
    <2>3. pc[p] # "mark"
      BY <1>1, <2>1, <2>2, CodeHolderRuns
    <2>4. QED
      BY <2>1, <2>3 DEF WaitsFor
  <1> DEFINE wanted == [p \in S |-> WantedRow(p)]
  <1>3. \A p \in S : wanted[p] \in Nat
    BY <1>1, <1>2, InFlightFacts, BankAssumption DEF InFlight, Statements, WantedRow
  <1>4. PICK p \in S : \A q \in S : wanted[q] <= wanted[p]
    <2> HIDE DEF wanted
    <2>1. QED
      BY <1>1, <1>3, GreatestValue
  <1>5. PICK q \in S : WaitsFor(p, q)
    OBVIOUS
  <1>6. PICK r \in S : WaitsFor(q, r)
    OBVIOUS
  <1>7. wanted[q] > wanted[p]
    BY <1>1, <1>2, <1>5, <1>6, RowHolderWantsMore
  <1>8. QED
    <2> HIDE DEF wanted
    <2>1. QED
      BY <1>3, <1>4, <1>7

(* No set of money transactions ever wait for one another, however many    *)
(* run at once and whichever rows they touch.                              *)
THEOREM NeverDeadlocks == Spec => []NoDeadlock
  BY LockStart, LockStep, NobodyCircles, LedgerInvariant, PTL DEF Spec
============================================================================
