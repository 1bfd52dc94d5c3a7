----------------------------- MODULE BankState -----------------------------
(***************************************************************************)
(* The committed state of the accounts and of the MFA codes: the rows of   *)
(* the tables accounts, transactions and mfa_codes as any new database     *)
(* transaction sees them.  Bank (the promise) and Ledger (the repository   *)
(* methods, statement by statement) are two specifications of how it       *)
(* changes.                                                                *)
(*                                                                         *)
(* The table transactions is kept as the two sums a reconciliation takes   *)
(* from it: what its rows credit to and debit from each account.           *)
(***************************************************************************)
EXTENDS Integers

CONSTANTS
    Accounts,   \* ids of the account rows; rows are locked in id order
    Users,
    Owner,      \* the user_id of each account
    Codes,      \* ids of the MFA codes that are ever issued
    Ops,        \* the operations users ask for
    CodeOp,     \* the operation each code is bound to by its operation_hash
    Existing,   \* the accounts opened before the first step
    Opening,    \* the balance earlier deposits left on the existing accounts
    Indebted    \* accounts with a credit that is not paid off

TransferKinds == {"transfer", "card_transfer"}
PaymentKinds  == {"withdraw", "card_payment"}
CodeKinds     == TransferKinds \cup PaymentKinds
Kinds         == CodeKinds \cup {"deposit", "close"}

(***************************************************************************)
(* The services refuse a transfer of an account to itself; an operation of *)
(* a single account names it twice here.  Amounts are cents and positive   *)
(* (normalizeAmount).                                                      *)
(***************************************************************************)
ASSUME BankAssumption ==
    /\ Accounts \subseteq Nat
    /\ Owner \in [Accounts -> Users]
    /\ Ops \subseteq [kind : Kinds, user : Users, from : Accounts,
                      to : Accounts, amount : Nat \ {0}]
    /\ \A o \in Ops : o.kind \in TransferKinds <=> o.from # o.to
    /\ CodeOp \in [Codes -> {o \in Ops : o.kind \in CodeKinds}]
    /\ Existing \subseteq Accounts
    /\ Opening \in [Accounts -> Nat]
    /\ \A a \in Accounts \ Existing : Opening[a] = 0
    /\ Indebted \subseteq Accounts

VARIABLES
    balance,    \* accounts.balance
    status,     \* accounts.status; "absent" before the row is inserted
    blocked,    \* accounts.is_blocked
    codes,      \* mfa_codes: "active" is used_at IS NULL, "purged" a deleted row
    credited,   \* sum of transactions.amount over rows with to_account_id = a
    debited,    \* sum of transactions.amount over rows with from_account_id = a
    uses        \* how many rows of transactions each code authorised

bankVars == <<balance, status, blocked, codes, credited, debited, uses>>

BankTypeOK ==
    /\ balance \in [Accounts -> Nat]    \* CHECK (balance >= 0)
    /\ status \in [Accounts -> {"absent", "active", "closed"}]
    /\ blocked \in [Accounts -> BOOLEAN]
    /\ codes \in [Codes -> {"absent", "active", "used", "purged"}]
    /\ credited \in [Accounts -> Nat]
    /\ debited \in [Accounts -> Nat]
    /\ uses \in [Codes -> Nat]

BankInit ==
    /\ balance = Opening
    /\ status = [a \in Accounts |-> IF a \in Existing THEN "active" ELSE "absent"]
    /\ blocked = [a \in Accounts |-> FALSE]
    /\ codes = [c \in Codes |-> "absent"]
    /\ credited = Opening
    /\ debited = [a \in Accounts |-> 0]
    /\ uses = [c \in Codes |-> 0]

(* An account takes part in financial operations: active and not blocked;  *)
(* Active is a flag for conditions that know nothing of is_blocked.        *)
Active(a)    == status[a] = "active"
Available(a) == status[a] = "active" /\ ~blocked[a]

(* What lockAccount and lockTransferAccounts demand of the locked rows.    *)
Admissible(o) ==
    /\ Owner[o.from] = o.user
    /\ Available(o.from)
    /\ Available(o.to)

Debits(o)  == o.kind \in CodeKinds
Credits(o) == o.kind \in TransferKinds \cup {"deposit"}

(* The amount an operation takes from, and gives to, account a.           *)
Out(o, a) == IF Debits(o) /\ a = o.from THEN o.amount ELSE 0
In(o, a)  == IF Credits(o) /\ a = o.to THEN o.amount ELSE 0

----------------------------------------------------------------------------
(* Safety properties of the committed state *)

(* Every balance is what the transaction rows of the account add up to: no *)
(* interleaving of deposits, withdrawals and transfers loses an update or  *)
(* records a movement that did not happen.                                 *)
BalanceMatchesLedger ==
    \A a \in Accounts : balance[a] = credited[a] - debited[a]

(* A closed account holds no money: nothing slips in between the balance   *)
(* check of Close and the status update.                                   *)
ClosedAccountIsEmpty ==
    \A a \in Accounts : status[a] = "closed" => balance[a] = 0

(* A code authorises at most one committed operation, and stays spent.     *)
CodeAuthorisesOnce ==
    \A c \in Codes :
        /\ uses[c] <= 1
        /\ uses[c] = 1 => codes[c] \in {"used", "purged"}

(* Nothing is posted to an account in a step that finds it closed or       *)
(* blocked: a block or a closing takes effect against operations already   *)
(* under way.                                                              *)
UnavailableIsFrozen ==
    [][\A a \in Accounts :
          status[a] # "active" \/ blocked[a] =>
              /\ balance'[a] = balance[a]
              /\ credited'[a] = credited[a]
              /\ debited'[a] = debited[a]]_bankVars
============================================================================
