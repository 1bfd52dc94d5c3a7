-------------------------------- MODULE Bank --------------------------------
(***************************************************************************)
(* What the account repository promises: every operation happens at once,  *)
(* on the committed state, or not at all.  Ledger implements this.         *)
(***************************************************************************)
EXTENDS BankState

(* A row of transactions is inserted together with the balances it moves.  *)
Post(o) ==
    /\ balance' = [a \in Accounts |-> balance[a] - Out(o, a) + In(o, a)]
    /\ credited' = [a \in Accounts |-> credited[a] + In(o, a)]
    /\ debited' = [a \in Accounts |-> debited[a] + Out(o, a)]

Deposit(o) ==
    /\ o.kind = "deposit"
    /\ Admissible(o)
    /\ Post(o)
    /\ UNCHANGED <<status, blocked, codes, uses>>

(* A withdrawal, card payment or transfer spends the live code bound to it. *)
Spend(o, c) ==
    /\ o.kind \in CodeKinds
    /\ CodeOp[c] = o
    /\ codes[c] = "active"
    /\ Admissible(o)
    /\ balance[o.from] >= o.amount
    /\ Post(o)
    /\ codes' = [codes EXCEPT ![c] = "used"]
    /\ uses' = [uses EXCEPT ![c] = @ + 1]
    /\ UNCHANGED <<status, blocked>>

Close(o) ==
    /\ o.kind = "close"
    /\ Admissible(o)
    /\ balance[o.from] = 0
    /\ o.from \notin Indebted
    /\ status' = [status EXCEPT ![o.from] = "closed"]
    /\ UNCHANGED <<balance, blocked, codes, credited, debited, uses>>

Open(a) ==
    /\ status[a] = "absent"
    /\ status' = [status EXCEPT ![a] = "active"]
    /\ UNCHANGED <<balance, blocked, codes, credited, debited, uses>>

SetBlocked(a) ==
    /\ status[a] # "absent"
    /\ blocked' = [blocked EXCEPT ![a] = ~@]
    /\ UNCHANGED <<balance, status, codes, credited, debited, uses>>

(* Issuing a code spends the earlier codes of the same operation.          *)
Issue(c) ==
    /\ codes[c] = "absent"
    /\ codes' = [d \in Codes |->
                    IF d = c THEN "active"
                    ELSE IF CodeOp[d] = CodeOp[c] /\ codes[d] = "active"
                         THEN "used" ELSE codes[d]]
    /\ UNCHANGED <<balance, status, blocked, credited, debited, uses>>

(* Expired and used codes are deleted.                                     *)
Purge(c) ==
    /\ codes[c] \in {"active", "used"}
    /\ codes' = [codes EXCEPT ![c] = "purged"]
    /\ UNCHANGED <<balance, status, blocked, credited, debited, uses>>

Next ==
    \/ \E o \in Ops : Deposit(o) \/ Close(o) \/ \E c \in Codes : Spend(o, c)
    \/ \E a \in Accounts : Open(a) \/ SetBlocked(a)
    \/ \E c \in Codes : Issue(c) \/ Purge(c)

Spec == BankInit /\ [][Next]_bankVars
============================================================================
