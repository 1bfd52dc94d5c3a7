----------------------------- MODULE MCCredits -----------------------------
(* Instances of Credits.  Amounts are in units of ten, so that the penalty *)
(* of an instalment is one.                                                *)
EXTENDS Credits, TLC

CONSTANTS alice, c1, c2, c3, r1, r2

MCRequests == {r1, r2}
Symmetry == Permutations(MCRequests)

Policy == {"principal", "overdue", "active", "total", "load"}

Ahead(c, n, mode) == [credit |-> c, amount |-> n, mode |-> mode]

----------------------------------------------------------------------------
(* Applications: two requests apply for three credits of which two may be  *)
(* open at a time; two accounts.                                           *)
TwoAccounts == {1, 2}
TwoOwner == [a \in TwoAccounts |-> alice]
ThreeCredits == {c1, c2, c3}
ThreeAccount == (c1 :> 1) @@ (c2 :> 2) @@ (c3 :> 1)
ThreePrincipal == [c \in ThreeCredits |-> 9]
ThreeMonthly == [c \in ThreeCredits |-> 10]
ThreeTerm == [c \in ThreeCredits |-> 1]
ThreeTurn == (<<c1, 1>> :> 1) @@ (<<c2, 1>> :> 2) @@ (<<c3, 1>> :> 3)
ThreeOpening == [a \in TwoAccounts |-> 0]

----------------------------------------------------------------------------
(* Repayment: two requests prepay one credit of two instalments while the  *)
(* scheduler charges them.                                                 *)
OneAccount == {1}
OneOwner == [a \in OneAccount |-> alice]
OneCredit == {c1}
OneAccountOf == (c1 :> 1)
OnePrincipal == (c1 :> 18)
OneMonthly == (c1 :> 10)
OneTerm == (c1 :> 2)
OneTurn == (<<c1, 1>> :> 1) @@ (<<c1, 2>> :> 2)
OneOpening == (1 :> 12)
OnePrepayments == {Ahead(c1, 10, "reduce_term"), Ahead(c1, 5, "reduce_payment"),
                   Ahead(c1, 20, "full_close")}

----------------------------------------------------------------------------
(* Retry: a credit of two instalments and one of a single instalment, due  *)
(* after them, on an account each; a batch holds two.                      *)
RetryCredits == {c1, c2}
RetryAccount == (c1 :> 1) @@ (c2 :> 2)
RetryPrincipal == (c1 :> 18) @@ (c2 :> 9)
RetryMonthly == [c \in RetryCredits |-> 10]
RetryTerm == (c1 :> 2) @@ (c2 :> 1)
RetryTurn == (<<c1, 1>> :> 0) @@ (<<c1, 2>> :> 1) @@ (<<c2, 1>> :> 2)
RetryOpening == (1 :> 0) @@ (2 :> 10)
RetryPrepayments == {Ahead(c1, 10, "reduce_term")}
============================================================================
