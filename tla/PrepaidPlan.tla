---------------------------- MODULE PrepaidPlan -----------------------------
(***************************************************************************)
(* A credit whose owner prepays again and again, in any mode and by any    *)
(* amount: every plan of up to MaxTerm equal instalments, and everything   *)
(* that prepayments and the payment of the first instalment make of it.    *)
(***************************************************************************)
EXTENDS Prepayment

CONSTANTS MaxTerm, MaxMonthly  \* bounds: instalments of a credit, and each

ASSUME PlanAssumption == MaxTerm \in Nat /\ MaxMonthly \in Nat

VARIABLES
    instalments,    \* the amounts of the pending instalments
    latest          \* what the last step did: its mode, the plan it found,
                    \* and the amount

planVars == <<instalments, latest>>

PlanInit ==
    /\ instalments \in {[i \in 1..n |-> a] : n \in 1..MaxTerm, a \in 1..MaxMonthly}
    /\ latest = [mode |-> "none", before |-> instalments, amount |-> 0]

ByTerm(amount) ==
    /\ instalments' = Unpaid(ReduceTerm(instalments, amount))
    /\ latest' = [mode |-> "reduce_term", before |-> instalments, amount |-> amount]

ByPayment(amount) ==
    /\ CanReducePayment(instalments, Outstanding(instalments) - amount)
    /\ instalments' = ReducePayment(instalments, Outstanding(instalments) - amount)
    /\ latest' = [mode |-> "reduce_payment", before |-> instalments, amount |-> amount]

PayFirst ==
    /\ instalments # <<>>
    /\ instalments' = Tail(instalments)
    /\ latest' = [mode |-> "payment", before |-> instalments, amount |-> Head(instalments)]

PlanNext ==
    \/ \E amount \in 1..MaxTerm * MaxMonthly :
          amount < Outstanding(instalments) /\ (ByTerm(amount) \/ ByPayment(amount))
    \/ PayFirst

PlanSpec == PlanInit /\ [][PlanNext]_planVars

----------------------------------------------------------------------------
(* The debt falls by exactly the amount paid, to the cent, in either mode. *)
DebtFallsByThePrepayment ==
    Outstanding(instalments) = Outstanding(latest.before) - latest.amount

(* No balloon builds up, whatever the history of prepayments: every        *)
(* instalment is positive and none is larger than the one before it.  A    *)
(* reduce_term keeps the first instalments as they were: what remains is a *)
(* prefix of the old plan, but for its last instalment, which is no larger. *)
PlanStaysLevel ==
    /\ \A i \in 1..Len(instalments) :
          /\ instalments[i] > 0
          /\ i > 1 => instalments[i] <= instalments[i - 1]
    /\ latest.mode = "reduce_term" =>
          /\ Len(instalments) <= Len(latest.before)
          /\ \A i \in 1..Len(instalments) - 1 : instalments[i] = latest.before[i]
          /\ NewMonthlyPayment(instalments) <= NewMonthlyPayment(latest.before)
=============================================================================
