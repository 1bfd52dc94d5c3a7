----------------------------- MODULE Prepayment -----------------------------
(***************************************************************************)
(* How a prepayment changes the amounts of the pending instalments of a    *)
(* credit.  A plan is the sequence of their amounts in cents, in order of  *)
(* payment_date; an amount of 0 stands for an instalment that the          *)
(* prepayment marked paid.                                                 *)
(***************************************************************************)
EXTENDS Integers, Sequences, SequencesExt

(* sumPendingPaymentCents *)
Outstanding(plan) == FoldLeft(+, 0, plan)

(* The same walk from the first instalment forwards. *)
CutFromFront(plan, prepaid) ==
    LET left[i \in 1..Len(plan)] ==
            IF i = 1 THEN prepaid
            ELSE IF left[i - 1] >= plan[i - 1] THEN left[i - 1] - plan[i - 1] ELSE 0
    IN  [i \in 1..Len(plan) |-> IF left[i] >= plan[i] THEN 0 ELSE plan[i] - left[i]]

(* From the last instalment backwards, each is paid off while the          *)
(* prepayment lasts, and the one that exhausts it is reduced.              *)
ReduceTerm(plan, prepaid) ==
    LET left[i \in 1..Len(plan)] ==
            IF i = Len(plan) THEN prepaid
            ELSE IF left[i + 1] >= plan[i + 1] THEN left[i + 1] - plan[i + 1] ELSE 0
    IN  [i \in 1..Len(plan) |-> IF left[i] >= plan[i] THEN 0 ELSE plan[i] - left[i]]

(* Rounding every instalment down loses the extra cents. *)
SpreadDown(plan, remaining) == [i \in 1..Len(plan) |-> remaining \div Len(plan)]

(* The remaining debt is spread evenly, the first instalments taking the   *)
(* extra cents; every instalment needs at least a cent.                    *)
CanReducePayment(plan, remaining) == plan # <<>> /\ remaining >= Len(plan)

ReducePayment(plan, remaining) ==
    [i \in 1..Len(plan) |->
        remaining \div Len(plan) + IF i <= remaining % Len(plan) THEN 1 ELSE 0]

(* What the credit row shows afterwards: the number of instalments left    *)
(* and the amount of the first.                                            *)
Unpaid(plan) ==
    FoldLeft(LAMBDA kept, a : IF a > 0 THEN Append(kept, a) ELSE kept, <<>>, plan)
NewTerm(plan) == Len(Unpaid(plan))
NewMonthlyPayment(plan) == IF Unpaid(plan) = <<>> THEN 0 ELSE Head(Unpaid(plan))
=============================================================================
