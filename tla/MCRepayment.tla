----------------------------- MODULE MCRepayment -----------------------------
(* Prepayments, looked at twice: what every one of them makes of every small *)
(* plan, to the cent; and two requests that prepay one credit while the      *)
(* scheduler charges it.  The focus says which.                              *)
EXTENDS MCCredits, PrepaidPlan

VARIABLE focus

(* One plan is enough beside the credit.                                     *)
RepaymentInit ==
    /\ Init
    /\ PlanInit
    /\ focus \in {"plan", "credit"}
    /\ focus = "credit" => Len(instalments) = 1 /\ instalments[1] = 1

PlanPaid == instalments = <<>> /\ UNCHANGED planVars

RepaymentNext ==
    /\ UNCHANGED focus
    /\ \/ focus = "plan" /\ (PlanNext \/ PlanPaid) /\ UNCHANGED vars
       \/ focus = "credit" /\ Next /\ UNCHANGED planVars

RepaymentSpec == RepaymentInit /\ [][RepaymentNext]_<<vars, planVars, focus>>
=============================================================================
