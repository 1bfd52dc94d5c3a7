------------------------------ MODULE MCCards ------------------------------
(* Alice pays and sends from card k1, shows its number; k2 is bob's, who   *)
(* asks for a second card and closes his account.  k2 expires while the    *)
(* clock runs.  Three behaviours are explored apart: guessing at the CVV,  *)
(* using cards and codes with the right CVV, and issuing cards.            *)
EXTENDS Cards, TLC

CONSTANTS alice, bob, k1, k2, k3, c1, c2, v1, r1, r2

MCAccounts == {1, 2}
MCOwner == (1 :> alice) @@ (2 :> bob)
MCOpening == (1 :> 1) @@ (2 :> 0)
MCCards == {k1, k2, k3}
MCCardAccount == (k1 :> 1) @@ (k2 :> 2) @@ (k3 :> 2)
MCExpires == (k1 :> 9) @@ (k2 :> 1) @@ (k3 :> 9)

Asking(kind, to) == [kind |-> kind, user |-> alice, card |-> k1, to |-> to, amount |-> 1]
Pay  == Asking("card_payment", k1)
Send == Asking("card_transfer", k2)
Show == Asking("card_reveal", k1)
MCAsks == {Pay, Send, Show}

MCMoney(a) == [kind |-> a.kind, user |-> a.user, from |-> MCCardAccount[a.card],
               to |-> MCCardAccount[a.to], amount |-> a.amount]
Leave == [kind |-> "close", user |-> bob, from |-> 2, to |-> 2, amount |-> 1]
MCOps == {MCMoney(Pay), MCMoney(Send), Leave}
MCCodeOp == (c1 :> MCMoney(Pay)) @@ (c2 :> MCMoney(Send))
MCCodeAsk == (c1 :> Pay) @@ (c2 :> Send) @@ (v1 :> Show)

VARIABLE focus

LeftAlone ==
    CASE focus = "guess" -> UNCHANGED <<bankVars, rowVars, tries>>
      [] focus = "use"   -> UNCHANGED <<limiterVars, tries, blocked>>
      [] focus = "issue" -> \A r \in Requests : ask'[r] \notin Asks

MCInit == Init /\ focus \in {"guess", "use", "issue"}
MCNext == Next /\ LeftAlone /\ UNCHANGED focus
MCSpec == MCInit /\ [][MCNext]_<<vars, focus>>

Symmetry == Permutations({r1, r2})
=============================================================================
