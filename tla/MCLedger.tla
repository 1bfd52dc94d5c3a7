------------------------------ MODULE MCLedger ------------------------------
(* Two users with an account each, bob's not opened yet.  Transfers go in  *)
(* both directions, while a withdrawal that two codes allow, a deposit and *)
(* a closing contend for the same accounts.                                *)
EXTENDS Ledger, TLC

CONSTANTS alice, bob, r1, r2, r3, c1, c2, c3, c4

MCAccounts == {1, 2}
MCOwner == (1 :> alice) @@ (2 :> bob)
MCOpening == (1 :> 2) @@ (2 :> 0)
MCRequests == {r1, r2, r3}

Operation(kind, user, from, to, amount) ==
    [kind |-> kind, user |-> user, from |-> from, to |-> to, amount |-> amount]

Forth    == Operation("transfer", alice, 1, 2, 2)
Back     == Operation("card_transfer", bob, 2, 1, 1)
TopUp    == Operation("deposit", bob, 2, 2, 1)
Withdraw == Operation("withdraw", alice, 1, 1, 2)
Leave    == Operation("close", alice, 1, 1, 1)
MCOps == {Forth, Back, TopUp, Withdraw, Leave}

MCCodes == {c1, c2, c3, c4}
MCCodeOp == (c1 :> Withdraw) @@ (c2 :> Withdraw) @@ (c3 :> Forth) @@ (c4 :> Back)

Symmetry == Permutations(MCRequests) \cup Permutations({c1, c2})
============================================================================
