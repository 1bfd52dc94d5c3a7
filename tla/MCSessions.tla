----------------------------- MODULE MCSessions -----------------------------
(* Four requests of a user, interchangeable. *)
EXTENDS Sessions, TLC

CONSTANTS r1, r2, r3, r4

FourRequests == {r1, r2, r3, r4}
Symmetry == Permutations(FourRequests)
=============================================================================
