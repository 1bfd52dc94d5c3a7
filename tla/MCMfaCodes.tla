----------------------------- MODULE MCMfaCodes -----------------------------
(* Two requests for a code and two attempts at a time.                     *)
EXTENDS MfaCodes, TLC

CONSTANTS r1, r2, a1, a2

MCRequests == {r1, r2}
MCAttempts == {a1, a2}
Symmetry == Permutations(MCRequests) \cup Permutations(MCAttempts)
=============================================================================
