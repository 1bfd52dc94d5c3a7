--------------------------- MODULE MCIdempotency ---------------------------
(* Three requests that carry one of two bodies under one key.              *)
EXTENDS Idempotency, TLC

CONSTANTS p1, p2, p3, k1, b1, b2

ThreeRequests == {p1, p2, p3}
============================================================================
