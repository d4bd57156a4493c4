----------------------------- MODULE MCLimiter -----------------------------
(* The rate limiter alone, with one limit. *)
EXTENDS RateLimiter, TLC

OneLimit == {[requests |-> 1, window |-> 2]}
=============================================================================
