--------------------------- MODULE MCQuotaLedger ----------------------------
(***************************************************************************)
(* A small gateway for TLC: two requests and two tokens, one place in the  *)
(* queue, so that drops, partial batches and interleaved commits happen.   *)
(***************************************************************************)
EXTENDS QuotaLedger, TLC

CONSTANTS r1, r2, t1, t2

MCRequests == {r1, r2}
MCTokens == {t1, t2}
MCCosts == {0, 3}
MCLimits == {0, 3}

Symmetry == Permutations(MCRequests)
=============================================================================
