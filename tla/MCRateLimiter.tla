--------------------------- MODULE MCRateLimiter ---------------------------
(* An instance of RateLimiter for TLC: two workers, a slow host whose      *)
(* interval the registry sets and a fast one left to the default.          *)
EXTENDS RateLimiter, TLC

CONSTANTS w1, w2, slow, fast

MCWorker == {w1, w2}
MCHost == {slow, fast}
MCInterval == (slow :> 2) @@ (fast :> Unset)
(* Retry(backoff_factor=1): no pause before the first retry, then 2, 4... *)
MCBackoff(k) == IF k = 1 THEN 0 ELSE 2^(k - 1)
=============================================================================
