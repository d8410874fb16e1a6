----------------------------- MODULE MCRateLimit ------------------------------
(* A model-checking instance of RateLimit.                                 *)
EXTENDS RateLimit

CONSTANTS r1, r2
=============================================================================
