--------------------------- MODULE MCRateLimiter ---------------------------
(* Small instances of RateLimiter: a token is two units, one refilled per  *)
(* millisecond, so that half tokens occur.                                 *)
EXTENDS RateLimiter
=============================================================================
