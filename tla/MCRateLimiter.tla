--------------------------- MODULE MCRateLimiter ---------------------------
(* Model values for the rate limiter: three addresses compete for two slots,
   and two callers may be between the clock and the mutex at once. *)
EXTENDS RateLimiter, TLC

IpSymmetry == Permutations(Ips) \cup Permutations(Callers)

=============================================================================
