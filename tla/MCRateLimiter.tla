---------------------------- MODULE MCRateLimiter ----------------------------
(* Instances of RateLimiter for TLC. *)
EXTENDS RateLimiter, TLC

LimiterSymmetry == Permutations(Requests) \cup Permutations(IPs)
=============================================================================
