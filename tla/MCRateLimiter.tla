---------------------------- MODULE MCRateLimiter ---------------------------
(* A small instance of RateLimiter for TLC: more keys than the map holds.  *)
EXTENDS RateLimiter, TLC

Symmetry == Permutations(Tokens) \cup Permutations(Threads)
=============================================================================
