--------------------------- MODULE MCRateLimiter ---------------------------
(* Two addresses; a request costs 2 units and the burst is 2 requests.      *)
EXTENDS RateLimiter, TLC

Symmetry == Permutations(Ips)
=============================================================================
