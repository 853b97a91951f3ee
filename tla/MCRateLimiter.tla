----------------------------- MODULE MCRateLimiter -----------------------------
\* RateLimiter for TLC: five requests of one or two clients, two per window of two
\* instants, and a lock that may be waited for during one instant.
EXTENDS RateLimiter, TLC

CONSTANTS r1, r2, r3, r4, r5, k1, k2

MCRequests == {r1, r2, r3, r4, r5}
MCClients == {k1, k2}
Symmetry == Permutations(MCRequests)
================================================================================
