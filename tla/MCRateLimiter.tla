--------------------------- MODULE MCRateLimiter ---------------------------
(* Small instances of the rate limiter for TLC. *)
EXTENDS RateLimiter, TLC

\* Requests are only told apart by their identity.
Symmetry == Permutations(Requests)

=============================================================================
