--------------------------- MODULE MCRateLimiter ---------------------------
(***************************************************************************)
(* Instances of RateLimiter for TLC.  Requests differ only in their name.  *)
(***************************************************************************)
EXTENDS RateLimiter, TLC

Symmetry == Permutations(Requests)
=============================================================================
