--------------------------- MODULE MCRateLimiter ---------------------------
(***************************************************************************)
(* A small instance of RateLimiter: three threads, a window of three ticks *)
(* and enough time for the window to pass twice.                           *)
(***************************************************************************)
EXTENDS RateLimiter, TLC

CallerSymmetry == Permutations(Callers)
=============================================================================
