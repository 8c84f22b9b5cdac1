---------------------------- MODULE MCRateLimiter ----------------------------
(* Instances of RateLimiter for TLC. *)
EXTENDS RateLimiter, TLC

\* Workers are interchangeable.
MCSymmetry == Permutations(Worker)
=============================================================================
