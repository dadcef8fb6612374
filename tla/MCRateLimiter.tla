---------------------------- MODULE MCRateLimiter ----------------------------
(* The instances of RateLimiter that TLC checks. *)
EXTENDS RateLimiter, TLC

\* In halves of a token: a slow bucket, and a faster one that holds less.
MCLimits == {[capacity |-> 3, refill |-> 1], [capacity |-> 2, refill |-> 2]}

\* A burst that is never refilled.
MCBurst == {[capacity |-> 2, refill |-> 0]}

\* Threads are interchangeable.
MCSymmetry == Permutations(Threads)
=============================================================================
