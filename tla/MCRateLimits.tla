---------------------------- MODULE MCRateLimits -----------------------------
(***************************************************************************)
(* Small instances of RateLimits: a request costs two fractions, of which  *)
(* the general limiter adds two in a unit of time and the login's one.     *)
(***************************************************************************)
EXTENDS RateLimits, TLC

Rates == [l \in Limiters |-> IF l = "general" THEN 2 ELSE 1]
Bursts == [l \in Limiters |-> IF l = "general" THEN 2 ELSE 1]

ProcSymmetry == Permutations(Procs)

=============================================================================
