----------------------------- MODULE MCRateLimit -----------------------------
(* Two processes; the wall clock of the second may be a tick ahead. *)
EXTENDS RateLimit

CONSTANTS p1, p2

Disagree == [p \in Procs |-> IF p = p2 THEN 1 ELSE 0]
=============================================================================
