--------------------------- MODULE MCMadviseLimiter ---------------------------
(* An instance of MadviseLimiter for TLC. *)
EXTENDS MadviseLimiter, TLC

CONSTANTS p1, p2, p3

MCCPUs == {p1, p2, p3}

CPUSymmetry == Permutations(CPUs)
=============================================================================
