--------------------------- MODULE MCStrikeTracker ---------------------------
(* Instances of StrikeTracker for TLC. *)
EXTENDS StrikeTracker, TLC

CONSTANTS d, q1, q2

MCPids == {d, q1, q2}

PidSymmetry == Permutations(Pids \ {Daemon})
=============================================================================
