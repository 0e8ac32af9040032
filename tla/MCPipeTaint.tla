----------------------------- MODULE MCPipeTaint -----------------------------
(* Instances of PipeTaint for TLC. *)
EXTENDS PipeTaint, Bitwise, TLC

CONSTANTS t1, t2

MCTasks == {t1, t2}
MCPtrs == {2, 4}
(* 2 ^^ 1 = 4 ^^ 7: pipes at the two addresses may be twins, or not.       *)
MCInos == {0, 1, 7}
MCXor(a, b) == a ^^ b

TaskSymmetry == Permutations(Tasks)
=============================================================================
