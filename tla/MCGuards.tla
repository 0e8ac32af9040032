------------------------------- MODULE MCGuards -------------------------------
(* Instances of Guards for TLC. *)
EXTENDS Guards, TLC

CONSTANTS mark, other, i1, i2, i3, t1, t2

MCNames == {mark, other}
MCInodes == {i1, i2, i3}
MCHome == (mark :> i1) @@ (other :> i2)
MCTasks == {t1, t2}

TaskSymmetry == Permutations(Tasks)
=============================================================================
