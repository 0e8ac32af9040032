---------------------------- MODULE MCControlPlane ----------------------------
(* Instances of ControlPlane for TLC. *)
EXTENDS ControlPlane, TLC

CONSTANTS c1, c2, c3, m1, m2, ghost

MCClients2 == {c1, c2}
MCClients3 == {c1, c2, c3}
MCRegistry1 == {m1}
MCNames1 == {m1, ghost}
MCRegistry2 == {m1, m2}

ClientSymmetry == Permutations(Clients)
=============================================================================
