---------------------------- MODULE MCCrashLockbox ----------------------------
(* Instances of CrashLockbox for TLC. *)
EXTENDS CrashLockbox, TLC

CONSTANTS k1, k2, k3, k4, h1, h2

MCCrashes == {k1, k2, k3, k4}
MCHandlers == {h1, h2}

CrashSymmetry == Permutations(Crashes)
=============================================================================
