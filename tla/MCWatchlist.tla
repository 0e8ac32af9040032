----------------------------- MODULE MCWatchlist -----------------------------
(* Instances of Watchlist for TLC. *)
EXTENDS ExecBlock, TLC

CONSTANTS w, o, a, b

MCInodes == {w, o, a, b}

InodeSymmetry == Permutations({a, b})
=============================================================================
