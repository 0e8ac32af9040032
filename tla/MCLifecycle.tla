----------------------------- MODULE MCLifecycle -----------------------------
(* Lifecycle for TLC: two modules, so that one may fail beside the other.  *)
EXTENDS Lifecycle
=============================================================================
