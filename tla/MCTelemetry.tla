----------------------------- MODULE MCTelemetry -----------------------------
(* Instances of Telemetry for TLC. *)
EXTENDS Telemetry, TLC

CONSTANTS c1, c2, m1, t1, t2

MCClients == {c1, c2}
MCRegistry == {m1}
MCTasks == {t1, t2}
=============================================================================
