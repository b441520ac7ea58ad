--------------------------- MODULE MCHealthMonitor ---------------------------
(* Instances of HealthMonitor for TLC. *)
EXTENDS HealthMonitor

CONSTANTS h1, h2

Callers == Handler \union {watchdog}
=============================================================================
