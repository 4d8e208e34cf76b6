------------------------------ MODULE MCMetrics ------------------------------
(* An instance for TLC. *)
EXTENDS Metrics

CONSTANTS r1, r2

ASSUME MetricsAssumption
=============================================================================
