----------------------------- MODULE MCTelemetry -----------------------------
(* Batches of two readings, a queue of two records flushed two at a time,   *)
(* pages of one record.                                                     *)
EXTENDS Telemetry

=============================================================================
