----------------------------- MODULE MCTelemetry -----------------------------
(* Instance of Entities, and with it of Telemetry, for TLC. *)
EXTENDS Entities

=============================================================================
