---------------------------- MODULE MCConfigFlow ----------------------------
(* Instances of ConfigFlow for TLC. *)
EXTENDS ConfigFlow

=============================================================================
