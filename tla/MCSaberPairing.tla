---------------------------- MODULE MCSaberPairing ----------------------------
(* Instances of SaberPairing for TLC. *)
EXTENDS SaberPairing

=============================================================================
