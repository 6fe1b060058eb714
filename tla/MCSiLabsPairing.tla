---------------------------- MODULE MCSiLabsPairing ----------------------------
(* Instances of SiLabsPairing for TLC. *)
EXTENDS SiLabsPairing

=============================================================================
