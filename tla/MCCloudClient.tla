---------------------------- MODULE MCCloudClient ----------------------------
(* Instances of CloudClient for TLC. *)
EXTENDS CloudClient

=============================================================================
