---------------------------- MODULE TransportFamily ----------------------------
(***************************************************************************)
(* Which of Weber's Bluetooth families a controller belongs to, and        *)
(* whether that is known well enough to pair (transport_family.py,         *)
(* protocol_adapters.py).                                                  *)
(*                                                                         *)
(* An advertisement is what its two possible company payloads and its name *)
(* say: a June payload by its length, model and whether its text decodes,  *)
(* a SiLabs payload by its length and schema, a name by the product it     *)
(* begins with.  The model and SKU of the evidence, which are only         *)
(* displayed, are left out.                                                *)
(***************************************************************************)
EXTENDS Integers

Missing == [length |-> -1]
June(length, model, text) == [length |-> length, model |-> model, text |-> text]
Silabs(length, schema) == [length |-> length, schema |-> schema]

LegacyModels == {1, 2, 5, 6, 7, 8, 16, 17}
PortableModels == {16, 17}
ProductNames == {"smokefire", "connect hub", "weber connect", "weber hub"}

\* _is_weber: a company payload, or a name of Weber's.
IsWeber(ad) ==
  ad.june # Missing \/ ad.silabs # Missing \/ ad.name \in ProductNames \cup {"weber grill"}

Evidence(family, qualification) == [family |-> family, qualification |-> qualification]
Unusable == Evidence("unknown", "invalid_advertisement")
Unrecognized == Evidence("unknown", "unknown_controller")

\* _name_fallback.
NameFallback(name) == IF name \in ProductNames THEN Evidence("saber", "name_only") ELSE Unrecognized

FromJune(p) ==
  IF p.length \in {0, 2} \/ (p.length >= 3 /\ ~p.text) THEN Unusable
  ELSE IF p.model \in PortableModels THEN Evidence("portable", "needs_gatt")
  ELSE IF p.model \in LegacyModels THEN Evidence("saber", "pairing_ready")
  ELSE Unrecognized

FromSilabs(p) ==
  IF p.length < 13 \/ p.schema > 3 THEN Unusable ELSE Evidence("silabs_unresolved", "needs_gatt")

\* classify_advertisement.
ClassifyAdvertisement(ad) ==
  IF ad.june # Missing /\ ad.silabs # Missing THEN Unusable
  ELSE IF ad.june # Missing THEN FromJune(ad.june)
  ELSE IF ad.silabs # Missing THEN FromSilabs(ad.silabs)
  ELSE NameFallback(ad.name)

-----------------------------------------------------------------------------
(* The GATT table, as the properties of each UUID it lists.                *)

Uuids == {"appliance", "command", "response", "portable", "temperature"}
Heard == {"read", "notify", "indicate"}

IsAppliance(services) ==
  /\ {"appliance", "command", "response"} \subseteq DOMAIN services
  /\ "write" \in services["command"] /\ services["response"] \cap Heard # {}
IsPortable(services) ==
  /\ {"portable", "temperature"} \subseteq DOMAIN services
  /\ services["temperature"] \cap Heard # {}

\* Mutant: an appliance's services settle it, whatever was advertised.
ClassifyServiceShapesTrusting(evidence, services) ==
  IF evidence.qualification # "needs_gatt" THEN evidence
  ELSE IF IsAppliance(services) THEN Evidence("silabs_appliance", "needs_secure_session")
  ELSE IF IsPortable(services) THEN Evidence("portable", "needs_authentication")
  ELSE Unrecognized

\* classify_service_shapes: both shapes, neither, or an appliance's services
\* on what advertised itself as a probe, settle nothing.
ClassifyServiceShapes(evidence, services) ==
  IF evidence.qualification # "needs_gatt" THEN evidence
  ELSE IF \/ IsAppliance(services) = IsPortable(services)
          \/ evidence.family = "portable" /\ IsAppliance(services)
    THEN Unrecognized
  ELSE IF IsAppliance(services) THEN Evidence("silabs_appliance", "needs_secure_session")
  ELSE Evidence("portable", "needs_authentication")

\* require_pairing_support of the adapter_for this evidence.
PairingSupported(evidence) ==
  \/ evidence.family = "saber"
  \/ evidence.family = "silabs_appliance" /\ evidence.qualification = "needs_secure_session"

=============================================================================
