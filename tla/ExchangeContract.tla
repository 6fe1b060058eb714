--------------------------- MODULE ExchangeContract ---------------------------
(***************************************************************************)
(* What the config flow relies on when it pairs a SiLabs appliance, or     *)
(* resumes a stored pairing: the appliance is asked at most twice (once    *)
(* more with a lower message version), a session is used only after the    *)
(* appliance agreed to the last request and then proved that it holds the  *)
(* key, a result is returned only then, and no session key outlives the    *)
(* exchange.                                                               *)
(***************************************************************************)
EXTENDS Naturals

VARIABLES phase,   \* "idle", "asking", "agreed", "proved", "delivered", "over"
          asked,   \* requests the appliance may have got
          holds    \* a session key is held

contractVars == <<phase, asked, holds>>

ContractInit == phase = "idle" /\ asked = 0 /\ holds = FALSE

Ask ==
  /\ phase \in {"idle", "asking"} /\ asked < 2
  /\ phase' = "asking" /\ asked' = asked + 1 /\ UNCHANGED holds
Agree ==
  /\ phase = "asking" /\ asked > 0
  /\ phase' = "agreed" /\ holds' = TRUE /\ UNCHANGED asked
\* A stored pairing needs no request.
Restore ==
  /\ phase = "idle" /\ asked = 0
  /\ phase' = "agreed" /\ holds' = TRUE /\ UNCHANGED asked
Prove == phase = "agreed" /\ holds /\ phase' = "proved" /\ UNCHANGED <<asked, holds>>
Return ==
  /\ phase = "proved" /\ phase' = "delivered"
  /\ holds' = FALSE /\ UNCHANGED asked
GiveUp ==
  /\ phase # "over" /\ phase' = "over"
  /\ holds' = FALSE /\ UNCHANGED asked

ContractNext == Ask \/ Agree \/ Restore \/ Prove \/ Return \/ GiveUp

ContractSpec == ContractInit /\ [][ContractNext]_contractVars

=============================================================================
