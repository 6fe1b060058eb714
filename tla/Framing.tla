-------------------------------- MODULE Framing --------------------------------
(***************************************************************************)
(* The three layouts a message of the hub travels in, byte for byte: the   *)
(* Saber transport frame and envelope (saber_frames.py, checked in         *)
(* bluetooth.py), the SiLabs frame (silabs_frames.py) and the cloud's      *)
(* routed message (weber_cloud_socket.py).                                 *)
(*                                                                         *)
(* A parser returns a record whose field ok says whether it accepts; the   *)
(* refusal's wording is left out.  Sequence numbers stay the bytes they    *)
(* are: nothing below computes with them.                                  *)
(***************************************************************************)
EXTENDS Integers, Sequences

Refused == [ok |-> FALSE]

\* int.to_bytes(width, "little"), int.from_bytes(bytes, "little").
LittleEndian(n, width) ==
  LET rest[i \in 1..width] == IF i = 1 THEN n ELSE rest[i - 1] \div 256
  IN  [i \in 1..width |-> rest[i] % 256]
FromBytes(s, signed) ==
  LET top == IF signed /\ s[Len(s)] >= 128 THEN s[Len(s)] - 256 ELSE s[Len(s)]
      n[i \in 1..Len(s)] == IF i = Len(s) THEN top ELSE s[i] + 256 * n[i + 1]
  IN  n[1]
Unsigned(s) == FromBytes(s, FALSE)
From(s, i) == SubSeq(s, i, Len(s))

-----------------------------------------------------------------------------
(* The Saber frame.                                                        *)

Nibbles == [a \in 0..15 |-> [b \in 0..15 |->
  LET differ(i) == IF (a \div i) % 2 = (b \div i) % 2 THEN 0 ELSE i
  IN  differ(1) + differ(2) + differ(4) + differ(8)]]
Xor(a, b) == 16 * Nibbles[a \div 16][b \div 16] + Nibbles[a % 16][b % 16]

\* The eight turns of crc8 over one byte, by that byte and the sum so far.
CrcTurns == [x \in 0..255 |->
  LET turn[i \in 0..8] ==
        IF i = 0 THEN x
        ELSE LET last == turn[i - 1]
             IN  IF last % 2 = 0 THEN last \div 2 ELSE Xor(last \div 2, 140)
  IN  turn[8]]
CrcStep == [crc \in 0..255 |-> [byte \in 0..255 |-> CrcTurns[Xor(crc, byte)]]]

\* crc8, reflected, polynomial 0x8C.
Crc8(s) ==
  LET sum[i \in 0..Len(s)] == IF i = 0 THEN 0 ELSE CrcStep[sum[i - 1]][s[i]]
  IN  sum[Len(s)]

\* build_appliance_payload, wrap_null_session, build_transport_frame.
AppliancePayload(version, type, body) == <<version, type>> \o body
WrapNullSession(p) ==
  LET header == <<171, 0, 0, 0>> \o LittleEndian(Len(p), 2)
  IN  header \o p \o <<Crc8(Tail(header) \o p), 84>>
TransportFrame(sequence, p) == sequence \o LittleEndian(Len(p), 2) \o p

CommandFrame(sequence, version, type, body) ==
  TransportFrame(sequence, WrapNullSession(AppliancePayload(version, type, body)))

\* parse_appliance_payload, without the interpretation of the body.
ParseAppliancePayload(b) ==
  IF Len(b) < 2 THEN Refused ELSE [ok |-> TRUE, type |-> b[2], body |-> From(b, 3)]

\* parse_envelope.
ParseEnvelope(p) ==
  LET end == 6 + Unsigned(SubSeq(p, 5, 6)) IN
  IF Len(p) < 8 \/ p[1] # 171 \/ Len(p) < end + 2 THEN Refused
  ELSE [ok       |-> TRUE,
        session  |-> SubSeq(p, 2, 4),    \* message count, verification code, message type
        crc_ok   |-> p[end + 1] = Crc8(SubSeq(p, 2, end)),
        tail_ok  |-> p[end + 2] = 84,
        plain    |-> IF SubSeq(p, 2, 4) = <<0, 0, 0>>
                       THEN ParseAppliancePayload(SubSeq(p, 7, end)) ELSE Refused,
        extra    |-> From(p, end + 3)]

\* parse_transport_frame.
ParseTransportFrame(d) ==
  LET length == Unsigned(SubSeq(d, 5, 6))
      whole == Len(d) >= 6 + length IN
  IF Len(d) < 6 THEN Refused
  ELSE [ok |-> TRUE, length_ok |-> whole, extra |-> From(d, 7 + length),
        envelope |-> ParseEnvelope(SubSeq(d, 7, IF whole THEN 6 + length ELSE Len(d)))]

\* decode_hex_frame: a transport frame around an envelope, or a bare envelope.
DecodeFrame(d) ==
  LET t == ParseTransportFrame(d) IN
  IF t.ok /\ t.envelope.ok THEN t
  ELSE [ok |-> FALSE, length_ok |-> FALSE, extra |-> <<>>, envelope |-> ParseEnvelope(d)]

\* Mutant: a frame followed by another is read up to its own end.
PayloadOfFirst(d) ==
  LET f == DecodeFrame(d)
      e == f.envelope IN
  IF f.length_ok /\ e.ok /\ e.crc_ok /\ e.tail_ok /\ e.extra = <<>> /\ e.session[3] = 0
  THEN e.plain ELSE Refused

\* _payload: only a complete plaintext message in an intact frame.
Payload(d) ==
  LET f == DecodeFrame(d)
      e == f.envelope IN
  IF /\ f.length_ok /\ f.extra = <<>> /\ e.ok
     /\ e.crc_ok /\ e.tail_ok /\ e.extra = <<>> /\ e.session[3] = 0
  THEN e.plain ELSE Refused

PairingResponseTypes == {133, 135, 240, 241, 242}

\* _pairing_payload.
PairingPayload(d) ==
  LET p == Payload(d) IN IF p.ok /\ p.type \in PairingResponseTypes THEN p ELSE Refused

\* parse_known_payload of a pairing response: its status byte.
Decision(p) == p.ok /\ p.type = 133 /\ Len(p.body) >= 81
DecisionStatus(p) == p.body[81]

\* Mutant: a decision may be one byte short.
IsPairingResponseFrameShort(d) ==
  /\ Len(d) >= 16 /\ SubSeq(d, 7, 10) = <<171, 0, 0, 0>> /\ d[Len(d)] = 84
  /\ d[14] \in PairingResponseTypes
  /\ LET length == Unsigned(SubSeq(d, 11, 12)) IN
     /\ length >= IF d[14] = 133 THEN 82 ELSE 2
     /\ Len(d) = 14 + length
  /\ Unsigned(SubSeq(d, 5, 6)) = Len(d) - 6
  /\ d[Len(d) - 1] = Crc8(SubSeq(d, 8, Len(d) - 2))

\* _is_pairing_response_frame: the notification callback's own test, made
\* without decoding, of what belongs in the queue of pairing replies.
IsPairingResponseFrame(d) ==
  /\ Len(d) >= 16 /\ SubSeq(d, 7, 10) = <<171, 0, 0, 0>> /\ d[Len(d)] = 84
  /\ d[14] \in PairingResponseTypes
  /\ LET length == Unsigned(SubSeq(d, 11, 12)) IN
     /\ length >= IF d[14] = 133 THEN 83 ELSE 2
     /\ Len(d) = 14 + length
  /\ Unsigned(SubSeq(d, 5, 6)) = Len(d) - 6
  /\ d[Len(d) - 1] = Crc8(SubSeq(d, 8, Len(d) - 2))

-----------------------------------------------------------------------------
(* The SiLabs frame: sequence, length, whether the body is encrypted.      *)

OutgoingFrame(sequence, body, encrypted) ==
  sequence \o LittleEndian(Len(body), 2) \o <<IF encrypted THEN 1 ELSE 0>> \o body

\* parse_incoming_frame.
ParseIncomingFrame(d) ==
  IF Len(d) < 7 \/ d[7] \notin {0, 1} \/ Len(d) # 7 + Unsigned(SubSeq(d, 5, 6)) THEN Refused
  ELSE [ok |-> TRUE, encrypted |-> d[7] = 1, body |-> From(d, 8)]

-----------------------------------------------------------------------------
(* The cloud's routed message: routing, transport and appliance headers.   *)

\* encode_routed_message.
RoutedMessage(source, target, sequence, version, type, body) ==
  LET appliance == AppliancePayload(version, type, body) IN
  <<1, 2>> \o source \o <<2>> \o target
    \o sequence \o LittleEndian(Len(appliance), 2) \o appliance

\* decode_routed_message.
DecodeRoutedMessage(d) ==
  IF \/ Len(d) < 43 \/ d[1] # 1 \/ d[2] \notin {1, 2} \/ d[19] \notin {1, 2}
     \/ Len(d) - 41 # Unsigned(SubSeq(d, 40, 41))
  THEN Refused
  ELSE [ok |-> TRUE, source |-> SubSeq(d, 3, 18), target |-> SubSeq(d, 20, 35),
        type |-> d[43], body |-> From(d, 44)]

=============================================================================
