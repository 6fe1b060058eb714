---------------------------------- MODULE Wire ----------------------------------
(***************************************************************************)
(* A message on its way from a hub to Home Assistant.  Setup recognises a  *)
(* controller, settles its family and reads its replies over Bluetooth;    *)
(* the cloud session reads its status from a relay.  Both end in the same  *)
(* scan of records, and every link can damage or cut what it carries.      *)
(*                                                                         *)
(* One step per stage of the code that handles one message.  The hub, the  *)
(* air and the relay are external: what the hub means by a message is kept *)
(* in sent and said, to compare with what is shown of it.                  *)
(***************************************************************************)
EXTENDS Tlv, TransportFamily, Status, FiniteSets

CONSTANTS Reports,      \* appliance statuses the hub may send, as lists of items
          Statuses,     \* cook statuses
          MaxSaid       \* how many items relayed are enough

\* Signed numbers, by their highest byte.
Int16 == {n \in Int : n \div 256 \in -128..127}
Int32 == {n \in Int : (n \div 256) \div 256 \in Int16}
ReportItems ==
  [key : {"battery", "device", "fuel_level", "fuel_percent"}, value : Byte]
    \cup [key : {"charging"}, value : BOOLEAN] \cup [key : {"wifi"}, value : Int32]
StatusItems ==
  [key : {"target", "display", "actual", "whole_degrees"}, value : Int16]
    \cup [key : {"mode"}, value : Byte]
    \cup [key : {"probe", "timer", "burner"},
          value : [slot : Byte, state : Byte, temp : Int16, kept : Nat]]

\* The hub's values fit their fields, and a row of three records is read.
ASSUME WireAssumption ==
  /\ Reports \subseteq Seq(ReportItems) /\ Statuses \subseteq Seq(StatusItems)
  /\ MaxSaid \in Nat /\ MaxRecords >= 3

VARIABLES
  stage,        \* idle, seen, refused, linked, arrived, handled or scanning
  kind,         \* what the controller is
  evidence,     \* self._transport_evidence; the family "cloud" for the session
  sent,         \* the message under way, as the hub meant it
  frame,        \* its bytes, as they arrive
  got,          \* what the receiver accepted of it
  nest,         \* a cook status: its records, which nested one is read, the rows read
  cache,        \* the session's appliance status
  said,         \* what the appliance statuses relayed so far say
  learned,      \* the capabilities just read, until the next message is awaited
  shown         \* the state just published, until the next message is awaited

linkVars == <<kind, evidence>>
sessionVars == <<cache, said, learned, shown>>
vars == <<stage, linkVars, sent, frame, got, nest, sessionVars, tlvVars>>

Nobody == "nobody"
NoMessage == [type |-> 0, items |-> <<>>, body |-> <<>>]
NoNest == [outer |-> <<>>, at |-> 0, rows |-> <<>>]
Nothing == ApplianceStatus(<<>>)

Init ==
  /\ \/ stage = "idle" /\ kind = Nobody /\ evidence = Unrecognized
     \/ stage = "linked" /\ kind = "hub" /\ evidence = Evidence("cloud", "authenticated")
  /\ sent = NoMessage /\ frame = <<>> /\ got = Refused /\ nest = NoNest
  /\ cache = Nothing /\ said = {} /\ learned = <<>> /\ shown = <<>> /\ Begin

-----------------------------------------------------------------------------
(* Controllers and their advertisements.                                   *)

JuneOf(k) ==
  LET model == CASE k = "saber" -> 2 [] k = "probe" -> 16 [] OTHER -> 99
  IN  {June(11, model, TRUE), June(1, model, TRUE), June(11, model, FALSE),
       June(2, 0, FALSE), June(0, 0, FALSE)}
SilabsOf == {Silabs(13, 3), Silabs(13, 4), Silabs(12, 3)}

\* A payload of the controller's company, whole or damaged or not received;
\* one of another company beside it when two advertisements are merged.
Advertisements(k) ==
  LET names == ProductNames \cup {"weber grill", "other"}
      own == IF k = "silabs" THEN [june : {Missing}, silabs : SilabsOf, name : names]
             ELSE IF k = "wireless probe"
               THEN [june : {Missing}, silabs : {Silabs(13, 3)}, name : names]
             ELSE [june : JuneOf(k), silabs : {Missing}, name : names]
      merged == [june : {June(11, 2, TRUE)}, silabs : {Silabs(13, 3)}, name : names]
      silent == [june : {Missing}, silabs : {Missing}, name : names]
  IN  own \cup merged \cup silent

\* A service table with everything in it, and what of it may be read.
Table(heard) ==
  [u \in Uuids |->
     CASE u = "command" -> {"write"} [] u = "response" -> heard
       [] u = "temperature" -> {"read"} [] OTHER -> {}]
Parts(names, heard) == {[u \in U |-> Table(heard)[u]] : U \in SUBSET names}

\* The services read: some or all of them, a probe's perhaps with more.
Tables(k) ==
  CASE k = "silabs" ->
         UNION {Parts({"appliance", "command", "response"}, h) :
                  h \in {{"read"}, {"notify"}, {"write"}}}
    [] k \in {"probe", "wireless probe"} ->
         Parts({"portable", "temperature"}, {"read"}) \cup {Table({"read"})}
    [] OTHER -> {}

\* async_step_bluetooth or async_step_user, for a Weber advertisement.
Discover ==
  /\ stage = "idle"
  /\ \E k \in {"saber", "silabs", "probe", "wireless probe", "stranger"} :
       \E ad \in Advertisements(k) :
         /\ IsWeber(ad)
         /\ kind' = k /\ evidence' = ClassifyAdvertisement(ad)
  /\ stage' = "seen"
  /\ UNCHANGED <<sent, frame, got, nest, sessionVars, tlvVars>>

\* async_qualify_gatt: the services are read, or cannot be.
QualifyGatt ==
  /\ stage = "seen" /\ evidence.qualification = "needs_gatt"
  /\ \/ /\ \E table \in Tables(kind) : evidence' = ClassifyServiceShapes(evidence, table)
        /\ stage' = "seen"
     \/ stage' = "refused" /\ UNCHANGED evidence
  /\ UNCHANGED <<kind, sent, frame, got, nest, sessionVars, tlvVars>>

\* async_step_confirm: require_pairing_support of the adapter.
RequireSupport ==
  /\ stage = "seen" /\ evidence.qualification # "needs_gatt"
  /\ stage' = IF PairingSupported(evidence) THEN "linked" ELSE "refused"
  /\ UNCHANGED <<linkVars, sent, frame, got, nest, sessionVars, tlvVars>>

\* choose_hub, from protocol_qualification or after a failed pairing.
ChooseHub ==
  /\ stage = "refused" \/ (stage = "linked" /\ kind # "hub")
  /\ stage' = "idle" /\ kind' = Nobody /\ evidence' = Unrecognized
  /\ UNCHANGED <<sent, frame, got, nest, sessionVars, tlvVars>>

-----------------------------------------------------------------------------
(* What a hub says, in its records.                                        *)

Record(t, v) == [tag |-> t, value |-> v]

\* An item is what it is about and what the hub means.
AnItem(key, value) == [key |-> key, value |-> value]

RowTag == [probe |-> 4, timer |-> 6, burner |-> 7]
RowRecords(key, v) ==
  CASE key = "probe" -> <<Record(1, <<v.slot>>), Record(12, <<v.state>>),
                          Record(10, LittleEndian(v.temp, 2))>>
    [] key = "timer" -> <<Record(1, <<v.slot>>), Record(12, <<v.state>>)>>
    [] key = "burner" -> <<Record(1, <<v.slot>>), Record(3, <<v.state>>)>>

\* A nested row may reach the hub's own limit and lose its end.
RowBytes(key, v) ==
  LET b == Bytes(RowRecords(key, v)) IN SubSeq(b, 1, IF v.kept < Len(b) THEN v.kept ELSE Len(b))

\* Each item is one record.
AsRecord(item) ==
  LET k == item.key
      v == item.value IN
  CASE k = "battery" -> Record(1, <<v>>)
    [] k = "charging" -> Record(2, <<IF v THEN 1 ELSE 0>>)
    [] k = "wifi" -> Record(10, LittleEndian(v, 4))
    [] k = "device" -> Record(17, <<v>>)
    [] k = "fuel_level" -> Record(20, <<v>>)
    [] k = "fuel_percent" -> Record(27, <<v>>)
    [] k = "target" -> Record(1, LittleEndian(v, 2))
    [] k = "display" -> Record(2, LittleEndian(v, 2))
    [] k = "actual" -> Record(13, LittleEndian(v, 2))
    [] k = "whole_degrees" -> Record(15, LittleEndian(v, 2))
    [] k = "mode" -> Record(3, <<v>>)
    [] k \in DOMAIN RowTag -> Record(RowTag[k], RowBytes(k, v))
    [] k = "capability" -> Record(v.tag, LittleEndian(v.value, CapabilityWidth[v.tag]))
Body(items) == Bytes([i \in DOMAIN items |-> AsRecord(items[i])])

Message(type, items, body) == [type |-> type, items |-> items, body |-> body]

\* A message of the items for which there was room, the last of them whole
\* or cut.
Cuts(type, items) ==
  LET size(k) == Len(Body(SubSeq(items, 1, k)))
      first(k) == IF k = 0 THEN 0 ELSE size(k - 1) + 1 IN
  UNION {{Message(type, SubSeq(items, 1, k), SubSeq(Body(items), 1, n)) : n \in first(k)..size(k)} :
         k \in 0..Len(items)}

PairingBody(n, status) == [i \in 1..n |-> IF i = 81 THEN status ELSE (7 * i) % 256]
PairingReplies ==
  {Message(133, <<>>, PairingBody(n, s)) : n \in {80, 81, 82}, s \in {0, 9}}
    \cup {Message(135, <<>>, b) : b \in {Laid(Record(0, <<0>>)), Laid(Record(0, <<0>>)) \o <<1>>}}
    \cup {Message(241, <<>>, <<>>), Message(131, <<>>, Laid(Record(27, <<50>>)))}
Capability(t, v) == AnItem("capability", [tag |-> t, value |-> v])

\* Capabilities: as meant, repeated, cut, of the wrong width, of no known tag.
CapabilityReplies ==
  Cuts(136, <<Capability(1, 4), Capability(8, 3)>>)
    \cup Cuts(136, <<Capability(1, 4), Capability(1, 2)>>)
    \cup {Message(136, <<>>, Laid(Record(1, <<4, 0>>))), Message(136, <<>>, Laid(Record(200, <<1>>)))}

\* Where a frame can be cut, run on, or run into another.
Broken(f) ==
  {SubSeq(f, 1, n) : n \in 0..Len(f)} \cup {f \o <<b>> : b \in {0, 84}} \cup {f \o f}
\* Noise: an end bit of one byte, one whole byte, one byte lost.
Altered(b) == {Xor(b, 1), Xor(b, 128), 255 - b}
Noisy(f) ==
  (UNION {{[f EXCEPT ![i] = b] : b \in Altered(f[i])} : i \in DOMAIN f})
    \cup {SubSeq(f, 1, i - 1) \o SubSeq(f, i + 1, Len(f)) : i \in DOMAIN f}

Hub == [i \in 1..16 |-> 2]
Companion == [i \in 1..16 |-> 3]
Other == [i \in 1..16 |-> 4]
Sequence == <<1, 0, 0, 0>>

WholeSaber(m) == CommandFrame(Sequence, 11, m.type, m.body)
WholeSilabs(m) == OutgoingFrame(Sequence, AppliancePayload(11, m.type, m.body), m.type = 136)
WholeRouted(m) == RoutedMessage(Hub, Companion, Sequence, 11, m.type, m.body)

SaberFrames(m) ==
  LET f == WholeSaber(m) IN Broken(f) \cup Noisy(f) \cup {From(f, 7)}
SilabsFrames(m) ==
  LET f == WholeSilabs(m)
  IN  Broken(f) \cup IF evidence.family = "saber" THEN Noisy(f) ELSE {}
RoutedFrames(m) ==
  LET f == WholeRouted(m)
  IN  {f, [f EXCEPT ![1] = 2], [f EXCEPT ![2] = 0], SubSeq(f, 1, Len(f) - 1), f \o <<0>>,
       RoutedMessage(Other, Companion, Sequence, 11, m.type, m.body),
       RoutedMessage(Hub, Other, Sequence, 11, m.type, m.body)}

\* What a list of items says: not a fuel value it gives twice.
Plain(items) ==
  {items[i] : i \in {j \in DOMAIN items :
     items[j].key \in {"fuel_level", "fuel_percent"}
       => \A k \in DOMAIN items : items[k].key = items[j].key => k = j}}

\* A hub replies, in its own protocol, or the relay delivers a status.
Arrive ==
  /\ stage = "linked"
  /\ \/ /\ kind = "saber"
        /\ \E m \in PairingReplies : sent' = m /\ frame' \in SaberFrames(m)
     \/ /\ kind = "silabs"
        /\ \E m \in PairingReplies \cup CapabilityReplies :
             sent' = m /\ frame' \in SilabsFrames(m)
     \/ /\ kind = "hub"
        /\ \E m \in (UNION {Cuts(131, items) : items \in Reports})
                      \cup (UNION {Cuts(128, items) : items \in Statuses})
                      \cup {Message(135, <<>>, <<>>)} :
             /\ m.type = 131 => Cardinality(said) < MaxSaid
             /\ sent' = m /\ frame' \in RoutedFrames(m)
  /\ said' = IF sent'.type = 131 THEN said \cup Plain(sent'.items) ELSE said
  /\ stage' = "arrived"
  /\ UNCHANGED <<linkVars, got, nest, cache, learned, shown, tlvVars>>

-----------------------------------------------------------------------------
(* The receiver.                                                           *)

\* _pairing_payload; the SiLabs frame with its message header, of the types
\* awaited in plaintext and under encryption; or decode_routed_message and
\* what _async_request_status_once checks of it.
Accepted ==
  CASE evidence.family = "saber" -> PairingPayload(frame)
    [] evidence.family = "silabs_appliance" ->
         LET f == ParseIncomingFrame(frame)
             m == IF f.ok THEN ParseAppliancePayload(f.body) ELSE Refused
         IN  IF m.ok /\ m.type \in (IF f.encrypted THEN {136} ELSE {133, 135}) THEN m ELSE Refused
    [] evidence.family = "cloud" ->
         LET r == DecodeRoutedMessage(frame)
         IN  IF r.ok /\ r.source = Hub /\ r.target = Companion /\ r.type # 135
               THEN [ok |-> TRUE, type |-> r.type, body |-> r.body] ELSE Refused

\* Errors, capabilities and statuses are scanned for records.
Receive ==
  /\ stage = "arrived"
  /\ got' = Accepted /\ frame' = <<>>
  /\ IF got'.ok /\ got'.type \in {128, 131, 135, 136}
       THEN Start(got'.body) /\ stage' = "scanning"
       ELSE stage' = "handled" /\ UNCHANGED tlvVars
  /\ UNCHANGED <<linkVars, sent, nest, sessionVars>>

Done(next) == stage' = next /\ sent' = NoMessage /\ frame' = <<>> /\ got' = Refused

\* A message is dealt with, or was dropped: the next one.
ListenOn ==
  /\ stage = "handled" /\ Done("linked")
  /\ learned' = <<>> /\ shown' = <<>>
  /\ UNCHANGED <<linkVars, nest, cache, said, tlvVars>>

ScanStep ==
  /\ stage = "scanning" /\ Scan
  /\ UNCHANGED <<stage, linkVars, sent, frame, got, nest, sessionVars>>

Read(type) == stage = "scanning" /\ ~scanning /\ got.type = type
Dismiss ==
  /\ Done("handled")
  /\ payload' = <<>> /\ index' = 0 /\ found' = <<>> /\ tail' = <<>> /\ scanning' = FALSE

\* An error, over Bluetooth.
ReadError ==
  /\ Read(135) /\ Dismiss
  /\ UNCHANGED <<linkVars, nest, sessionVars>>

\* parse_capabilities: all of them, or the pairing fails.
ReadCapabilities ==
  /\ Read(136) /\ Dismiss
  /\ LET c == Capabilities(found, tail)
     IN  learned' = IF c.ok THEN <<[message |-> sent, value |-> c.value]>> ELSE learned
  /\ UNCHANGED <<linkVars, nest, cache, said, shown>>

\* An appliance status: refused if malformed, otherwise merged.
ReadAppliance ==
  /\ Read(131) /\ Dismiss
  /\ cache' = IF tail = <<>> THEN Merged(cache, ApplianceStatus(found)) ELSE cache
  /\ UNCHANGED <<linkVars, nest, said, learned, shown>>

\* A cook status is scanned, then each record nested in it ...
Outer == IF nest.at = 0 THEN found ELSE nest.outer
Rows == IF nest.at = 0 THEN <<>>
        ELSE [i \in DOMAIN nest.rows \cup {nest.at} |->
                IF i = nest.at
                  THEN [tag |-> nest.outer[i].tag, row |-> RowOf(nest.outer[i].tag, found)]
                  ELSE nest.rows[i]]
Left == {i \in Nested(Outer) : i > nest.at}

\* The next of them, in the order of the message: the code takes each tag in
\* turn, and no row depends on another.
ReadNested ==
  /\ Read(128)
  /\ \E i \in Left :
       /\ \A j \in Left : i <= j
       /\ nest' = [outer |-> Outer, at |-> i, rows |-> Rows]
       /\ Start(Outer[i].value)
  /\ UNCHANGED <<stage, linkVars, sent, frame, got, sessionVars>>

\* ... and published.
Publish ==
  /\ Read(128) /\ Left = {} /\ Dismiss
  /\ nest' = NoNest
  /\ shown' = <<[message |-> sent, said |-> said,
                 state |-> Normalize(CookStatus(Outer, Rows), cache)]>>
  /\ UNCHANGED <<linkVars, cache, said, learned>>

Next ==
  \/ Discover \/ QualifyGatt \/ RequireSupport \/ ChooseHub
  \/ Arrive \/ Receive \/ ListenOn \/ ScanStep
  \/ ReadError \/ ReadCapabilities \/ ReadAppliance \/ ReadNested \/ Publish

Spec == Init /\ [][Next]_vars

-----------------------------------------------------------------------------
(* Properties.                                                             *)

Protocol(k) == CASE k = "saber" -> "saber" [] k = "silabs" -> "silabs_appliance" [] OTHER -> "none"

\* "Unknown or conflicting evidence still stops before credentials or
\* commands": a controller is paired with its own family's protocol, on
\* whatever of its advertisement and its services came through.  Only a
\* product name alone, "a provisional Saber candidate", may be wrong.
FamilyIsReal ==
  stage = "linked" /\ kind # "hub" =>
    evidence.family = Protocol(kind) \/ evidence.qualification = "name_only"

\* "Never parse a plausible body out of a truncated, corrupted, or
\* concatenated frame": what is accepted is one frame, what it says is what
\* was sent, and by a hub whose protocol it is read in.
AcceptedAsSent ==
  stage = "arrived" => LET a == Accepted IN
    a.ok => /\ a.type = sent.type /\ a.body = sent.body
            /\ \/ kind = "saber" /\ evidence.family = "saber" /\ Len(frame) = Len(WholeSaber(sent))
               \/ /\ kind = "silabs" /\ evidence.family = "silabs_appliance"
                  /\ frame = WholeSilabs(sent)
               \/ kind = "hub" /\ frame = WholeRouted(sent)

\* The test that keeps a reply in the reserved queue and the decoder that
\* later reads it agree on every frame: no decision is left to be crowded
\* out by telemetry, and nothing but a reply takes its place.
RouterAgrees ==
  stage = "arrived" /\ evidence.family = "saber" =>
    LET p == PairingPayload(frame) IN
    IsPairingResponseFrame(frame) <=> p.ok /\ (p.type = 133 => Decision(p))

\* Capabilities, which select an entry's probes, are kept only from a whole
\* message, as the hub meant them, and none it gave twice.
CapabilitiesUnambiguous ==
  learned # <<>> =>
    LET m == learned[1].message
        c == learned[1].value
        meant(t) == {i.value.value : i \in {j \in S!ToSet(m.items) : j.value.tag = t}} IN
    /\ WellFormed(m.body)
    /\ \A t \in DOMAIN c : meant(t) = {c[t]}

IsWhole(m) ==
  /\ m.body = Body(m.items) /\ Len(m.items) <= MaxRecords
  /\ \A i \in DOMAIN m.items :
       m.items[i].key \in DOMAIN RowTag
         => m.items[i].value.kept >= Len(Bytes(RowRecords(m.items[i].key, m.items[i].value)))

\* The rows of a kind the hub sent with their number, of each number there is
\* room for the first.
SentRows(m, key) ==
  LET rows == {i \in DOMAIN m.items : m.items[i].key = key /\ m.items[i].value.kept >= 3}
      slot(i) == m.items[i].value.slot
  IN  {m.items[i].value : i \in {j \in rows :
         slot(j) < MaxSlots /\ \A k \in rows : k < j => slot(k) # slot(j)}}

\* The codes that have a name.
Codes == [mode |-> 0..10, device |-> 0..3, fuel_level |-> 0..5, row |-> 0..10]
Code(table, c) == IF c \in Codes[table] THEN c ELSE Unlisted

\* A value shown: none, or what one of the items gives.
Given(items, key, v) ==
  v = <<>> \/ \E i \in items : /\ i.key = key
                            /\ v = Opt(IF key \in DOMAIN Codes THEN Code(key, i.value) ELSE i.value)

\* A row shown for a row sent: its number, and its state or none.
Shows(row, v) ==
  row.number = Opt(v.slot + 1) /\ row.state \in {<<>>, Opt(Unlisted), Opt(v.state)}

\* Every value shown is one the hub gave for that very reading, in this cook
\* status or in an appliance status before it, however it was cut.
ReadingsAreSent ==
  shown # <<>> =>
    LET s == shown[1].state
        m == shown[1].message
        items == S!ToSet(m.items) IN
    /\ \A k \in DOMAIN s.hub : Given(shown[1].said, k, s.hub[k])
    /\ Given(items, "target", s.target) /\ Given(items, "mode", s.mode)
    /\ \/ Given(items, "actual", s.grill) \/ Given(items, "display", s.grill)
       \/ \E i \in items : i.key = "whole_degrees" /\ s.grill = Opt(10 * i.value)
    /\ \A r \in s.probes : \E v \in SentRows(m, "probe") : Shows(r, v) /\ r.temp \in {<<>>, Opt(v.temp)}
    /\ \A r \in s.timers : \E v \in SentRows(m, "timer") : Shows(r, v)
    /\ \A r \in s.burners : \E v \in SentRows(m, "burner") : Shows(r, v)

\* What the hub says of itself in a cook status it sent whole: a session or
\* a burner that runs.
Runs(m) ==
  \/ \E key \in {"probe", "timer"} : \E v \in SentRows(m, key) : v.state \in {3, 4, 5, 6, 9, 10}
  \/ \E v \in SentRows(m, "burner") : v.state \in {2, 3}

\* What the items say last of a reading.
LastGiven(items, key) ==
  LET I == {i \in DOMAIN items : items[i].key = key}
  IN  IF I = {} THEN <<>> ELSE Opt(items[Latest(I)].value)

\* "No reading" is never shown as a temperature, a grill never as cooking
\* unless it said so; and of a whole status neither its cooking, nor the grill's
\* temperature, nor a row of its probes is lost.
NothingLost ==
  shown # <<>> =>
    LET s == shown[1].state
        m == shown[1].message
        holds == AnItem("device", 1) \in shown[1].said
                 /\ \E i \in S!ToSet(m.items) : i.key = "mode" /\ i.value \in 1..10
        actual == LastGiven(m.items, "actual") IN
    /\ s.cooking = Opt(TRUE) => Runs(m) \/ holds
    /\ Opt(NoReading) \notin {s.grill, s.target} \cup {r.temp : r \in s.probes}
    /\ IsWhole(m) =>
         /\ Runs(m) => s.cooking = Opt(TRUE)
         /\ actual \notin {<<>>, Opt(NoReading)} => s.grill = actual
         /\ \A v \in SentRows(m, "probe") :
              \E r \in s.probes : /\ r.number = Opt(v.slot + 1) /\ r.state = Opt(Code("row", v.state))
                                 /\ r.temp = IF v.temp = NoReading THEN <<>> ELSE Opt(v.temp)

=============================================================================
