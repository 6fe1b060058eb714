------------------------------- MODULE WireProofs -------------------------------
(***************************************************************************)
(* Wire keeps what it promises of the links, the frames, the scans and the *)
(* readings, for every report and status a hub may send and every limit on *)
(* the records that leaves room for a row.                                 *)
(*                                                                         *)
(* Five invariants carry the proofs.  LinkInv says what can be made of a   *)
(* controller, whatever part of it comes through; FrameInv that what       *)
(* arrives is a frame of the message sent, whole or broken; ScanInv that   *)
(* what is scanned is that message or a record nested in it; SaidInv that  *)
(* the session's cache keeps what the reports relayed say; ShownInv that   *)
(* what is published was told in them.  The rest is what CodecProofs       *)
(* proves of frames and of records: an intact frame is the frame sent, and *)
(* a cut message reads as the records it still holds.                      *)
(***************************************************************************)
EXTENDS Wire, CodecProofs

-----------------------------------------------------------------------------
(* The controllers and their links.                                        *)

Controllers == {"saber", "silabs", "probe", "wireless probe", "stranger"}
Reading == {"linked", "arrived", "scanning", "handled"}
Provisional == {Unusable, Unrecognized, Evidence("saber", "name_only")}

\* What can be made of a controller, whatever part of it comes through.
Judgements(k) ==
  Provisional \cup
  CASE k = "saber" -> {Evidence("saber", "pairing_ready")}
    [] k = "silabs" -> {Evidence("silabs_unresolved", "needs_gatt"),
                        Evidence("silabs_appliance", "needs_secure_session")}
    [] k = "probe" -> {Evidence("portable", "needs_gatt"),
                       Evidence("portable", "needs_authentication")}
    [] k = "wireless probe" -> {Evidence("silabs_unresolved", "needs_gatt"),
                                Evidence("portable", "needs_authentication")}
    [] OTHER -> {}

\* A link is to a controller that can be paired with, or to the relay.
LinkInv ==
  /\ stage \in Reading \cup {"idle", "seen", "refused"}
  /\ stage = "seen" => kind \in Controllers /\ evidence \in Judgements(kind)
  /\ stage \in Reading =>
       \/ kind = "hub" /\ evidence = Evidence("cloud", "authenticated")
       \/ kind \in Controllers /\ evidence \in Judgements(kind) /\ PairingSupported(evidence)

\* What a June payload comes to.
LEMMA JuneJudged ==
  ASSUME NEW l, NEW m, NEW t
  PROVE  /\ June(l, m, t) # Missing
         /\ FromJune(June(l, m, t)) \in
              {Unusable, IF m \in PortableModels THEN Evidence("portable", "needs_gatt")
                         ELSE IF m \in LegacyModels THEN Evidence("saber", "pairing_ready")
                         ELSE Unrecognized}
<1>1. DOMAIN Missing = {"length"} /\ "text" \in DOMAIN June(l, m, t)
  BY DEF Missing, June
<1>2. June(l, m, t) # Missing
  BY <1>1
<1>3. June(l, m, t).model = m
  BY DEF June
<1> QED
  BY <1>2, <1>3 DEF FromJune

\* What a Silicon Labs payload comes to.
LEMMA SilabsJudged ==
  ASSUME NEW l, NEW c
  PROVE  /\ Silabs(l, c) # Missing
         /\ FromSilabs(Silabs(l, c)) \in {Unusable, Evidence("silabs_unresolved", "needs_gatt")}
<1>1. DOMAIN Missing = {"length"} /\ "schema" \in DOMAIN Silabs(l, c)
  BY DEF Missing, Silabs
<1> QED
  BY <1>1 DEF FromSilabs

\* The models a June controller gives, and what they come to.
LEMMA OwnJune ==
  ASSUME NEW k \in {"saber", "probe", "stranger"}, NEW q \in JuneOf(k)
  PROVE  q # Missing /\ FromJune(q) \in Judgements(k)
<1> DEFINE m == IF k = "saber" THEN 2 ELSE IF k = "probe" THEN 16 ELSE 99
<1>1. m = (CASE k = "saber" -> 2 [] k = "probe" -> 16 [] OTHER -> 99)
  OBVIOUS
<1> HIDE DEF m
<1>2. \/ q = June(11, m, TRUE) \/ q = June(1, m, TRUE) \/ q = June(11, m, FALSE)
      \/ q = June(2, 0, FALSE) \/ q = June(0, 0, FALSE)
  BY <1>1 DEF JuneOf
<1>3. \E l, c, t : (c = m \/ c = 0) /\ q = June(l, c, t)
  BY <1>2, Zenon
<1> DEFINE of(c) == IF c \in PortableModels THEN Evidence("portable", "needs_gatt")
                    ELSE IF c \in LegacyModels THEN Evidence("saber", "pairing_ready")
                    ELSE Unrecognized
<1>4. PICK l, c, t : (c = m \/ c = 0) /\ q = June(l, c, t)
  BY <1>3
<1>5. q # Missing /\ FromJune(q) \in {Unusable, of(c)}
  BY <1>4, JuneJudged
<1>6. of(0) = Unrecognized
  BY DEF PortableModels, LegacyModels
<1>7. CASE k = "saber"
  <2>1. m = 2
    BY <1>7 DEF m
  <2>2. of(m) = Evidence("saber", "pairing_ready")
    BY <2>1 DEF PortableModels, LegacyModels
  <2> QED
    BY <1>4, <1>5, <1>6, <1>7, <2>2 DEF Judgements, Provisional
<1>8. CASE k = "probe"
  <2>1. m = 16
    BY <1>8 DEF m
  <2>2. of(m) = Evidence("portable", "needs_gatt")
    BY <2>1 DEF PortableModels
  <2> QED
    BY <1>4, <1>5, <1>6, <1>8, <2>2 DEF Judgements, Provisional
<1>9. CASE k = "stranger"
  <2>1. m = 99
    BY <1>9 DEF m
  <2>2. of(m) = Unrecognized
    BY <2>1 DEF PortableModels, LegacyModels
  <2> QED
    BY <1>4, <1>5, <1>6, <1>9, <2>2 DEF Judgements, Provisional
<1> QED
  BY <1>7, <1>8, <1>9

\* What classify_advertisement makes of a controller is a judgement of it.
LEMMA AdvertisementJudged ==
  ASSUME NEW k \in Controllers, NEW ad \in Advertisements(k)
  PROVE  ClassifyAdvertisement(ad) \in Judgements(k)
<1>1. Provisional \subseteq Judgements(k)
  BY DEF Judgements
<1>2. \/ ad.june = Missing /\ ad.silabs = Missing
      \/ ad.june = June(11, 2, TRUE) /\ ad.silabs = Silabs(13, 3)
      \/ k \in {"silabs", "wireless probe"} /\ ad.june = Missing /\ ad.silabs \in SilabsOf
      \/ k \in {"saber", "probe", "stranger"} /\ ad.june \in JuneOf(k) /\ ad.silabs = Missing
  <2>1. Silabs(13, 3) \in SilabsOf
    BY DEF SilabsOf
  <2> QED
    BY <2>1 DEF Advertisements, Controllers
<1>3. CASE ad.june = Missing /\ ad.silabs = Missing
  <2>1. ClassifyAdvertisement(ad) \in {Evidence("saber", "name_only"), Unrecognized}
    BY <1>3 DEF ClassifyAdvertisement, NameFallback
  <2> QED
    BY <1>1, <2>1 DEF Provisional
<1>4. CASE ad.june = June(11, 2, TRUE) /\ ad.silabs = Silabs(13, 3)
  <2>1. ad.june # Missing /\ ad.silabs # Missing
    BY <1>4, JuneJudged, SilabsJudged
  <2>2. ClassifyAdvertisement(ad) = Unusable
    BY <2>1 DEF ClassifyAdvertisement
  <2> QED
    BY <1>1, <2>2 DEF Provisional
<1>5. CASE k \in {"silabs", "wireless probe"} /\ ad.june = Missing /\ ad.silabs \in SilabsOf
  <2>1. PICK l, c : ad.silabs = Silabs(l, c)
    BY <1>5 DEF SilabsOf
  <2>2. ad.silabs # Missing
        /\ FromSilabs(ad.silabs) \in {Unusable, Evidence("silabs_unresolved", "needs_gatt")}
    BY <2>1, SilabsJudged
  <2>3. ClassifyAdvertisement(ad) = FromSilabs(ad.silabs)
    BY <1>5, <2>2 DEF ClassifyAdvertisement
  <2> QED
    BY <1>5, <2>2, <2>3 DEF Judgements, Provisional
<1>6. CASE k \in {"saber", "probe", "stranger"} /\ ad.june \in JuneOf(k) /\ ad.silabs = Missing
  <2>1. ad.june # Missing /\ FromJune(ad.june) \in Judgements(k)
    BY <1>6, OwnJune
  <2>2. ClassifyAdvertisement(ad) = FromJune(ad.june)
    BY <1>6, <2>1 DEF ClassifyAdvertisement
  <2> QED
    BY <2>1, <2>2
<1> QED
  BY <1>2, <1>3, <1>4, <1>5, <1>6

\* The services of a controller, in part or whole, do not make it another.
LEMMA ServicesJudged ==
  ASSUME NEW k \in Controllers, NEW e \in Judgements(k), e.qualification = "needs_gatt",
         NEW table \in Tables(k)
  PROVE  ClassifyServiceShapes(e, table) \in Judgements(k)
<1>0. \A f, q : Evidence(f, q).family = f /\ Evidence(f, q).qualification = q
  BY DEF Evidence
<1>1. Provisional \subseteq Judgements(k)
  BY DEF Judgements
<1>2. \/ ClassifyServiceShapes(e, table) = Unrecognized
      \/ /\ ClassifyServiceShapes(e, table) = Evidence("silabs_appliance", "needs_secure_session")
         /\ IsAppliance(table) /\ ~IsPortable(table)
      \/ /\ ClassifyServiceShapes(e, table) = Evidence("portable", "needs_authentication")
         /\ IsPortable(table)
  <2>1. ~(e.qualification # "needs_gatt")
    OBVIOUS
  <2> HIDE DEF IsAppliance, IsPortable
  <2>2. CASE IsAppliance(table) = IsPortable(table)
    BY <2>1, <2>2 DEF ClassifyServiceShapes
  <2>3. CASE IsAppliance(table) # IsPortable(table)
    BY <2>1, <2>3 DEF ClassifyServiceShapes, IsAppliance, IsPortable
  <2> QED
    BY <2>2, <2>3
<1>b. CASE ClassifyServiceShapes(e, table) = Unrecognized
  BY <1>1, <1>b DEF Provisional
<1>c. e \in Provisional => FALSE
  BY <1>0 DEF Provisional, Unusable, Unrecognized
<1>3. CASE k = "silabs"
  <2>1. DOMAIN table \subseteq {"appliance", "command", "response"}
    BY <1>3 DEF Tables, Parts
  <2>2. ~IsPortable(table)
    BY <2>1 DEF IsPortable
  <2> QED
    BY <1>2, <1>3, <1>b, <2>2 DEF Judgements, Provisional
<1>4. CASE k \in {"probe", "wireless probe"}
  <2>1. DOMAIN table \subseteq {"portable", "temperature"} \/ table = Table({"read"})
    BY <1>4 DEF Tables, Parts
  <2>2. ~IsAppliance(table) \/ IsPortable(table)
    <3>1. CASE DOMAIN table \subseteq {"portable", "temperature"}
      BY <3>1 DEF IsAppliance
    <3>2. CASE table = Table({"read"})
      <4>1. {"portable", "temperature"} \subseteq DOMAIN table /\ table["temperature"] = {"read"}
        BY <3>2 DEF Table, Uuids
      <4> QED
        BY <4>1 DEF IsPortable, Heard
    <3> QED
      BY <2>1, <3>1, <3>2
  <2> QED
    BY <1>2, <1>4, <1>b, <2>2 DEF Judgements, Provisional
<1>5. CASE k \in {"saber", "stranger"}
  BY <1>5 DEF Tables
<1> QED
  BY <1>3, <1>4, <1>5 DEF Controllers

\* No controller is known at first, or the session is.
LEMMA LinkInit == Init => LinkInv
BY DEF Init, LinkInv, Reading, Nobody

\* Discovery, the services read and require_pairing_support keep to what can be
\* made of the controller at hand.
LEMMA LinkStep == LinkInv /\ [Next]_vars => LinkInv'
<1> SUFFICES ASSUME LinkInv, [Next]_vars PROVE LinkInv'
  OBVIOUS
<1>1. CASE Discover
  <2>1. PICK k \in Controllers : \E ad \in Advertisements(k) :
          kind' = k /\ evidence' = ClassifyAdvertisement(ad)
    BY <1>1 DEF Discover, Controllers
  <2>2. kind' \in Controllers /\ evidence' \in Judgements(kind')
    BY <2>1, AdvertisementJudged
  <2> QED
    BY <1>1, <2>2 DEF Discover, LinkInv, Reading
<1>2. CASE QualifyGatt
  <2>1. stage = "seen" /\ kind' = kind /\ kind \in Controllers /\ evidence \in Judgements(kind)
        /\ evidence.qualification = "needs_gatt"
    BY <1>2 DEF QualifyGatt, LinkInv
  <2>2. CASE \E table \in Tables(kind) : evidence' = ClassifyServiceShapes(evidence, table)
    <3>1. evidence' \in Judgements(kind)
      BY <2>1, <2>2, ServicesJudged
    <3> QED
      BY <1>2, <2>1, <3>1 DEF QualifyGatt, LinkInv, Reading
  <2>3. CASE stage' = "refused" /\ UNCHANGED evidence
    BY <2>3 DEF LinkInv, Reading
  <2> QED
    BY <1>2, <2>2, <2>3 DEF QualifyGatt
<1>3. CASE RequireSupport
  BY <1>3 DEF RequireSupport, LinkInv, Reading, linkVars
<1>4. CASE ChooseHub
  BY <1>4 DEF ChooseHub, LinkInv, Reading
<1>5. ASSUME stage \in Reading, stage' \in Reading, UNCHANGED linkVars
      PROVE  LinkInv'
  BY <1>5 DEF LinkInv, Reading, linkVars
<1>6. CASE Arrive
  BY <1>5, <1>6 DEF Arrive, Reading
<1>7. CASE Receive
  BY <1>5, <1>7 DEF Receive, Reading
<1>8. CASE ListenOn
  BY <1>5, <1>8 DEF ListenOn, Done, Reading
<1>9. CASE ScanStep \/ ReadNested
  BY <1>5, <1>9 DEF ScanStep, ReadNested, Read, Reading
<1>10. CASE ReadError \/ ReadCapabilities \/ ReadAppliance \/ Publish
  BY <1>5, <1>10 DEF ReadError, ReadCapabilities, ReadAppliance, Publish, Read, Dismiss, Done, Reading
<1>11. CASE UNCHANGED vars
  BY <1>11 DEF LinkInv, vars, linkVars
<1> QED
  BY <1>1, <1>2, <1>3, <1>4, <1>6, <1>7, <1>8, <1>9, <1>10, <1>11 DEF Next

\* What a link is to.
LEMMA Linked ==
  ASSUME LinkInv, stage \in Reading, kind # "hub"
  PROVE  /\ kind \in Controllers
         /\ \/ kind = "saber" /\ evidence = Evidence("saber", "pairing_ready")
            \/ kind = "silabs" /\ evidence = Evidence("silabs_appliance", "needs_secure_session")
            \/ evidence = Evidence("saber", "name_only")
<1>1. kind \in Controllers /\ evidence \in Judgements(kind) /\ PairingSupported(evidence)
  BY DEF LinkInv, Controllers
<1>2. ASSUME NEW f, NEW q, evidence = Evidence(f, q)
      PROVE  f = "saber" \/ (f = "silabs_appliance" /\ q = "needs_secure_session")
  BY <1>1, <1>2 DEF PairingSupported, Evidence
<1>3. CASE evidence \in Provisional
  BY <1>1, <1>2, <1>3 DEF Provisional, Unusable, Unrecognized
<1>4. CASE evidence \notin Provisional
  BY <1>1, <1>2, <1>4 DEF Judgements, Controllers
<1> QED
  BY <1>3, <1>4

\* Of the judgements that pairing supports, only a product name can be wrong.
LEMMA LinkOf == LinkInv => FamilyIsReal
<1>1. \A f, q : Evidence(f, q).family = f /\ Evidence(f, q).qualification = q
  BY DEF Evidence
<1> QED
  BY <1>1, Linked DEF FamilyIsReal, Protocol, Reading

\* A controller is paired with the protocol of its own family, on whatever of
\* its advertisement and services came through (transport_family.py).
THEOREM FamiliesAreReal == Spec => []FamilyIsReal
BY LinkInit, LinkStep, LinkOf, PTL DEF Spec

-----------------------------------------------------------------------------
(* Items as records.                                                       *)

Meant == {Capability(1, 4), Capability(1, 2), Capability(8, 3)}
Items == ReportItems \cup StatusItems \cup Meant
RowValues == [slot : Byte, state : Byte, temp : Int16, kept : Nat]

\* The record of an item, key by key.
LEMMA RowKeys == DOMAIN RowTag = {"probe", "timer", "burner"}
                 /\ RowTag["probe"] = 4 /\ RowTag["timer"] = 6 /\ RowTag["burner"] = 7
BY DEF RowTag

\* The record of each kind of item.
LEMMA RecordOf ==
  ASSUME NEW i
  PROVE  /\ i.key = "battery" => AsRecord(i) = Record(1, <<i.value>>)
         /\ i.key = "charging" => AsRecord(i) = Record(2, <<IF i.value THEN 1 ELSE 0>>)
         /\ i.key = "wifi" => AsRecord(i) = Record(10, LittleEndian(i.value, 4))
         /\ i.key = "device" => AsRecord(i) = Record(17, <<i.value>>)
         /\ i.key = "fuel_level" => AsRecord(i) = Record(20, <<i.value>>)
         /\ i.key = "fuel_percent" => AsRecord(i) = Record(27, <<i.value>>)
         /\ i.key = "target" => AsRecord(i) = Record(1, LittleEndian(i.value, 2))
         /\ i.key = "display" => AsRecord(i) = Record(2, LittleEndian(i.value, 2))
         /\ i.key = "actual" => AsRecord(i) = Record(13, LittleEndian(i.value, 2))
         /\ i.key = "whole_degrees" => AsRecord(i) = Record(15, LittleEndian(i.value, 2))
         /\ i.key = "mode" => AsRecord(i) = Record(3, <<i.value>>)
         /\ i.key \in {"probe", "timer", "burner"} =>
              AsRecord(i) = Record(RowTag[i.key], RowBytes(i.key, i.value))
         /\ i.key = "capability" =>
              AsRecord(i) = Record(i.value.tag, LittleEndian(i.value.value, CapabilityWidth[i.value.tag]))
BY RowKeys DEF AsRecord

\* Two elements,
LEMMA Pair ==
  ASSUME NEW R, NEW a \in R, NEW b \in R
  PROVE  LET s == <<a, b>> IN s \in Seq(R) /\ Len(s) = 2 /\ s[1] = a /\ s[2] = b
OBVIOUS

\* and three.
LEMMA Triple ==
  ASSUME NEW R, NEW a \in R, NEW b \in R, NEW c \in R
  PROVE  LET s == <<a, b, c>> IN s \in Seq(R) /\ Len(s) = 3 /\ s[1] = a /\ s[2] = b /\ s[3] = c
OBVIOUS

\* A record of few bytes.
LEMMA ShortOf ==
  ASSUME NEW t \in Byte, NEW v \in Seq(Byte), Len(v) \in Byte
  PROVE  Record(t, v) \in Short /\ Record(t, v).tag = t /\ Record(t, v).value = v
BY DEF Record, Short, Records

\* A record of one byte.
LEMMA OneByte ==
  ASSUME NEW t \in Byte, NEW b \in Byte
  PROVE  Record(t, <<b>>) \in Short /\ Record(t, <<b>>).tag = t /\ Record(t, <<b>>).value = <<b>>
<1>1. <<b>> \in Seq(Byte) /\ Len(<<b>>) = 1 /\ 1 \in Byte
  BY DEF Byte
<1> QED
  BY <1>1, ShortOf

Widths == {1, 2, 4, 8}

\* The widths numbers are written in.
LEMMA WidthIs == ASSUME NEW w \in Widths PROVE w \in Nat /\ w # 0 /\ w \in Byte
BY DEF Widths, Byte

\* The record of a number.
LEMMA Written ==
  ASSUME NEW t \in Byte, NEW n \in Int, NEW width \in Widths
  PROVE  /\ Record(t, LittleEndian(n, width)) \in Short
         /\ Record(t, LittleEndian(n, width)).tag = t
         /\ Record(t, LittleEndian(n, width)).value = LittleEndian(n, width)
         /\ Len(LittleEndian(n, width)) = width
<1>1. width \in Nat /\ width # 0 /\ width \in Byte
  BY WidthIs
<1>2. LittleEndian(n, width) \in Seq(Byte) /\ Len(LittleEndian(n, width)) = width
  BY <1>1, LittleEndianBytes
<1> QED
  BY <1>1, <1>2, ShortOf

\* A signed number fits its bytes.
LEMMA InInt16 == ASSUME NEW n \in Int16 PROVE n \in Int /\ Fits(n \div 256, TRUE)
BY DEF Int16, Fits

\* So in four bytes.
LEMMA InInt32 ==
  ASSUME NEW n \in Int32 PROVE n \in Int /\ Fits(((n \div 256) \div 256) \div 256, TRUE)
BY InInt16 DEF Int32, Int16, Fits

\* A row's records.
LEMMA RowIs ==
  ASSUME NEW v \in RowValues
  PROVE  /\ v.slot \in Byte /\ v.state \in Byte /\ v.temp \in Int /\ v.kept \in Nat
         /\ v.temp \in Int16
<1>1. v.slot \in Byte /\ v.state \in Byte /\ v.temp \in Int16 /\ v.kept \in Nat
  BY DEF RowValues
<1> QED
  BY <1>1, InInt16

\* The tags in use are bytes.
LEMMA SmallBytes == {1, 2, 3, 4, 6, 7, 8, 10, 12, 13, 15, 17, 20, 27} \subseteq Byte
BY DEF Byte

Slot(v) == Record(1, <<v.slot>>)
State(v) == Record(12, <<v.state>>)
Burns(v) == Record(3, <<v.state>>)
Temp(v) == Record(10, LittleEndian(v.temp, 2))

\* The records of a row.
LEMMA RowShort ==
  ASSUME NEW v \in RowValues
  PROVE  /\ Slot(v) \in Short /\ State(v) \in Short /\ Burns(v) \in Short /\ Temp(v) \in Short
         /\ Slot(v).tag = 1 /\ Slot(v).value = <<v.slot>> /\ Len(Slot(v).value) = 1
         /\ State(v).tag = 12 /\ State(v).value = <<v.state>> /\ Len(State(v).value) = 1
         /\ Burns(v).tag = 3 /\ Burns(v).value = <<v.state>> /\ Len(Burns(v).value) = 1
         /\ Temp(v).tag = 10 /\ Temp(v).value = LittleEndian(v.temp, 2) /\ Len(Temp(v).value) = 2
         /\ RowRecords("probe", v) = <<Slot(v), State(v), Temp(v)>>
         /\ RowRecords("timer", v) = <<Slot(v), State(v)>>
         /\ RowRecords("burner", v) = <<Slot(v), Burns(v)>>
<1>1. /\ v.slot \in Byte /\ v.state \in Byte /\ v.temp \in Int
      /\ 1 \in Byte /\ 12 \in Byte /\ 3 \in Byte /\ 10 \in Byte /\ 2 \in Widths
  BY RowIs DEF Byte, Widths
<1>2. \A x : Len(<<x>>) = 1
  OBVIOUS
<1>3. Slot(v) \in Short /\ Slot(v).tag = 1 /\ Slot(v).value = <<v.slot>> /\ Len(Slot(v).value) = 1
  BY <1>1, <1>2, OneByte, Zenon DEF Slot
<1>4. State(v) \in Short /\ State(v).tag = 12 /\ State(v).value = <<v.state>> /\ Len(State(v).value) = 1
  BY <1>1, <1>2, OneByte, Zenon DEF State
<1>5. Burns(v) \in Short /\ Burns(v).tag = 3 /\ Burns(v).value = <<v.state>> /\ Len(Burns(v).value) = 1
  BY <1>1, <1>2, OneByte, Zenon DEF Burns
<1>6. /\ Temp(v) \in Short /\ Temp(v).tag = 10 /\ Temp(v).value = LittleEndian(v.temp, 2)
      /\ Len(Temp(v).value) = 2
  <2>1. PICK t \in Byte, w \in Widths, n \in Int : t = 10 /\ w = 2 /\ n = v.temp
    BY <1>1
  <2>2. /\ Record(t, LittleEndian(n, w)) \in Short /\ Record(t, LittleEndian(n, w)).tag = t
        /\ Record(t, LittleEndian(n, w)).value = LittleEndian(n, w) /\ Len(LittleEndian(n, w)) = w
    BY Written
  <2> QED
    BY <2>1, <2>2 DEF Temp
<1>7. /\ RowRecords("probe", v) = <<Slot(v), State(v), Temp(v)>>
      /\ RowRecords("timer", v) = <<Slot(v), State(v)>>
      /\ RowRecords("burner", v) = <<Slot(v), Burns(v)>>
  BY DEF RowRecords, Slot, State, Burns, Temp
<1> QED
  BY <1>3, <1>4, <1>5, <1>6, <1>7

\* Where two or three records end.
LEMMA TwoEnds ==
  ASSUME NEW a \in Short, NEW b \in Short, Len(a.value) = 1, Len(b.value) = 1,
         NEW rs, rs = <<a, b>>
  PROVE  /\ rs \in Seq(Short) /\ Len(rs) = 2 /\ rs[1] = a /\ rs[2] = b
         /\ Bytes(rs) \in Seq(Byte) /\ Len(Bytes(rs)) = 6
         /\ \E e : Placed(rs, e) /\ e[0] = 0 /\ e[1] = 3 /\ e[2] = 6
<1>1. rs \in Seq(Short) /\ Len(rs) = 2 /\ rs[1] = a /\ rs[2] = b
  BY Pair
<1>2. Bytes(rs) \in Seq(Byte) /\ \E e : Placed(rs, e)
  BY <1>1, RecordLayout
<1>3. PICK e : Placed(rs, e)
  BY <1>2
<1>4. /\ e[0] = 0 /\ e[2] = Len(Bytes(rs)) /\ \A i \in 1..2 : e[i] = e[i - 1] + 2 + Len(rs[i].value)
  BY <1>1, <1>3 DEF Placed
<1>5. e[1] = 3
  <2>1. 1 \in 1..2 /\ 1 - 1 = 0
    OBVIOUS
  <2>2. e[1] = e[0] + 2 + Len(a.value)
    BY <1>1, <1>4, <2>1
  <2> QED
    BY <1>4, <2>2
<1>6. e[2] = 6
  <2>1. 2 \in 1..2 /\ 2 - 1 = 1
    OBVIOUS
  <2>2. e[2] = e[1] + 2 + Len(b.value)
    BY <1>1, <1>4, <2>1
  <2> QED
    BY <1>5, <2>2
<1> QED
  BY <1>1, <1>2, <1>3, <1>4, <1>5, <1>6

\* The same of three.
LEMMA ThreeEnds ==
  ASSUME NEW a \in Short, NEW b \in Short, NEW d \in Short,
         Len(a.value) = 1, Len(b.value) = 1, Len(d.value) = 2,
         NEW rs, rs = <<a, b, d>>
  PROVE  /\ rs \in Seq(Short) /\ Len(rs) = 3 /\ rs[1] = a /\ rs[2] = b /\ rs[3] = d
         /\ Bytes(rs) \in Seq(Byte) /\ Len(Bytes(rs)) = 10
         /\ \E e : Placed(rs, e) /\ e[0] = 0 /\ e[1] = 3 /\ e[2] = 6 /\ e[3] = 10
<1>1. rs \in Seq(Short) /\ Len(rs) = 3 /\ rs[1] = a /\ rs[2] = b /\ rs[3] = d
  BY Triple
<1>2. Bytes(rs) \in Seq(Byte) /\ \E e : Placed(rs, e)
  BY <1>1, RecordLayout
<1>3. PICK e : Placed(rs, e)
  BY <1>2
<1>4. /\ e[0] = 0 /\ e[3] = Len(Bytes(rs)) /\ \A i \in 1..3 : e[i] = e[i - 1] + 2 + Len(rs[i].value)
  BY <1>1, <1>3 DEF Placed
<1>5. e[1] = 3
  <2>1. 1 \in 1..3 /\ 1 - 1 = 0
    OBVIOUS
  <2>2. e[1] = e[0] + 2 + Len(a.value)
    BY <1>1, <1>4, <2>1
  <2> QED
    BY <1>4, <2>2
<1>6. e[2] = 6
  <2>1. 2 \in 1..3 /\ 2 - 1 = 1
    OBVIOUS
  <2>2. e[2] = e[1] + 2 + Len(b.value)
    BY <1>1, <1>4, <2>1
  <2> QED
    BY <1>5, <2>2
<1>7. e[3] = 10
  <2>1. 3 \in 1..3 /\ 3 - 1 = 2
    OBVIOUS
  <2>2. e[3] = e[2] + 2 + Len(d.value)
    BY <1>1, <1>4, <2>1
  <2> QED
    BY <1>6, <2>2
<1> QED
  BY <1>1, <1>2, <1>3, <1>4, <1>5, <1>6, <1>7

\* The first elements of a sequence.
LEMMA FirstOf ==
  ASSUME NEW R, NEW s \in Seq(R), NEW n \in Nat, n <= Len(s)
  PROVE  /\ SubSeq(s, 1, n) \in Seq(R) /\ Len(SubSeq(s, 1, n)) = n
         /\ \A j \in 1..n : SubSeq(s, 1, n)[j] = s[j]
<1>1. /\ SubSeq(s, 1, n) \in Seq(R) /\ Len(SubSeq(s, 1, n)) = IF 1 <= n THEN n - 1 + 1 ELSE 0
      /\ \A i \in 1..(n - 1 + 1) : SubSeq(s, 1, n)[i] = s[1 + i - 1]
  BY Slice
<1>2. (IF 1 <= n THEN n - 1 + 1 ELSE 0) = n /\ n - 1 + 1 = n /\ \A i \in 1..n : 1 + i - 1 = i
  OBVIOUS
<1> QED
  BY <1>1, <1>2

\* A row laid out, as the hub sends it: some of its bytes.
LEMMA RowLaid ==
  ASSUME NEW v \in RowValues, NEW key \in {"probe", "timer", "burner"}
  PROVE  /\ RowRecords(key, v) \in Seq(Short)
         /\ Bytes(RowRecords(key, v)) \in Seq(Byte)
         /\ Len(Bytes(RowRecords(key, v))) = IF key = "probe" THEN 10 ELSE 6
<1>1. CASE key = "probe"
  BY <1>1, RowShort, ThreeEnds
<1>2. CASE key = "timer"
  BY <1>2, RowShort, TwoEnds
<1>3. CASE key = "burner"
  BY <1>3, RowShort, TwoEnds
<1> QED
  BY <1>1, <1>2, <1>3

\* What the hub sends of a row starts like all of it.
LEMMA RowSent ==
  ASSUME NEW v \in RowValues, NEW key \in {"probe", "timer", "burner"}
  PROVE  /\ Prefixes(RowBytes(key, v), Bytes(RowRecords(key, v)))
         /\ RowBytes(key, v) \in Seq(Byte) /\ Len(RowBytes(key, v)) <= 10
         /\ LET l == Len(Bytes(RowRecords(key, v)))
            IN  Len(RowBytes(key, v)) = IF v.kept < l THEN v.kept ELSE l
<1> DEFINE b == Bytes(RowRecords(key, v))
           l == Len(b)
           n == IF v.kept < l THEN v.kept ELSE l
<1>1. b \in Seq(Byte) /\ l \in Nat /\ l <= 10 /\ v.kept \in Nat
  <2>1. b \in Seq(Byte) /\ l = IF key = "probe" THEN 10 ELSE 6
    BY RowLaid
  <2>2. v.kept \in Nat
    BY RowIs
  <2> HIDE DEF b
  <2> QED
    BY <2>1, <2>2
<1>2. RowBytes(key, v) = SubSeq(b, 1, n)
  BY DEF RowBytes
<1> HIDE DEF b
<1>3. n \in Nat /\ n <= l
  BY <1>1
<1> HIDE DEF n
<1>4. /\ SubSeq(b, 1, n) \in Seq(Byte) /\ Len(SubSeq(b, 1, n)) = n
      /\ \A j \in 1..n : SubSeq(b, 1, n)[j] = b[j]
  BY <1>1, <1>3, FirstOf
<1>5. Prefixes(RowBytes(key, v), b) /\ Len(RowBytes(key, v)) = n
  BY <1>2, <1>3, <1>4 DEF Prefixes
<1> QED
  BY <1>1, <1>2, <1>3, <1>4, <1>5 DEF b, n

\* The keys of the items and what they hold.
Coded == {"battery", "device", "fuel_level", "fuel_percent", "mode"}
Degrees == {"target", "display", "actual", "whole_degrees"}
Nests == {"probe", "timer", "burner"}

\* An item is of one of those keys.
LEMMA ItemIs ==
  ASSUME NEW i \in Items
  PROVE  \/ i.key \in Coded /\ i.value \in Byte
         \/ i.key = "charging" /\ i.value \in BOOLEAN
         \/ i.key = "wifi" /\ i.value \in Int32
         \/ i.key \in Degrees /\ i.value \in Int16
         \/ i.key \in Nests /\ i.value \in RowValues
         \/ i \in Meant
<1>1. CASE i \in ReportItems
  BY <1>1 DEF ReportItems, Coded
<1>2. CASE i \in StatusItems
  BY <1>2 DEF StatusItems, RowValues, Coded, Degrees, Nests
<1> QED
  BY <1>1, <1>2 DEF Items

\* The capabilities the hub means.
LEMMA MeantIs ==
  ASSUME NEW i \in Meant
  PROVE  /\ i.key = "capability" /\ i.value.tag \in {1, 8} /\ i.value.value \in {2, 3, 4}
         /\ CapabilityWidth[i.value.tag] \in {1, 8} /\ i.value.tag \in Byte
BY DEF Meant, Capability, AnItem, CapabilityWidth, Byte

\* Its record is short.
LEMMA ItemShort == ASSUME NEW i \in Items PROVE AsRecord(i) \in Short
<1>0. 2 \in Widths /\ 4 \in Widths
  BY DEF Widths
<1>1. CASE i.key \in Coded /\ i.value \in Byte
  <2>1. \E t \in {1, 17, 20, 27, 3} : AsRecord(i) = Record(t, <<i.value>>)
    BY <1>1, RecordOf DEF Coded
  <2>2. PICK t \in Byte : AsRecord(i) = Record(t, <<i.value>>)
    BY <2>1, SmallBytes
  <2> QED
    BY <1>1, <2>2, OneByte
<1>2. CASE i.key = "charging" /\ i.value \in BOOLEAN
  <2>1. PICK b \in Byte : b = IF i.value THEN 1 ELSE 0
    BY DEF Byte
  <2>2. AsRecord(i) = Record(2, <<b>>)
    BY <1>2, <2>1, RecordOf, Zenon
  <2> QED
    BY <2>2, OneByte, SmallBytes
<1>3. CASE i.key = "wifi" /\ i.value \in Int32
  <2>1. AsRecord(i) = Record(10, LittleEndian(i.value, 4)) /\ i.value \in Int
    BY <1>3, RecordOf, InInt32, Zenon
  <2> QED
    BY <1>0, <2>1, SmallBytes, Written
<1>4. CASE i.key \in Degrees /\ i.value \in Int16
  <2>1. \E t \in {1, 2, 13, 15} : AsRecord(i) = Record(t, LittleEndian(i.value, 2))
    BY <1>4, RecordOf DEF Degrees
  <2>2. PICK t \in Byte : AsRecord(i) = Record(t, LittleEndian(i.value, 2))
    BY <2>1, SmallBytes
  <2>3. i.value \in Int
    BY <1>4, InInt16
  <2> QED
    BY <1>0, <2>2, <2>3, Written, Zenon
<1>5. CASE i.key \in Nests /\ i.value \in RowValues
  <2>1. AsRecord(i) = Record(RowTag[i.key], RowBytes(i.key, i.value))
    BY <1>5, RecordOf DEF Nests
  <2>2. RowTag[i.key] \in Byte
    <3>1. RowTag[i.key] \in {4, 6, 7}
      BY <1>5, RowKeys DEF Nests
    <3> QED
      BY <3>1, SmallBytes
  <2>3. RowBytes(i.key, i.value) \in Seq(Byte) /\ Len(RowBytes(i.key, i.value)) <= 10
    BY <1>5, RowSent DEF Nests
  <2>4. Len(RowBytes(i.key, i.value)) \in Byte
    <3>1. Len(RowBytes(i.key, i.value)) \in Nat
      BY <2>3, LenProperties
    <3>2. \A l \in Nat : l <= 10 => l \in Byte
      BY DEF Byte
    <3> QED
      BY <2>3, <3>1, <3>2, Zenon
  <2> QED
    BY <2>1, <2>2, <2>3, <2>4, ShortOf
<1>6. CASE i \in Meant
  <2>1. i.key = "capability" /\ i.value.tag \in Byte /\ i.value.value \in Int
        /\ CapabilityWidth[i.value.tag] \in Widths
    BY <1>6, MeantIs DEF Widths
  <2>2. AsRecord(i) = Record(i.value.tag, LittleEndian(i.value.value, CapabilityWidth[i.value.tag]))
    BY <2>1, RecordOf, Zenon
  <2> QED
    BY <2>1, <2>2, Written
<1> QED
  BY <1>1, <1>2, <1>3, <1>4, <1>5, <1>6, ItemIs

\* A list of items as records.
AsRecords(items) == [i \in DOMAIN items |-> AsRecord(items[i])]

\* The records of a list, one for each item.
LEMMA ListShort ==
  ASSUME NEW items \in Seq(Items)
  PROVE  /\ AsRecords(items) \in Seq(Short) /\ Len(AsRecords(items)) = Len(items)
         /\ Len(items) \in Nat /\ DOMAIN items = 1..Len(items)
         /\ \A i \in 1..Len(items) : items[i] \in Items /\ AsRecords(items)[i] = AsRecord(items[i])
         /\ Body(items) = Bytes(AsRecords(items)) /\ Body(items) \in Seq(Byte)
<1>1. Len(items) \in Nat /\ DOMAIN items = 1..Len(items) /\ \A i \in 1..Len(items) : items[i] \in Items
  BY LenProperties, ElementOfSeq
<1>2. AsRecords(items) = [i \in 1..Len(items) |-> AsRecord(items[i])]
  BY <1>1 DEF AsRecords
<1>3. AsRecords(items) \in Seq(Short) /\ Len(AsRecords(items)) = Len(items)
  BY <1>1, <1>2, ItemShort
<1>4. Body(items) = Bytes(AsRecords(items))
  BY DEF Body, AsRecords
<1>5. Bytes(AsRecords(items)) \in Seq(Byte)
  BY <1>3, RecordLayout
<1>6. \A i \in 1..Len(items) : AsRecords(items)[i] = AsRecord(items[i])
  BY <1>2
<1> QED
  BY <1>1, <1>3, <1>4, <1>5, <1>6

\* The first items of a list, as records.
LEMMA FirstItems ==
  ASSUME NEW items \in Seq(Items), NEW k \in 0..Len(items)
  PROVE  /\ SubSeq(items, 1, k) \in Seq(Items) /\ Len(SubSeq(items, 1, k)) = k
         /\ AsRecords(SubSeq(items, 1, k)) = SubSeq(AsRecords(items), 1, k)
         /\ \A i \in 1..k : SubSeq(items, 1, k)[i] = items[i]
<1> DEFINE f == SubSeq(items, 1, k)
           rs == AsRecords(items)
           g == SubSeq(rs, 1, k)
<1>1. /\ rs \in Seq(Short) /\ Len(rs) = Len(items) /\ Len(items) \in Nat
      /\ \A i \in 1..Len(items) : rs[i] = AsRecord(items[i])
  BY ListShort
<1> HIDE DEF rs
<1>2. k \in Nat /\ 1 \in Nat /\ 1 <= 1 /\ k <= Len(items) /\ k <= Len(rs) /\ k - 1 + 1 = k
  BY <1>1
<1>3. f \in Seq(Items) /\ Len(f) = k /\ \A i \in 1..k : f[i] = items[i]
  <2>1. /\ f \in Seq(Items) /\ Len(f) = IF 1 <= k THEN k - 1 + 1 ELSE 0
        /\ \A i \in 1..(k - 1 + 1) : f[i] = items[1 + i - 1]
    BY <1>2, Slice
  <2>2. \A i \in 1..k : 1 + i - 1 = i
    OBVIOUS
  <2> HIDE DEF f
  <2> QED
    BY <1>2, <2>1, <2>2
<1>4. g \in Seq(Short) /\ Len(g) = k /\ \A i \in 1..k : g[i] = rs[i]
  <2>1. /\ g \in Seq(Short) /\ Len(g) = IF 1 <= k THEN k - 1 + 1 ELSE 0
        /\ \A i \in 1..(k - 1 + 1) : g[i] = rs[1 + i - 1]
    BY <1>1, <1>2, Slice
  <2>2. \A i \in 1..k : 1 + i - 1 = i
    OBVIOUS
  <2> HIDE DEF g
  <2> QED
    BY <1>2, <2>1, <2>2
<1> HIDE DEF f, g
<1>5. /\ AsRecords(f) \in Seq(Short) /\ Len(AsRecords(f)) = k
      /\ \A i \in 1..k : AsRecords(f)[i] = AsRecord(f[i])
  BY <1>3, ListShort
<1>6. \A i \in 1..k : AsRecords(f)[i] = g[i]
  <2>1. \A i \in 1..k : i \in 1..Len(items)
    BY <1>1, <1>2
  <2> QED
    BY <1>1, <1>3, <1>4, <1>5, <2>1
<1>7. AsRecords(f) = g
  <2>1. Len(AsRecords(f)) = Len(g) /\ \A i \in 1..Len(g) : AsRecords(f)[i] = g[i]
    BY <1>4, <1>5, <1>6
  <2> QED
    BY <1>4, <1>5, <2>1, SeqEqual
<1> QED
  BY <1>3, <1>7 DEF f, g, rs

\* A message of the items for which there was room: its body ends in the
\* last of them.
EndsWithin(m, items, k, e) ==
  /\ k \in 0..Len(items) /\ Placed(AsRecords(items), e)
  /\ m.items = SubSeq(items, 1, k)
  /\ Prefixes(m.body, Body(items)) /\ Len(m.body) <= e[k] /\ (k # 0 => Len(m.body) > e[k - 1])

\* That is what a cut is.
LEMMA CutIs ==
  ASSUME NEW type, NEW items \in Seq(Items), NEW m \in Cuts(type, items)
  PROVE  m.type = type /\ \E k, e : EndsWithin(m, items, k, e)
<1> DEFINE b == Body(items)
           rs == AsRecords(items)
           size(k) == Len(Body(SubSeq(items, 1, k)))
           first(k) == IF k = 0 THEN 0 ELSE size(k - 1) + 1
<1>1. PICK k \in 0..Len(items) : \E n \in first(k)..size(k) :
        m = Message(type, SubSeq(items, 1, k), SubSeq(b, 1, n))
  BY DEF Cuts
<1>2. PICK n \in first(k)..size(k) : m = Message(type, SubSeq(items, 1, k), SubSeq(b, 1, n))
  BY <1>1
<1>3. rs \in Seq(Short) /\ Len(rs) = Len(items) /\ Len(items) \in Nat /\ b = Bytes(rs) /\ b \in Seq(Byte)
  BY ListShort
<1>4. PICK e : Placed(rs, e)
  BY <1>3, RecordLayout
<1> HIDE DEF rs
<1>5. ASSUME NEW j \in 0..Len(items) PROVE size(j) = e[j]
  <2>1. AsRecords(SubSeq(items, 1, j)) = SubSeq(rs, 1, j) /\ SubSeq(items, 1, j) \in Seq(Items)
    BY FirstItems DEF rs
  <2>2. Body(SubSeq(items, 1, j)) = Bytes(SubSeq(rs, 1, j))
    BY <2>1, ListShort
  <2> QED
    BY <1>3, <1>4, <2>2, FirstEnds
<1>6. size(k) = e[k] /\ (k # 0 => size(k - 1) = e[k - 1])
  <2>1. k # 0 => k - 1 \in 0..Len(items)
    BY <1>3
  <2> QED
    BY <1>5, <2>1
<1> HIDE DEF size
<1>7. /\ e[k] \in Nat /\ e[k] <= Len(b) /\ (k # 0 => e[k - 1] \in Nat)
  <2>1. e \in [0..Len(rs) -> Nat] /\ e[Len(rs)] = Len(b)
    BY <1>3, <1>4 DEF Placed
  <2>2. e[k] <= e[Len(rs)]
    <3>1. Len(rs) \in 0..Len(rs) /\ k \in 0..Len(rs)
      BY <1>3
    <3> QED
      BY <1>3, <1>4, <3>1, EndsRise
  <2>3. k \in 0..Len(rs) /\ (k # 0 => k - 1 \in 0..Len(rs))
    BY <1>3
  <2> QED
    BY <2>1, <2>2, <2>3
<1>8. /\ n \in Nat /\ n <= Len(b) /\ n <= e[k] /\ (k # 0 => n > e[k - 1])
  BY <1>2, <1>3, <1>6, <1>7
<1> DEFINE p == SubSeq(b, 1, n)
<1>9. p \in Seq(Byte) /\ Len(p) = n /\ \A j \in 1..n : p[j] = b[j]
  <2>0. b \in Seq(Byte) /\ 1 \in Nat /\ 1 <= 1
    BY <1>3
  <2>1. /\ p \in Seq(Byte) /\ Len(p) = IF 1 <= n THEN n - 1 + 1 ELSE 0
        /\ \A i \in 1..(n - 1 + 1) : p[i] = b[1 + i - 1]
    BY <1>8, <2>0, Slice
  <2>2. n - 1 + 1 = n /\ \A i \in 1..n : 1 + i - 1 = i
    BY <1>8
  <2> HIDE DEF p
  <2> QED
    BY <1>8, <2>1, <2>2
<1> HIDE DEF p, b
<1>10. Prefixes(p, b)
  BY <1>8, <1>9 DEF Prefixes
<1>11. m.type = type /\ m.items = SubSeq(items, 1, k) /\ m.body = p
  BY <1>2 DEF Message, p
<1>12. EndsWithin(m, items, k, e)
  BY <1>4, <1>8, <1>9, <1>10, <1>11 DEF EndsWithin, rs, b
<1> QED
  BY <1>11, <1>12

-----------------------------------------------------------------------------
(* What a reply carries.                                                   *)

\* What a reply over Bluetooth carries.
Replies == PairingReplies \cup CapabilityReplies
Fitting(b) == b \in Seq(Byte) /\ Len(b) \in Nat /\ Len(b) <= 600
Carries(m) == m.type \in Byte /\ Fitting(m.body)

\* A message without records to compare with.
LEMMA SimpleCarries ==
  ASSUME NEW t \in Byte, NEW b, Fitting(b)
  PROVE  Message(t, <<>>, b).type = t /\ Carries(Message(t, <<>>, b))
<1>1. Message(t, <<>>, b).type = t /\ Message(t, <<>>, b).body = b
  BY DEF Message
<1> QED
  BY <1>1 DEF Carries

\* A record of one byte, and one of two.
LEMMA LaidLength ==
  ASSUME NEW t \in Byte, NEW v \in Seq(Byte), NEW l \in Nat, Len(v) = l, l <= 2
  PROVE  Laid(Record(t, v)) \in Seq(Byte) /\ Len(Laid(Record(t, v))) = 2 + l
<1>1. Len(v) \in Byte
  BY DEF Byte
<1>2. Record(t, v) \in Short /\ Record(t, v).value = v
  BY <1>1, ShortOf
<1> QED
  BY <1>2, ShortRecord

\* A record of one byte is three bytes long,
LEMMA LaidOne ==
  ASSUME NEW t \in Byte, NEW b \in Byte
  PROVE  Laid(Record(t, <<b>>)) \in Seq(Byte) /\ Len(Laid(Record(t, <<b>>))) = 3
<1> DEFINE v == <<b>>
<1>1. v \in Seq(Byte) /\ Len(v) = 1 /\ 1 \in Nat /\ 1 <= 2 /\ 2 + 1 = 3
  OBVIOUS
<1> HIDE DEF v
<1>2. Laid(Record(t, v)) \in Seq(Byte) /\ Len(Laid(Record(t, v))) = 3
  BY <1>1, LaidLength
<1> QED
  BY <1>2, Zenon DEF v

\* one of two is four.
LEMMA LaidTwo ==
  ASSUME NEW t \in Byte, NEW b \in Byte, NEW c \in Byte
  PROVE  Laid(Record(t, <<b, c>>)) \in Seq(Byte) /\ Len(Laid(Record(t, <<b, c>>))) = 4
<1> DEFINE v == <<b, c>>
<1>1. v \in Seq(Byte) /\ Len(v) = 2 /\ 2 \in Nat /\ 2 <= 2 /\ 2 + 2 = 4
  OBVIOUS
<1> HIDE DEF v
<1>2. Laid(Record(t, v)) \in Seq(Byte) /\ Len(Laid(Record(t, v))) = 4
  BY <1>1, LaidLength
<1> QED
  BY <1>2, Zenon DEF v

\* Two items, cut anywhere.
LEMMA CutCarries ==
  ASSUME NEW type \in Byte, NEW x \in Items, NEW y \in Items, NEW m \in Cuts(type, <<x, y>>)
  PROVE  m.type = type /\ Carries(m)
<1> DEFINE items == <<x, y>>
           rs == AsRecords(items)
<1>1. items \in Seq(Items) /\ Len(items) = 2
  OBVIOUS
<1> HIDE DEF items
<1>2. m.type = type /\ \E k, e : EndsWithin(m, items, k, e)
  BY <1>1, CutIs DEF items
<1>3. PICK k, e : EndsWithin(m, items, k, e)
  BY <1>2
<1>4. /\ k \in 0..2 /\ Placed(rs, e) /\ m.body \in Seq(Byte) /\ Len(m.body) <= e[k]
  BY <1>1, <1>3 DEF EndsWithin, Prefixes
<1>5. rs \in Seq(Short) /\ Len(rs) = 2
  BY <1>1, ListShort
<1> HIDE DEF rs
<1>6. ASSUME NEW i \in 1..2 PROVE Len(rs[i].value) \in Nat /\ Len(rs[i].value) <= 255
  <2>0. i \in 1..Len(rs)
    BY <1>5
  <2>1. rs[i] \in Short
    BY <1>5, <2>0, ElementOfSeq
  <2>2. Len(rs[i].value) \in Byte
    BY <2>1 DEF Short
  <2> QED
    BY <2>2, ByteValue
<1>7. /\ e[0] = 0 /\ e[1] = e[0] + 2 + Len(rs[1].value) /\ e[2] = e[1] + 2 + Len(rs[2].value)
  <2>1. 1 \in 1..2 /\ 2 \in 1..2 /\ 1 - 1 = 0 /\ 2 - 1 = 1
    OBVIOUS
  <2>2. \A i \in 1..2 : e[i] = e[i - 1] + 2 + Len(rs[i].value)
    BY <1>4, <1>5 DEF Placed
  <2> QED
    BY <1>4, <2>1, <2>2 DEF Placed
<1>8. e[0] <= 600 /\ e[1] <= 600 /\ e[2] <= 600
  <2>1. /\ Len(rs[1].value) \in Nat /\ Len(rs[1].value) <= 255
        /\ Len(rs[2].value) \in Nat /\ Len(rs[2].value) <= 255
    BY <1>6
  <2>2. PICK a \in Nat, b \in Nat : a = Len(rs[1].value) /\ b = Len(rs[2].value) /\ a <= 255 /\ b <= 255
    BY <2>1
  <2>3. e[0] = 0 /\ e[1] = 0 + 2 + a /\ e[2] = (0 + 2 + a) + 2 + b
    BY <1>7, <2>2, Zenon
  <2> DEFINE p == e[0]
             q == e[1]
             r == e[2]
  <2>4. p = 0 /\ q = 0 + 2 + a /\ r = (0 + 2 + a) + 2 + b
    BY <2>3
  <2>5. a <= 255 /\ b <= 255
    BY <2>2
  <2> HIDE DEF p, q, r
  <2>6. p <= 600 /\ q <= 600 /\ r <= 600
    BY <2>4, <2>5
  <2> QED
    BY <2>6 DEF p, q, r
<1>9. e[0] \in Nat /\ e[1] \in Nat /\ e[2] \in Nat
  BY <1>4, <1>5 DEF Placed
<1>10. Len(m.body) \in Nat
  BY <1>4, LenProperties
<1> QED
  BY <1>2, <1>4, <1>8, <1>9, <1>10 DEF Carries, Fitting

\* A pairing reply of 80 to 82 bytes.
LEMMA PairingBodyIs ==
  ASSUME NEW n \in {80, 81, 82}, NEW s \in {0, 9}
  PROVE  PairingBody(n, s) \in Seq(Byte) /\ Len(PairingBody(n, s)) = n
<1> DEFINE b == PairingBody(n, s)
<1>1. n \in Nat /\ b = [i \in 1..n |-> IF i = 81 THEN s ELSE (7 * i) % 256]
  BY DEF PairingBody
<1>2. ASSUME NEW i \in 1..n PROVE (IF i = 81 THEN s ELSE (7 * i) % 256) \in Byte
  BY DEF Byte
<1>3. b \in [1..n -> Byte]
  BY <1>1, <1>2
<1> QED
  BY <1>1, <1>3

\* The replies that are read in plaintext are not capabilities.
LEMMA PairingCarries ==
  ASSUME NEW m \in PairingReplies
  PROVE  Carries(m) /\ m.type \in {133, 135, 241, 131}
<1>1. /\ 0 \in Byte /\ 1 \in Byte /\ 27 \in Byte /\ 50 \in Byte
      /\ 133 \in Byte /\ 135 \in Byte /\ 241 \in Byte /\ 131 \in Byte
  BY DEF Byte
<1>2. CASE \E n \in {80, 81, 82}, s \in {0, 9} : m = Message(133, <<>>, PairingBody(n, s))
  <2>1. PICK n \in {80, 81, 82}, s \in {0, 9} : m = Message(133, <<>>, PairingBody(n, s))
    BY <1>2
  <2>2. Fitting(PairingBody(n, s))
    <3>1. PairingBody(n, s) \in Seq(Byte) /\ Len(PairingBody(n, s)) = n
      BY PairingBodyIs, Zenon
    <3>2. n \in Nat /\ n <= 600
      OBVIOUS
    <3> QED
      BY <3>1, <3>2 DEF Fitting
  <2>3. m.type = 133 /\ Carries(m)
    BY <1>1, <2>1, <2>2, SimpleCarries
  <2> QED
    BY <2>3
<1> DEFINE e == Laid(Record(0, <<0>>))
           f == Laid(Record(27, <<50>>))
           o == <<1>>
<1>3. e \in Seq(Byte) /\ Len(e) = 3
  BY <1>1, LaidOne, Zenon
<1>4. f \in Seq(Byte) /\ Len(f) = 3
  BY <1>1, LaidOne, Zenon
<1>5. o \in Seq(Byte) /\ Len(o) = 1
  BY <1>1
<1> DEFINE g == e \o o
           z == <<>>
<1> HIDE DEF e, f, o
<1>6. g \in Seq(Byte) /\ Len(g) = 4
  <2>1. g \in Seq(Byte) /\ Len(g) = Len(e) + Len(o)
    BY <1>3, <1>5, JoinedLength, Zenon
  <2> QED
    BY <1>3, <1>5, <2>1
<1> HIDE DEF g
<1>7. z \in Seq(Byte) /\ Len(z) = 0
  OBVIOUS
<1>8. Fitting(e) /\ Fitting(f) /\ Fitting(g) /\ Fitting(z)
  BY <1>3, <1>4, <1>6, <1>7 DEF Fitting
<1> HIDE DEF z
<1>9. CASE m = Message(135, <<>>, e)
  BY <1>1, <1>8, <1>9, SimpleCarries
<1>10. CASE m = Message(135, <<>>, g)
  BY <1>1, <1>8, <1>10, SimpleCarries
<1>11. CASE m = Message(241, <<>>, z)
  BY <1>1, <1>8, <1>11, SimpleCarries
<1>12. CASE m = Message(131, <<>>, f)
  BY <1>1, <1>8, <1>12, SimpleCarries
<1>13. \/ \E n \in {80, 81, 82}, s \in {0, 9} : m = Message(133, <<>>, PairingBody(n, s))
       \/ m = Message(135, <<>>, e) \/ m = Message(135, <<>>, g)
       \/ m = Message(241, <<>>, z) \/ m = Message(131, <<>>, f)
  BY DEF PairingReplies, e, f, g, o, z
<1> QED
  BY <1>2, <1>9, <1>10, <1>11, <1>12, <1>13

\* Capabilities are of their own type.
LEMMA CapabilityCarries ==
  ASSUME NEW m \in CapabilityReplies
  PROVE  Carries(m) /\ m.type = 136
<1>1. /\ 136 \in Byte /\ 1 \in Byte /\ 200 \in Byte /\ 4 \in Byte /\ 0 \in Byte
  BY DEF Byte
<1>2. /\ Capability(1, 4) \in Items /\ Capability(8, 3) \in Items /\ Capability(1, 2) \in Items
  BY DEF Items, Meant
<1>3. CASE m \in Cuts(136, <<Capability(1, 4), Capability(8, 3)>>)
  BY <1>1, <1>2, <1>3, CutCarries
<1>4. CASE m \in Cuts(136, <<Capability(1, 4), Capability(1, 2)>>)
  BY <1>1, <1>2, <1>4, CutCarries
<1> DEFINE e == Laid(Record(1, <<4, 0>>))
           f == Laid(Record(200, <<1>>))
<1>5. e \in Seq(Byte) /\ Len(e) = 4
  BY <1>1, LaidTwo, Zenon
<1>6. f \in Seq(Byte) /\ Len(f) = 3
  BY <1>1, LaidOne, Zenon
<1> HIDE DEF e, f
<1>7. Fitting(e) /\ Fitting(f)
  BY <1>5, <1>6 DEF Fitting
<1>8. CASE m = Message(136, <<>>, e)
  BY <1>1, <1>7, <1>8, SimpleCarries
<1>9. CASE m = Message(136, <<>>, f)
  BY <1>1, <1>7, <1>9, SimpleCarries
<1> QED
  BY <1>3, <1>4, <1>8, <1>9 DEF CapabilityReplies, e, f

-----------------------------------------------------------------------------
(* Frames that were cut, run on or altered.                                *)

\* A cut of a frame, or what starts with it, agrees with it as far as both go.
Agrees(d, f) == \A i \in 1..Len(f) : i \in 1..Len(d) => d[i] = f[i]

\* A frame run on, or into another, starts like it.
LEMMA LongerAgrees ==
  ASSUME NEW f \in Seq(Byte), NEW t \in Seq(Byte)
  PROVE  f \o t \in Seq(Byte) /\ Agrees(f \o t, f)
<1>1. f \o t \in Seq(Byte)
  BY JoinedLength
<1>2. ASSUME NEW i \in 1..Len(f) PROVE (f \o t)[i] = f[i]
  <2>1. i \in Nat /\ 1 <= i /\ i <= Len(f)
    BY LenProperties
  <2> QED
    BY <2>1, ElementOfFirst
<1> QED
  BY <1>1, <1>2 DEF Agrees

\* Every broken frame agrees with the whole one.
LEMMA BrokenAgrees ==
  ASSUME NEW f \in Seq(Byte), NEW d \in Broken(f)
  PROVE  d \in Seq(Byte) /\ Agrees(d, f)
<1>1. CASE \E n \in 0..Len(f) : d = SubSeq(f, 1, n)
  <2>1. PICK n \in 0..Len(f) : d = SubSeq(f, 1, n)
    BY <1>1
  <2>2. n \in Nat /\ n <= Len(f) /\ 1 \in Nat /\ 1 <= 1
    BY LenProperties
  <2>3. /\ d \in Seq(Byte) /\ Len(d) = IF 1 <= n THEN n - 1 + 1 ELSE 0
        /\ \A i \in 1..(n - 1 + 1) : d[i] = f[1 + i - 1]
    BY <2>1, <2>2, Slice
  <2>4. ASSUME NEW i \in 1..Len(d) PROVE d[i] = f[i]
    <3>1. i \in 1..(n - 1 + 1) /\ 1 + i - 1 = i
      BY <2>2, <2>3
    <3> QED
      BY <2>3, <3>1
  <2> QED
    BY <2>3, <2>4 DEF Agrees
<1>2. CASE \E b \in {0, 84} : d = f \o <<b>>
  <2>1. PICK b \in {0, 84} : d = f \o <<b>>
    BY <1>2
  <2>2. <<b>> \in Seq(Byte)
    BY DEF Byte
  <2> QED
    BY <2>1, <2>2, LongerAgrees, Zenon
<1>3. CASE d = f \o f
  BY <1>3, LongerAgrees, Zenon
<1> QED
  BY <1>1, <1>2, <1>3 DEF Broken

\* Noise changes a byte, or loses one.
Changed(d, f, k) ==
  /\ Len(d) = Len(f) /\ d[k] \in Altered(f[k])
  /\ \A i \in 1..Len(f) : i # k => d[i] = f[i]
Lost(d, f, k) ==
  /\ Len(d) = Len(f) - 1
  /\ \A i \in 1..Len(d) : d[i] = IF i < k THEN f[i] ELSE f[i + 1]

\* A byte has a complement.
LEMMA Complement == ASSUME NEW y \in Byte PROVE 255 - y \in Byte
BY DEF Byte

\* A byte changed.
LEMMA ChangedByte ==
  ASSUME NEW f \in Seq(Byte), NEW k \in 1..Len(f), NEW x \in Altered(f[k])
  PROVE  [f EXCEPT ![k] = x] \in Seq(Byte) /\ Changed([f EXCEPT ![k] = x], f, k)
<1>1. f[k] \in Byte
  BY ElementOfSeq
<1>2. x \in Byte
  <2>1. 1 \in Byte /\ 128 \in Byte
    BY DEF Byte
  <2>2. Xor(f[k], 1) \in Byte /\ Xor(f[k], 128) \in Byte
    BY <1>1, <2>1, XorType
  <2>3. 255 - f[k] \in Byte
    BY <1>1, Complement
  <2> QED
    BY <2>2, <2>3 DEF Altered
<1> DEFINE d == [f EXCEPT ![k] = x]
<1>3. d \in Seq(Byte) /\ Len(d) = Len(f) /\ d[k] = x /\ \A i \in 1..Len(f) : i # k => d[i] = f[i]
  BY <1>2, ExceptSeq
<1> HIDE DEF d
<1>4. d \in Seq(Byte) /\ Changed(d, f, k)
  BY <1>3 DEF Changed
<1> QED
  BY <1>4 DEF d

\* A byte lost.
LEMMA LostByte ==
  ASSUME NEW f \in Seq(Byte), NEW k \in 1..Len(f)
  PROVE  LET d == SubSeq(f, 1, k - 1) \o SubSeq(f, k + 1, Len(f)) IN d \in Seq(Byte) /\ Lost(d, f, k)
<1>1. PICK l \in Nat, p \in Nat, q \in Nat, r \in Nat :
        l = Len(f) /\ p = k - 1 /\ q = k + 1 /\ q <= l + 1 /\ r = l - k
  BY LenProperties
<1> DEFINE a == SubSeq(f, 1, p)
           b == SubSeq(f, q, l)
           d == a \o b
<1>2. a \in Seq(Byte) /\ Len(a) = p /\ \A i \in 1..p : a[i] = f[i]
  <2>1. 1 \in Nat /\ 1 <= 1 /\ p <= Len(f)
    BY <1>1
  <2>2. /\ a \in Seq(Byte) /\ Len(a) = IF 1 <= p THEN p - 1 + 1 ELSE 0
        /\ \A i \in 1..(p - 1 + 1) : a[i] = f[1 + i - 1]
    BY <2>1, Slice
  <2> HIDE DEF a
  <2>3. p - 1 + 1 = p /\ \A i \in 1..p : 1 + i - 1 = i
    OBVIOUS
  <2> QED
    BY <2>2, <2>3
<1>3. b \in Seq(Byte) /\ Len(b) = l - k /\ \A i \in 1..(l - k) : b[i] = f[k + i]
  <2>1. 1 <= q /\ l <= Len(f)
    BY <1>1
  <2>2. /\ b \in Seq(Byte) /\ Len(b) = IF q <= l THEN l - q + 1 ELSE 0
        /\ \A i \in 1..(l - q + 1) : b[i] = f[q + i - 1]
    BY <2>1, Slice
  <2> HIDE DEF b
  <2>3. l - q + 1 = l - k /\ (IF q <= l THEN l - q + 1 ELSE 0) = l - k
        /\ \A i \in 1..(l - k) : q + i - 1 = k + i
    BY <1>1
  <2> QED
    BY <2>2, <2>3
<1> HIDE DEF a, b
<1>4. r = l - k
  BY <1>1
<1>5. d \in Seq(Byte) /\ Joins2(d, a, p, b, r)
  <2>1. Len(a) = p /\ Len(b) = r
    BY <1>2, <1>3, <1>4
  <2> QED
    BY <1>2, <1>3, <2>1, Both, Zenon
<1> HIDE DEF d
<1>6. Len(d) = p + r /\ (\A i \in 1..p : d[i] = a[i]) /\ \A j \in 1..r : d[p + j] = b[j]
  BY <1>5 DEF Joins2
<1>7. Len(d) = l - 1
  BY <1>1, <1>4, <1>6
<1>8. ASSUME NEW i \in 1..Len(d) PROVE d[i] = IF i < k THEN f[i] ELSE f[i + 1]
  <2>1. CASE i < k
    <3>1. i \in 1..p
      BY <1>1, <2>1
    <3> QED
      BY <1>2, <1>6, <2>1, <3>1
  <2>2. CASE ~(i < k)
    <3>1. PICK j \in Nat : j = i - p /\ j \in 1..r /\ j \in 1..(l - k) /\ p + j = i /\ k + j = i + 1
      BY <1>1, <1>4, <1>7, <2>2
    <3>2. d[i] = b[j] /\ b[j] = f[i + 1]
      BY <1>3, <1>6, <3>1
    <3> QED
      BY <2>2, <3>2
  <2> QED
    BY <2>1, <2>2
<1>9. Lost(d, f, k)
  BY <1>1, <1>7, <1>8 DEF Lost
<1> QED
  BY <1>1, <1>5, <1>9 DEF d, a, b

\* All that noise does.
LEMMA NoisyIs ==
  ASSUME NEW f \in Seq(Byte), NEW d \in Noisy(f)
  PROVE  d \in Seq(Byte) /\ \E k \in 1..Len(f) : Changed(d, f, k) \/ Lost(d, f, k)
<1>0. DOMAIN f = 1..Len(f)
  BY LenProperties
<1>1. CASE \E k \in DOMAIN f : \E b \in Altered(f[k]) : d = [f EXCEPT ![k] = b]
  <2>1. PICK k \in 1..Len(f) : \E b \in Altered(f[k]) : d = [f EXCEPT ![k] = b]
    BY <1>0, <1>1
  <2>2. PICK b \in Altered(f[k]) : d = [f EXCEPT ![k] = b]
    BY <2>1
  <2> QED
    BY <2>2, ChangedByte, Zenon
<1>3. CASE \E k \in DOMAIN f : d = SubSeq(f, 1, k - 1) \o SubSeq(f, k + 1, Len(f))
  <2>1. PICK k \in 1..Len(f) : d = SubSeq(f, 1, k - 1) \o SubSeq(f, k + 1, Len(f))
    BY <1>0, <1>3
  <2> QED
    BY <2>1, LostByte, Zenon
<1>4. \/ \E k \in DOMAIN f : \E b \in Altered(f[k]) : d = [f EXCEPT ![k] = b]
      \/ \E k \in DOMAIN f : d = SubSeq(f, 1, k - 1) \o SubSeq(f, k + 1, Len(f))
  BY DEF Noisy
<1> QED
  BY <1>1, <1>3, <1>4, Zenon

-----------------------------------------------------------------------------
(* Saber frames.                                                           *)

\* A sequence number of four bytes.
LEMMA SequenceIs == Sequence \in Seq(Byte) /\ Len(Sequence) = 4
BY DEF Sequence, Byte

\* A length of few bytes takes one byte and part of another.
LEMMA SmallLength ==
  ASSUME NEW l \in Nat, l <= 600 PROVE (l + 10) \div 256 <= 255 /\ (l + 2) \div 256 <= 255
OBVIOUS

\* The frame of a reply over Saber.
LEMMA SaberWhole ==
  ASSUME NEW m, Carries(m)
  PROVE  \E l \in Nat : Command(WholeSaber(m), 11, m.type, m.body, l)
<1>1. PICK l \in Nat : l = Len(m.body) /\ l <= 600
  BY DEF Carries, Fitting
<1>2. (l + 10) \div 256 <= 255
  BY <1>1, SmallLength
<1>3. 11 \in Byte /\ m.type \in Byte /\ m.body \in Seq(Byte)
  BY DEF Byte, Carries, Fitting
<1>4. Command(CommandFrame(Sequence, 11, m.type, m.body), 11, m.type, m.body, l)
  BY <1>1, <1>2, <1>3, SequenceIs, CommandIs
<1> QED
  BY <1>4 DEF WholeSaber

\* Said as sent.
AsSent(d, m, f) ==
  d[14] = m.type /\ SubSeq(d, 15, Len(d) - 2) = m.body /\ Len(d) = Len(f)

\* Whatever the air does to the frame, it says what was sent or is not intact.
LEMMA SaberAsSent ==
  ASSUME NEW m, Carries(m), NEW d \in SaberFrames(m)
  PROVE  d \in Seq(Byte) /\ (Intact(d) => AsSent(d, m, WholeSaber(m)))
<1> DEFINE f == WholeSaber(m)
<1>1. PICK l \in Nat : Command(f, 11, m.type, m.body, l)
  BY SaberWhole
<1>2. d \in Broken(f) \/ d \in Noisy(f) \/ d = From(f, 7)
  BY DEF SaberFrames
<1> HIDE DEF f
<1>3. /\ f \in Seq(Byte) /\ Intact(f) /\ AsSent(f, m, f) /\ f[13] = 11 /\ Len(f) = l + 16
  BY <1>1 DEF Command, AsSent
<1>4. f[8] = 0 /\ Len(f) >= 16
  BY <1>3 DEF Intact
<1>5. CASE d \in Broken(f)
  <2>1. d \in Seq(Byte) /\ Agrees(d, f)
    BY <1>3, <1>5, BrokenAgrees
  <2>2. ASSUME Intact(d) PROVE d = f
    BY <1>3, <2>1, <2>2, NotCut DEF Agrees
  <2> QED
    BY <1>3, <2>1, <2>2 DEF f
<1>6. CASE d \in Noisy(f)
  <2>1. d \in Seq(Byte)
    BY <1>3, <1>6, NoisyIs
  <2>2. PICK k \in 1..Len(f) : Changed(d, f, k) \/ Lost(d, f, k)
    BY <1>3, <1>6, NoisyIs
  <2>3. ASSUME Changed(d, f, k), Intact(d) PROVE AsSent(d, m, f)
    <3>1. Len(f) = Len(d) /\ \A i \in 1..Len(f) : i # k => d[i] = f[i]
      BY <2>3 DEF Changed
    <3>2. d[14] = f[14] /\ SubSeq(d, 15, Len(d) - 2) = SubSeq(f, 15, Len(f) - 2)
      BY <1>3, <2>1, <2>3, <3>1, DamagedByte
    <3> QED
      BY <1>3, <3>1, <3>2 DEF AsSent
  <2>4. ASSUME Lost(d, f, k), Intact(d) PROVE FALSE
    <3>1. Len(d) = Len(f) - 1 /\ \A i \in 1..Len(d) : d[i] = IF i < k THEN f[i] ELSE f[i + 1]
      BY <2>4 DEF Lost
    <3>2. Len(d) >= 16 /\ d[7] = 171
      BY <2>4 DEF Intact
    <3>3. 5 \in 1..Len(d) /\ 6 \in 1..Len(d) /\ 7 \in 1..Len(d)
      <4>1. Len(d) \in Nat
        BY <2>1, LenProperties
      <4> QED
        BY <3>2, <4>1
    <3>4. CASE k <= 7
      <4>1. ~(7 < k) /\ 7 + 1 = 8
        BY <3>4
      <4>2. d[7] = f[8]
        BY <3>1, <3>3, <4>1
      <4> QED
        BY <1>4, <3>2, <4>2
    <3>5. CASE ~(k <= 7)
      <4>1. 5 < k /\ 6 < k
        BY <3>5
      <4>2. d[5] = f[5] /\ d[6] = f[6]
        BY <3>1, <3>3, <4>1
      <4>3. Len(d) = Len(f)
        BY <1>3, <2>1, <2>4, <4>2, SameLength
      <4> QED
        BY <1>3, <3>1, <4>3
    <3> QED
      BY <3>4, <3>5
  <2> QED
    BY <2>1, <2>2, <2>3, <2>4 DEF f
<1>7. CASE d = From(f, 7)
  <2>1. PICK n \in Nat : n = Len(f) /\ n >= 16
    BY <1>3, <1>4
  <2>2. 7 \in Nat /\ 1 <= 7 /\ n <= Len(f)
    BY <2>1
  <2>3. /\ d \in Seq(Byte) /\ \A i \in 1..(n - 7 + 1) : d[i] = f[7 + i - 1]
    BY <1>3, <1>7, <2>1, <2>2, Slice DEF From
  <2>4. 7 \in 1..(n - 7 + 1) /\ 7 + 7 - 1 = 13
    BY <2>1
  <2>5. d[7] = 11
    BY <1>3, <2>3, <2>4
  <2> QED
    BY <2>3, <2>5 DEF Intact
<1> QED
  BY <1>2, <1>5, <1>6, <1>7

\* One bit of a flag, or all of them, never make it the mark of an envelope.
LEMMA NotTheMark ==
  ASSUME NEW x \in {0, 1} PROVE 171 \notin Altered(x) /\ x # 171
<1>1. /\ 0 \div 16 = 0 /\ 0 % 16 = 0 /\ 1 \div 16 = 0 /\ 1 % 16 = 1
      /\ 128 \div 16 = 8 /\ 128 % 16 = 0
  OBVIOUS
<1>2. /\ Nibbles[0][0] = 0 /\ Nibbles[0][1] = 1 /\ Nibbles[0][8] = 8
      /\ Nibbles[1][1] = 0 /\ Nibbles[1][0] = 1
  BY DEF Nibbles
<1>3. /\ Xor(0, 1) = 16 * 0 + 1 /\ Xor(0, 128) = 16 * 8 + 0
      /\ Xor(1, 1) = 16 * 0 + 0 /\ Xor(1, 128) = 16 * 8 + 1
  BY <1>1, <1>2 DEF Xor
<1>4. CASE x = 0
  BY <1>3, <1>4 DEF Altered
<1>5. CASE x = 1
  BY <1>3, <1>5 DEF Altered
<1> QED
  BY <1>4, <1>5

-----------------------------------------------------------------------------
(* SiLabs frames.                                                          *)

\* The frame of a reply over SiLabs, around its message.
SilabsBody(m) == AppliancePayload(11, m.type, m.body)

\* The whole SiLabs frame holds what its length says.
LEMMA SilabsWhole ==
  ASSUME NEW m, Carries(m)
  PROVE  \E l \in Nat : /\ l <= 600 /\ Appliance(SilabsBody(m), 11, m.type, m.body, l)
                        /\ Outgoing(WholeSilabs(m), SilabsBody(m), l + 2, m.type = 136)
<1> DEFINE a == SilabsBody(m)
           enc == m.type = 136
<1>1. PICK l \in Nat : l = Len(m.body) /\ l <= 600
  BY DEF Carries, Fitting
<1>2. 11 \in Byte /\ m.type \in Byte /\ m.body \in Seq(Byte)
  BY DEF Byte, Carries, Fitting
<1>3. Appliance(a, 11, m.type, m.body, l)
  BY <1>1, <1>2, ApplianceIs DEF SilabsBody
<1>4. a \in Seq(Byte) /\ Len(a) = l + 2
  BY <1>3 DEF Appliance
<1>5. PICK q \in Nat : q = l + 2
  OBVIOUS
<1>6. enc \in BOOLEAN /\ WholeSilabs(m) = OutgoingFrame(Sequence, a, enc)
  BY DEF WholeSilabs, SilabsBody
<1> HIDE DEF a, enc
<1>7. Outgoing(OutgoingFrame(Sequence, a, enc), a, q, enc)
  <2>1. Sequence \in Seq(Byte) /\ Len(Sequence) = 4 /\ Len(a) = q
    BY <1>4, <1>5, SequenceIs
  <2> QED
    BY <1>4, <1>6, <2>1, OutgoingIs, Zenon
<1>8. Outgoing(WholeSilabs(m), a, l + 2, enc)
  BY <1>5, <1>6, <1>7, Zenon
<1> QED
  BY <1>1, <1>3, <1>8 DEF a, enc

\* Read as a Saber frame it is refused, whatever the air does to it.
LEMMA SilabsNotSaber ==
  ASSUME NEW m, Carries(m), NEW d \in Broken(WholeSilabs(m)) \cup Noisy(WholeSilabs(m))
  PROVE  d \in Seq(Byte) /\ ~Intact(d)
<1> DEFINE f == WholeSilabs(m)
           a == SilabsBody(m)
<1>1. PICK l \in Nat : /\ Appliance(a, 11, m.type, m.body, l)
                       /\ Outgoing(f, a, l + 2, m.type = 136)
  BY SilabsWhole
<1> HIDE DEF f, a
<1>2. /\ f \in Seq(Byte) /\ Len(f) = (l + 2) + 7
      /\ f[7] = IF m.type = 136 THEN 1 ELSE 0
      /\ Follows(f, 7, a, l + 2)
  BY <1>1 DEF Outgoing
<1>3. f[8] = 11
  <2>1. a[1] = 11
    BY <1>1 DEF Appliance
  <2>2. 1 \in 1..(l + 2) /\ 7 + 1 = 8
    OBVIOUS
  <2> QED
    BY <1>2, <2>1, <2>2 DEF Follows
<1>4. f[7] \in {0, 1} /\ 171 \notin Altered(f[7]) /\ f[7] # 171
  <2>1. f[7] \in {0, 1}
    BY <1>2
  <2> QED
    BY <2>1, NotTheMark
<1>5. 7 \in 1..Len(f)
  BY <1>2
<1>6. CASE d \in Broken(f)
  <2>1. d \in Seq(Byte) /\ Agrees(d, f)
    BY <1>2, <1>6, BrokenAgrees
  <2>2. ASSUME Intact(d) PROVE FALSE
    <3>1. Len(d) >= 16 /\ d[7] = 171 /\ Len(d) \in Nat
      BY <2>1, <2>2, LenProperties DEF Intact
    <3>2. 7 \in 1..Len(d)
      BY <3>1
    <3>3. d[7] = f[7]
      BY <1>5, <2>1, <3>2 DEF Agrees
    <3> QED
      BY <1>4, <3>1, <3>3
  <2> QED
    BY <2>1, <2>2
<1>7. CASE d \in Noisy(f)
  <2>1. d \in Seq(Byte)
    BY <1>2, <1>7, NoisyIs
  <2>2. PICK k \in 1..Len(f) : Changed(d, f, k) \/ Lost(d, f, k)
    BY <1>2, <1>7, NoisyIs
  <2>3. ASSUME Changed(d, f, k), Intact(d) PROVE FALSE
    <3>1. d[7] = 171
      BY <2>3 DEF Intact
    <3>2. d[7] \in Altered(f[7]) \/ d[7] = f[7]
      BY <1>5, <2>3 DEF Changed
    <3> QED
      BY <1>4, <3>1, <3>2
  <2>4. ASSUME Lost(d, f, k), Intact(d) PROVE FALSE
    <3>1. Len(d) >= 16 /\ d[7] = 171 /\ Len(d) \in Nat
      BY <2>1, <2>4, LenProperties DEF Intact
    <3>2. 7 \in 1..Len(d) /\ 7 + 1 = 8
      BY <3>1
    <3>3. d[7] = f[7] \/ d[7] = f[8]
      BY <2>4, <3>2 DEF Lost
    <3> QED
      BY <1>3, <1>4, <3>1, <3>3
  <2> QED
    BY <2>1, <2>2, <2>3, <2>4
<1> QED
  BY <1>6, <1>7 DEF f

\* Read as its own, it is the whole frame, or is refused.
LEMMA SilabsAsSent ==
  ASSUME NEW m, Carries(m), NEW d \in Broken(WholeSilabs(m)), ParseIncomingFrame(d).ok
  PROVE  /\ d = WholeSilabs(m) /\ ParseIncomingFrame(d).body = SilabsBody(m)
         /\ ParseAppliancePayload(SilabsBody(m)) = [ok |-> TRUE, type |-> m.type, body |-> m.body]
<1> DEFINE f == WholeSilabs(m)
           a == SilabsBody(m)
           enc == m.type = 136
<1>1. PICK l \in Nat : /\ l <= 600 /\ Appliance(a, 11, m.type, m.body, l)
                       /\ Outgoing(f, a, l + 2, enc)
  BY SilabsWhole
<1> HIDE DEF f, a, enc
<1>3. f \in Seq(Byte)
  BY <1>1 DEF Outgoing
<1>4. d \in Seq(Byte) /\ Agrees(d, f)
  BY <1>3, BrokenAgrees DEF f
<1>5. /\ a \in Seq(Byte) /\ Len(a) = l + 2 /\ a[2] = m.type /\ From(a, 3) = m.body
  BY <1>1 DEF Appliance
<1>6. PICK q \in Nat : q = l + 2 /\ Len(a) = q /\ q \div 256 <= 255
  <2>1. (l + 2) \div 256 <= 255 /\ l + 2 \in Nat
    BY <1>1, SmallLength
  <2> QED
    BY <1>5, <2>1
<1>7. d = f /\ ParseIncomingFrame(d).body = a
  <2>1. \A i \in 1..Len(f) : i \in 1..Len(d) => d[i] = f[i]
    BY <1>4 DEF Agrees
  <2> QED
    BY <1>1, <1>4, <1>6, <2>1, IncomingIs
<1>8. ParseAppliancePayload(a) = [ok |-> TRUE, type |-> m.type, body |-> m.body]
  <2>1. ~(Len(a) < 2)
    BY <1>5
  <2> QED
    BY <1>5, <2>1 DEF ParseAppliancePayload
<1> QED
  BY <1>7, <1>8 DEF f, a

-----------------------------------------------------------------------------
(* Relayed messages.                                                       *)

\* What the relay delivers.
HubSays(m) ==
  \/ \E items \in Reports : m \in Cuts(131, items)
  \/ \E items \in Statuses : m \in Cuts(128, items)
  \/ m = Message(135, <<>>, <<>>)

\* Its type is a byte and its body is bytes.
LEMMA HubSaysBytes ==
  ASSUME NEW m, HubSays(m)
  PROVE  m.type \in Byte /\ m.body \in Seq(Byte)
<1>1. 131 \in Byte /\ 128 \in Byte /\ 135 \in Byte
  BY DEF Byte
<1>2. Reports \subseteq Seq(Items) /\ Statuses \subseteq Seq(Items)
  <2>1. ReportItems \subseteq Items /\ StatusItems \subseteq Items
    BY DEF Items
  <2>2. Reports \subseteq Seq(ReportItems) /\ Statuses \subseteq Seq(StatusItems)
    BY WireAssumption
  <2> QED
    BY <2>1, <2>2
<1>3. ASSUME NEW type \in Byte, NEW items \in Seq(Items), m \in Cuts(type, items)
      PROVE  m.type \in Byte /\ m.body \in Seq(Byte)
  <2>1. m.type = type /\ \E k, e : EndsWithin(m, items, k, e)
    BY <1>3, CutIs
  <2> QED
    BY <2>1 DEF EndsWithin, Prefixes
<1>4. CASE \E items \in Reports : m \in Cuts(131, items)
  BY <1>1, <1>2, <1>3, <1>4
<1>5. CASE \E items \in Statuses : m \in Cuts(128, items)
  BY <1>1, <1>2, <1>3, <1>5
<1>6. CASE m = Message(135, <<>>, <<>>)
  BY <1>1, <1>6 DEF Message
<1> QED
  BY <1>4, <1>5, <1>6 DEF HubSays

\* A function from the first numbers.
LEMMA OfLength ==
  ASSUME NEW k \in Nat, NEW s \in [1..k -> Byte] PROVE s \in Seq(Byte) /\ Len(s) = k
OBVIOUS

\* The addresses.
LEMMA Addresses ==
  /\ Hub \in Seq(Byte) /\ Len(Hub) = 16 /\ Companion \in Seq(Byte) /\ Len(Companion) = 16
  /\ Other \in Seq(Byte) /\ Len(Other) = 16 /\ Other # Hub /\ Other # Companion
<1>1. /\ Hub = [i \in 1..16 |-> 2] /\ Companion = [i \in 1..16 |-> 3] /\ Other = [i \in 1..16 |-> 4]
  BY DEF Hub, Companion, Other
<1>2. 16 \in Nat /\ 2 \in Byte /\ 3 \in Byte /\ 4 \in Byte /\ 1 \in 1..16
  BY DEF Byte
<1>3. Hub[1] = 2 /\ Companion[1] = 3 /\ Other[1] = 4
  BY <1>1, <1>2
<1>4. Hub \in [1..16 -> Byte] /\ Companion \in [1..16 -> Byte] /\ Other \in [1..16 -> Byte]
  BY <1>1, <1>2
<1>5. /\ Hub \in Seq(Byte) /\ Len(Hub) = 16 /\ Companion \in Seq(Byte) /\ Len(Companion) = 16
      /\ Other \in Seq(Byte) /\ Len(Other) = 16
  BY <1>2, <1>4, OfLength
<1> QED
  BY <1>3, <1>5

\* A routed message of a message.
LEMMA RoutedWhole ==
  ASSUME NEW m, m.type \in Byte, m.body \in Seq(Byte),
         NEW s \in {Hub, Other}, NEW t \in {Companion, Other}, NEW n \in Nat, n = Len(m.body) + 2
  PROVE  Routed(RoutedMessage(s, t, Sequence, 11, m.type, m.body), s, t, n, m.type, m.body)
<1>1. 11 \in Byte
  BY DEF Byte
<1>2. s \in Seq(Byte) /\ Len(s) = 16 /\ t \in Seq(Byte) /\ Len(t) = 16
  BY Addresses
<1> QED
  BY <1>1, <1>2, SequenceIs, RoutedIs

\* What is accepted of the relay is the message that was sent.
LEMMA RoutedAsSent ==
  ASSUME NEW m, m.type \in Byte, m.body \in Seq(Byte), NEW d \in RoutedFrames(m),
         DecodeRoutedMessage(d).ok, DecodeRoutedMessage(d).source = Hub,
         DecodeRoutedMessage(d).target = Companion
  PROVE  /\ d = WholeRouted(m)
         /\ DecodeRoutedMessage(d).type = m.type /\ DecodeRoutedMessage(d).body = m.body
<1> DEFINE f == WholeRouted(m)
           x == RoutedMessage(Other, Companion, Sequence, 11, m.type, m.body)
           y == RoutedMessage(Hub, Other, Sequence, 11, m.type, m.body)
<1>1. PICK n \in Nat : n = Len(m.body) + 2 /\ n >= 2
  BY LenProperties
<1>2. Routed(f, Hub, Companion, n, m.type, m.body)
  BY <1>1, RoutedWhole DEF WholeRouted
<1>3. Routed(x, Other, Companion, n, m.type, m.body) /\ Routed(y, Hub, Other, n, m.type, m.body)
  BY <1>1, RoutedWhole
<1>4. \/ d = f \/ d = [f EXCEPT ![1] = 2] \/ d = [f EXCEPT ![2] = 0]
      \/ d = SubSeq(f, 1, Len(f) - 1) \/ d = f \o <<0>> \/ d = x \/ d = y
  BY DEF RoutedFrames
<1> HIDE DEF f, x, y
<1>5. f \in Seq(Byte) /\ Len(f) = n + 41 /\ 1 \in 1..Len(f) /\ 2 \in 1..Len(f)
  <2>1. f \in Seq(Byte) /\ Len(f) = n + 41
    BY <1>2 DEF Routed
  <2>2. 1 \in 1..(n + 41) /\ 2 \in 1..(n + 41)
    OBVIOUS
  <2> QED
    BY <2>1, <2>2
<1>6. CASE d = f
  <2>1. DecodeRoutedMessage(f).ok
    BY <1>6
  <2>2. DecodeRoutedMessage(f) =
          [ok |-> TRUE, source |-> Hub, target |-> Companion, type |-> m.type, body |-> m.body]
    BY <1>2, <2>1, RoutedRead
  <2> QED
    BY <1>6, <2>2 DEF f
<1>7. 0 \in Byte /\ 2 \in Byte
  BY DEF Byte
<1>8. d # [f EXCEPT ![1] = 2]
  <2> SUFFICES ASSUME d = [f EXCEPT ![1] = 2] PROVE FALSE
    OBVIOUS
  <2>1. d \in Seq(Byte) /\ d[1] = 2
    BY <1>5, <1>7, ExceptSeq
  <2>2. d[1] = 1
    BY <2>1, DecodeRequires
  <2> QED
    BY <2>1, <2>2
<1>9. d # [f EXCEPT ![2] = 0]
  <2> SUFFICES ASSUME d = [f EXCEPT ![2] = 0] PROVE FALSE
    OBVIOUS
  <2>1. d \in Seq(Byte) /\ d[2] = 0
    BY <1>5, <1>7, ExceptSeq
  <2>2. d[2] \in {1, 2}
    BY <2>1, DecodeRequires
  <2> QED
    BY <2>1, <2>2
<1>10. d # SubSeq(f, 1, Len(f) - 1)
  <2> SUFFICES ASSUME d = SubSeq(f, 1, Len(f) - 1) PROVE FALSE
    OBVIOUS
  <2>1. PICK q \in Nat : q = Len(f) - 1 /\ q = n + 40 /\ q <= Len(f) /\ 1 <= q
    BY <1>1, <1>5
  <2>2. 1 \in Nat /\ 1 <= 1
    OBVIOUS
  <2>3. /\ d \in Seq(Byte) /\ Len(d) = IF 1 <= q THEN q - 1 + 1 ELSE 0
        /\ \A i \in 1..(q - 1 + 1) : d[i] = f[1 + i - 1]
    BY <1>5, <2>1, <2>2, Slice
  <2>4. Len(d) = n + 40
    BY <2>1, <2>3
  <2>5. ASSUME NEW i \in 1..Len(f), i \in 1..Len(d) PROVE d[i] = f[i]
    <3>1. i \in 1..(q - 1 + 1) /\ 1 + i - 1 = i
      BY <2>1, <2>4, <2>5
    <3> QED
      BY <2>3, <3>1
  <2>6. \A i \in 1..Len(f) : i \in 1..Len(d) => d[i] = f[i]
    BY <2>5
  <2> QED
    <3>1. Len(d) = n + 40 \/ Len(d) = n + 42
      BY <2>4
    <3>2. d \in Seq(Byte)
      BY <2>3
    <3> QED
      BY <1>2, <2>6, <3>1, <3>2, RoutedResized
<1>11. d # f \o <<0>>
  <2> SUFFICES ASSUME d = f \o << 0 >> PROVE FALSE
    OBVIOUS
  <2> DEFINE z == <<0>>
  <2>1. z \in Seq(Byte) /\ Len(z) = 1
    BY <1>7
  <2> HIDE DEF z
  <2>2. d = f \o z
    BY DEF z
  <2>3. d \in Seq(Byte) /\ Agrees(d, f)
    BY <1>5, <2>1, <2>2, LongerAgrees
  <2>4. Len(d) = Len(f) + Len(z)
    BY <1>5, <2>1, <2>2, JoinedLength
  <2>5. Len(d) = n + 42
    BY <1>5, <2>1, <2>4
  <2> QED
    <3>1. \A i \in 1..Len(f) : i \in 1..Len(d) => d[i] = f[i]
      BY <2>3 DEF Agrees
    <3> QED
      BY <1>2, <2>3, <2>5, <3>1, RoutedResized
<1>12. d # x
  <2> SUFFICES ASSUME d = x PROVE FALSE
    OBVIOUS
  <2>1. DecodeRoutedMessage(d).source = Other
    BY <1>3, RoutedRead
  <2> QED
    BY <2>1, Addresses
<1>13. d # y
  <2> SUFFICES ASSUME d = y PROVE FALSE
    OBVIOUS
  <2>1. DecodeRoutedMessage(d).target = Other
    BY <1>3, RoutedRead
  <2> QED
    BY <2>1, Addresses
<1> QED
  BY <1>4, <1>6, <1>8, <1>9, <1>10, <1>11, <1>12, <1>13

-----------------------------------------------------------------------------
(* What arrives, and what is accepted of it.                               *)

\* What arrives is some frame of the message sent, in the protocol of what
\* sent it.
FrameInv ==
  stage = "arrived" =>
    \/ kind = "saber" /\ sent \in PairingReplies /\ frame \in SaberFrames(sent)
    \/ kind = "silabs" /\ sent \in Replies /\ frame \in SilabsFrames(sent)
    \/ kind = "hub" /\ HubSays(sent) /\ frame \in RoutedFrames(sent)

\* Nothing has arrived at first,
LEMMA FrameInit == Init => FrameInv
BY DEF Init, FrameInv

\* and what arrives came by Arrive.
LEMMA FrameStep == FrameInv /\ [Next]_vars => FrameInv'
<1> SUFFICES ASSUME FrameInv, [Next]_vars PROVE FrameInv'
  OBVIOUS
<1>1. CASE Arrive
  <2>1. UNCHANGED <<kind, evidence>>
    BY <1>1 DEF Arrive, linkVars
  <2>2. CASE kind = "saber" /\ \E m \in PairingReplies : sent' = m /\ frame' \in SaberFrames(m)
    BY <2>1, <2>2 DEF FrameInv
  <2>3. CASE kind = "silabs" /\ \E m \in PairingReplies \cup CapabilityReplies :
               sent' = m /\ frame' \in SilabsFrames(m)
    <3>1. sent' \in Replies /\ frame' \in SilabsFrames(sent')
      BY <2>3 DEF Replies
    <3>2. SilabsFrames(sent)' = SilabsFrames(sent')
      BY <2>1 DEF SilabsFrames
    <3> QED
      BY <2>1, <2>3, <3>1, <3>2 DEF FrameInv
  <2>4. CASE kind = "hub" /\ \E m \in (UNION {Cuts(131, items) : items \in Reports})
                      \cup (UNION {Cuts(128, items) : items \in Statuses})
                      \cup {Message(135, <<>>, <<>>)} : sent' = m /\ frame' \in RoutedFrames(m)
    <3>1. HubSays(sent') /\ frame' \in RoutedFrames(sent')
      BY <2>4 DEF HubSays
    <3> QED
      BY <2>1, <2>4, <3>1 DEF FrameInv, HubSays
  <2> QED
    BY <1>1, <2>2, <2>3, <2>4 DEF Arrive
<1>2. CASE Discover \/ QualifyGatt \/ RequireSupport \/ ChooseHub
  BY <1>2 DEF Discover, QualifyGatt, RequireSupport, ChooseHub, FrameInv
<1>3. CASE Receive \/ ListenOn \/ ScanStep \/ ReadNested
  BY <1>3 DEF Receive, ListenOn, Done, ScanStep, ReadNested, Read, FrameInv
<1>4. CASE ReadError \/ ReadCapabilities \/ ReadAppliance \/ Publish
  BY <1>4 DEF ReadError, ReadCapabilities, ReadAppliance, Publish, Read, Dismiss, Done, FrameInv
<1>5. CASE UNCHANGED vars
  BY <1>5 DEF FrameInv, vars, linkVars, SilabsFrames
<1> QED
  BY <1>1, <1>2, <1>3, <1>4, <1>5 DEF Next

\* What carries what over Bluetooth.
LEMMA ReplyCarries == \A m \in Replies : Carries(m)
BY PairingCarries, CapabilityCarries DEF Replies

\* A frame read as Saber is a sequence of bytes, and says what was sent by a
\* controller of that family, or is not intact.
LEMMA SaberReads ==
  ASSUME LinkInv, FrameInv, stage = "arrived", evidence.family = "saber"
  PROVE  /\ frame \in Seq(Byte)
         /\ Intact(frame) => kind = "saber" /\ AsSent(frame, sent, WholeSaber(sent))
<1>1. kind # "hub"
  <2> SUFFICES ASSUME kind = "hub" PROVE FALSE
    OBVIOUS
  <2>1. evidence = Evidence("cloud", "authenticated")
    BY DEF LinkInv, Reading, Controllers
  <2> QED
    BY <2>1 DEF Evidence
<1>2. CASE kind = "saber" /\ sent \in PairingReplies /\ frame \in SaberFrames(sent)
  <2>1. Carries(sent)
    BY <1>2, PairingCarries
  <2> QED
    BY <1>2, <2>1, SaberAsSent
<1>3. CASE kind = "silabs" /\ sent \in Replies /\ frame \in SilabsFrames(sent)
  <2>1. Carries(sent)
    BY <1>3, ReplyCarries
  <2>2. frame \in Broken(WholeSilabs(sent)) \cup Noisy(WholeSilabs(sent))
    BY <1>3 DEF SilabsFrames
  <2> QED
    BY <2>1, <2>2, SilabsNotSaber
<1> QED
  BY <1>1, <1>2, <1>3 DEF FrameInv

\* Both tests come to whether the frame is intact and of a reply's type.
LEMMA RouterOf == LinkInv /\ FrameInv => RouterAgrees
BY SaberReads, RouterAndDecoder DEF RouterAgrees

\* What is accepted is one message, whole, as it was sent.
LEMMA AcceptedOf == LinkInv /\ FrameInv => AcceptedAsSent
<1> SUFFICES ASSUME LinkInv, FrameInv, stage = "arrived", Accepted.ok
             PROVE  /\ Accepted.type = sent.type /\ Accepted.body = sent.body
                    /\ \/ kind = "saber" /\ evidence.family = "saber" /\ Len(frame) = Len(WholeSaber(sent))
                       \/ /\ kind = "silabs" /\ evidence.family = "silabs_appliance"
                          /\ frame = WholeSilabs(sent)
                       \/ kind = "hub" /\ frame = WholeRouted(sent)
  BY DEF AcceptedAsSent
<1>1. \A f, q : Evidence(f, q).family = f
  BY DEF Evidence
<1>2. ~Refused.ok
  BY DEF Refused
<1>3. CASE evidence.family = "saber"
  <2>1. Accepted = PairingPayload(frame)
    BY <1>3 DEF Accepted
  <2>2. Payload(frame).ok /\ Accepted = Payload(frame)
    BY <1>2, <2>1 DEF PairingPayload
  <2>3. frame \in Seq(Byte) /\ (Intact(frame) => kind = "saber" /\ AsSent(frame, sent, WholeSaber(sent)))
    BY <1>3, SaberReads
  <2>4. /\ Intact(frame)
        /\ Payload(frame) = [ok |-> TRUE, type |-> frame[14], body |-> SubSeq(frame, 15, Len(frame) - 2)]
    BY <2>2, <2>3, PayloadOf
  <2> QED
    BY <1>3, <2>2, <2>3, <2>4 DEF AsSent
<1>4. CASE kind = "silabs" /\ evidence.family = "silabs_appliance"
  <2>1. sent \in Replies /\ frame \in Broken(WholeSilabs(sent))
    BY <1>4 DEF FrameInv, SilabsFrames
  <2> DEFINE f == ParseIncomingFrame(frame)
             p == IF f.ok THEN ParseAppliancePayload(f.body) ELSE Refused
  <2>2. Accepted = IF p.ok /\ p.type \in (IF f.encrypted THEN {136} ELSE {133, 135}) THEN p ELSE Refused
    BY <1>4 DEF Accepted
  <2>3. p.ok /\ Accepted = p
    <3> HIDE DEF p
    <3> QED
      BY <1>2, <2>2
  <2>4. f.ok /\ p = ParseAppliancePayload(f.body)
    BY <1>2, <2>3
  <2>5. Carries(sent)
    BY <2>1, ReplyCarries
  <2>6. /\ frame = WholeSilabs(sent) /\ f.body = SilabsBody(sent)
        /\ ParseAppliancePayload(SilabsBody(sent)) = [ok |-> TRUE, type |-> sent.type, body |-> sent.body]
    BY <2>1, <2>4, <2>5, SilabsAsSent
  <2> HIDE DEF f, p
  <2> QED
    BY <1>4, <2>3, <2>4, <2>6
<1>5. CASE kind = "hub"
  <2>1. evidence = Evidence("cloud", "authenticated")
    BY <1>5 DEF LinkInv, Reading, Controllers
  <2>2. HubSays(sent) /\ frame \in RoutedFrames(sent)
    BY <1>5 DEF FrameInv
  <2> DEFINE r == DecodeRoutedMessage(frame)
             ok == r.ok /\ r.source = Hub /\ r.target = Companion /\ r.type # 135
  <2>3. Accepted = IF ok THEN [ok |-> TRUE, type |-> r.type, body |-> r.body] ELSE Refused
    BY <1>1, <2>1 DEF Accepted
  <2>4. ok
    <3> HIDE DEF ok, r
    <3> QED
      BY <1>2, <2>3
  <2>5. frame = WholeRouted(sent) /\ r.type = sent.type /\ r.body = sent.body
    BY <2>2, <2>4, HubSaysBytes, RoutedAsSent
  <2> HIDE DEF r
  <2> QED
    BY <1>5, <2>3, <2>4, <2>5
<1>6. \/ evidence.family = "saber"
      \/ kind = "silabs" /\ evidence.family = "silabs_appliance"
      \/ kind = "hub"
  <2>1. CASE kind # "hub"
    <3>1. \/ kind = "saber" /\ evidence = Evidence("saber", "pairing_ready")
          \/ kind = "silabs" /\ evidence = Evidence("silabs_appliance", "needs_secure_session")
          \/ evidence = Evidence("saber", "name_only")
      BY <2>1, Linked DEF Reading
    <3>2. Evidence("saber", "pairing_ready").family = "saber" /\ Evidence("saber", "name_only").family = "saber"
      BY <1>1
    <3>3. Evidence("silabs_appliance", "needs_secure_session").family = "silabs_appliance"
      BY <1>1
    <3>4. CASE kind = "saber" /\ evidence = Evidence("saber", "pairing_ready")
      BY <3>2, <3>4
    <3>5. CASE kind = "silabs" /\ evidence = Evidence("silabs_appliance", "needs_secure_session")
      BY <3>3, <3>5
    <3>6. CASE evidence = Evidence("saber", "name_only")
      BY <3>2, <3>6
    <3> QED
      BY <3>1, <3>4, <3>5, <3>6
  <2> QED
    BY <2>1
<1> QED
  BY <1>3, <1>4, <1>5, <1>6

\* The test that reserves a reply its place in the queue, is_pairing_response_frame,
\* and the decoder that later reads it agree on every frame (saber_frames.py).
THEOREM RouterAndDecoderAgree == Spec => []RouterAgrees
BY LinkInit, LinkStep, FrameInit, FrameStep, RouterOf, PTL DEF Spec

\* What is accepted of a frame, whole or broken, is what was sent, in the
\* sender's own protocol: saber_frames.py, silabs_serial.py and jci_codec.py.
THEOREM AcceptedIsAsSent == Spec => []AcceptedAsSent
BY LinkInit, LinkStep, FrameInit, FrameStep, AcceptedOf, PTL DEF Spec

-----------------------------------------------------------------------------
(* The items of the relay.                                                 *)

\* The relay's statuses.
Reported(m) == \E items \in Reports : m \in Cuts(131, items)
Cooked(m) == \E items \in Statuses : m \in Cuts(128, items)

\* A message of items, and the records read of it: the first of its items.
Listed(m) == m.items \in Seq(Items) /\ \E items \in Seq(Items) : \E k, e : EndsWithin(m, items, k, e)
ReadAs(m, f) ==
  /\ f \in Seq(Records) /\ Len(f) <= Len(m.items)
  /\ \A i \in 1..Len(f) : f[i] = AsRecord(m.items[i])

\* The items of a cut are items of the list.
LEMMA CutListed ==
  ASSUME NEW R, R \subseteq Items, NEW type, NEW items \in Seq(R), NEW m \in Cuts(type, items)
  PROVE  m.type = type /\ m.items \in Seq(R) /\ Listed(m) /\ m.body \in Seq(Byte)
<1>1. items \in Seq(Items)
  BY SeqMonotonic
<1>2. m.type = type /\ \E k, e : EndsWithin(m, items, k, e)
  BY <1>1, CutIs
<1>3. PICK k, e : EndsWithin(m, items, k, e)
  BY <1>2
<1>4. k \in 0..Len(items) /\ m.items = SubSeq(items, 1, k) /\ m.body \in Seq(Byte)
  BY <1>3 DEF EndsWithin, Prefixes
<1>5. k \in Nat /\ k <= Len(items)
  BY <1>4, LenProperties
<1>6. m.items \in Seq(R)
  BY <1>4, <1>5, FirstOf
<1>7. m.items \in Seq(Items)
  BY <1>6, SeqMonotonic
<1> QED
  BY <1>1, <1>2, <1>3, <1>4, <1>6, <1>7 DEF Listed

\* What a scan of it has read when it stops, and when that is all of it.
LEMMA ListRead ==
  ASSUME NEW m, Listed(m), payload = m.body, TlvInv, ~scanning
  PROVE  /\ ReadAs(m, found)
         /\ tail = <<>> => Len(found) = Len(m.items)
         /\ IsWhole(m) => Len(found) = Len(m.items)
<1>0. PICK items \in Seq(Items) : \E k, e : EndsWithin(m, items, k, e)
  BY DEF Listed
<1>1. PICK k, e : EndsWithin(m, items, k, e)
  BY <1>0
<1> DEFINE rs == AsRecords(items)
<1>2. /\ rs \in Seq(Short) /\ Len(rs) = Len(items) /\ Len(items) \in Nat
      /\ \A i \in 1..Len(items) : rs[i] = AsRecord(items[i])
      /\ Body(items) = Bytes(rs)
  BY ListShort
<1>3. /\ k \in 0..Len(rs) /\ Placed(rs, e) /\ m.items = SubSeq(items, 1, k)
      /\ Prefixes(payload, Bytes(rs)) /\ Len(payload) <= e[k]
      /\ k # 0 => Len(payload) > e[k - 1]
  BY <1>1, <1>2 DEF EndsWithin
<1>4. Len(m.items) = k /\ m.items \in Seq(Items) /\ \A i \in 1..k : m.items[i] = items[i]
  BY <1>2, <1>3, FirstItems
<1> HIDE DEF rs
<1>5. Len(found) <= k /\ \A i \in 1..Len(found) : found[i] = rs[i]
  BY <1>2, <1>3, ReadAsLaid DEF TlvInv
<1>6. found \in Seq(Records) /\ Len(found) \in Nat /\ k \in Nat
  BY <1>2, <1>3, LenProperties DEF TlvInv, TlvTypeOK
<1>7. \A i \in 1..Len(found) : found[i] = AsRecord(m.items[i])
  <2> TAKE i \in 1..Len(found)
  <2>1. i \in 1..k /\ i \in 1..Len(items)
    BY <1>2, <1>3, <1>5, <1>6
  <2> QED
    BY <1>2, <1>4, <1>5, <2>1
<1>8. ReadAs(m, found)
  BY <1>4, <1>5, <1>6, <1>7 DEF ReadAs
<1>9. ASSUME tail = <<>> PROVE Len(found) = k
  BY <1>2, <1>3, <1>9, CompleteRead
<1>10. ASSUME IsWhole(m) PROVE Len(found) = k
  <2>1. m.body = Body(m.items) /\ Len(m.items) <= MaxRecords
    BY <1>10 DEF IsWhole
  <2> DEFINE ms == AsRecords(m.items)
  <2>2. ms \in Seq(Short) /\ Len(ms) = k /\ payload = Bytes(ms) /\ Len(ms) <= MaxRecords
    BY <1>4, <2>1, ListShort
  <2> HIDE DEF ms
  <2>3. found = ms
    BY <2>2, WholeRead
  <2> QED
    BY <2>2, <2>3
<1> QED
  BY <1>4, <1>8, <1>9, <1>10

\* The records of the items of a cook status, by what they are about.
LEMMA CookItem ==
  ASSUME NEW x \in StatusItems
  PROVE  /\ x.key \in Degrees \cup Nests \cup {"mode"}
         /\ x.key \in Degrees => x.value \in Int16 /\ AsRecord(x).value = LittleEndian(x.value, 2)
         /\ x.key = "mode" => x.value \in Byte /\ AsRecord(x).value = <<x.value>>
         /\ x.key \in Nests => x.value \in RowValues /\ AsRecord(x).value = RowBytes(x.key, x.value)
         /\ AsRecord(x).tag = 1 <=> x.key = "target"
         /\ AsRecord(x).tag = 2 <=> x.key = "display"
         /\ AsRecord(x).tag = 3 <=> x.key = "mode"
         /\ AsRecord(x).tag = 4 <=> x.key = "probe"
         /\ AsRecord(x).tag = 5 <=> FALSE
         /\ AsRecord(x).tag = 6 <=> x.key = "timer"
         /\ AsRecord(x).tag = 7 <=> x.key = "burner"
         /\ AsRecord(x).tag = 13 <=> x.key = "actual"
         /\ AsRecord(x).tag = 15 <=> x.key = "whole_degrees"
<1> DEFINE t == AsRecord(x).tag
           v == AsRecord(x).value
<1>0. \A a, b : Record(a, b).tag = a /\ Record(a, b).value = b
  BY DEF Record
<1>1. \/ x.key \in Degrees /\ x.value \in Int16
      \/ x.key = "mode" /\ x.value \in Byte
      \/ x.key \in Nests /\ x.value \in RowValues
  BY DEF StatusItems, RowValues, Degrees, Nests
<1>2. CASE x.key = "target"
  <2>0. AsRecord(x) = Record(1, LittleEndian(x.value, 2))
    BY <1>2, RecordOf, Zenon
  <2>1. t = 1 /\ v = LittleEndian(x.value, 2)
    BY <1>0, <2>0
  <2> HIDE DEF t, v
  <2> QED
    BY <1>1, <1>2, <2>1 DEF Degrees, Nests, t, v
<1>3. CASE x.key = "display"
  <2>0. AsRecord(x) = Record(2, LittleEndian(x.value, 2))
    BY <1>3, RecordOf, Zenon
  <2>1. t = 2 /\ v = LittleEndian(x.value, 2)
    BY <1>0, <2>0
  <2> HIDE DEF t, v
  <2> QED
    BY <1>1, <1>3, <2>1 DEF Degrees, Nests, t, v
<1>4. CASE x.key = "actual"
  <2>0. AsRecord(x) = Record(13, LittleEndian(x.value, 2))
    BY <1>4, RecordOf, Zenon
  <2>1. t = 13 /\ v = LittleEndian(x.value, 2)
    BY <1>0, <2>0
  <2> HIDE DEF t, v
  <2> QED
    BY <1>1, <1>4, <2>1 DEF Degrees, Nests, t, v
<1>5. CASE x.key = "whole_degrees"
  <2>0. AsRecord(x) = Record(15, LittleEndian(x.value, 2))
    BY <1>5, RecordOf, Zenon
  <2>1. t = 15 /\ v = LittleEndian(x.value, 2)
    BY <1>0, <2>0
  <2> HIDE DEF t, v
  <2> QED
    BY <1>1, <1>5, <2>1 DEF Degrees, Nests, t, v
<1>6. CASE x.key = "mode"
  <2>0. AsRecord(x) = Record(3, <<x.value>>)
    BY <1>6, RecordOf, Zenon
  <2>1. t = 3 /\ v = <<x.value>>
    BY <1>0, <2>0
  <2> HIDE DEF t, v
  <2> QED
    BY <1>1, <1>6, <2>1 DEF Degrees, Nests, t, v
<1>7. CASE x.key \in Nests
  <2>0. AsRecord(x) = Record(RowTag[x.key], RowBytes(x.key, x.value))
    BY <1>7, RecordOf, Zenon DEF Nests
  <2>1. t = RowTag[x.key] /\ v = RowBytes(x.key, x.value)
    BY <1>0, <2>0
  <2> HIDE DEF t, v
  <2> QED
    BY <1>1, <1>7, <2>1, RowKeys DEF Degrees, Nests, t, v
<1> QED
  BY <1>1, <1>2, <1>3, <1>4, <1>5, <1>6, <1>7 DEF Degrees

\* Those of an appliance status.
LEMMA ReportItem ==
  ASSUME NEW x \in ReportItems
  PROVE  /\ x = AnItem(x.key, x.value)
         /\ \/ x.key = "battery" /\ x.value \in Byte /\ AsRecord(x) = Record(1, <<x.value>>)
            \/ /\ x.key = "charging" /\ x.value \in BOOLEAN
               /\ AsRecord(x) = Record(2, <<IF x.value THEN 1 ELSE 0>>)
            \/ x.key = "wifi" /\ x.value \in Int32 /\ AsRecord(x) = Record(10, LittleEndian(x.value, 4))
            \/ x.key = "device" /\ x.value \in Byte /\ AsRecord(x) = Record(17, <<x.value>>)
            \/ x.key = "fuel_level" /\ x.value \in Byte /\ AsRecord(x) = Record(20, <<x.value>>)
            \/ x.key = "fuel_percent" /\ x.value \in Byte /\ AsRecord(x) = Record(27, <<x.value>>)
<1>1. x = AnItem(x.key, x.value)
  BY DEF ReportItems, AnItem
<1>2. \/ x.key = "battery" /\ x.value \in Byte
      \/ x.key = "device" /\ x.value \in Byte
      \/ x.key = "fuel_level" /\ x.value \in Byte
      \/ x.key = "fuel_percent" /\ x.value \in Byte
      \/ x.key = "charging" /\ x.value \in BOOLEAN
      \/ x.key = "wifi" /\ x.value \in Int32
  BY DEF ReportItems
<1>3. x.key = "battery" => AsRecord(x) = Record(1, <<x.value>>)
  BY RecordOf, Zenon
<1>4. x.key = "charging" => AsRecord(x) = Record(2, <<IF x.value THEN 1 ELSE 0>>)
  BY RecordOf, Zenon
<1>5. x.key = "wifi" => AsRecord(x) = Record(10, LittleEndian(x.value, 4))
  BY RecordOf, Zenon
<1>6. x.key = "device" => AsRecord(x) = Record(17, <<x.value>>)
  BY RecordOf, Zenon
<1>7. x.key = "fuel_level" => AsRecord(x) = Record(20, <<x.value>>)
  BY RecordOf, Zenon
<1>8. x.key = "fuel_percent" => AsRecord(x) = Record(27, <<x.value>>)
  BY RecordOf, Zenon
<1> QED
  BY <1>1, <1>2, <1>3, <1>4, <1>5, <1>6, <1>7, <1>8, Zenon

-----------------------------------------------------------------------------
(* Rows.                                                                   *)

\* What is read of a row of its records: nothing before its number has
\* come, and all of it when all of it came.
RowRead(key, v, f) ==
  /\ f \in Seq(Records) /\ Len(f) <= Len(RowRecords(key, v))
  /\ \A j \in 1..Len(f) : f[j] = RowRecords(key, v)[j]
  /\ Len(f) = 0 <=> v.kept < 3
  /\ v.kept >= Len(Bytes(RowRecords(key, v))) => Len(f) = Len(RowRecords(key, v))

\* Its layout: its number is three bytes.
LEMMA RowEnds ==
  ASSUME NEW v \in RowValues, NEW key \in Nests
  PROVE  /\ RowRecords(key, v) \in Seq(Short)
         /\ Len(RowRecords(key, v)) \in {2, 3} /\ Len(Bytes(RowRecords(key, v))) \in {6, 10}
         /\ \E e : Placed(RowRecords(key, v), e) /\ e[0] = 0 /\ e[1] = 3
<1>1. CASE key = "probe"
  BY <1>1, RowShort, ThreeEnds
<1>2. CASE key = "timer"
  BY <1>2, RowShort, TwoEnds
<1>3. CASE key = "burner"
  BY <1>3, RowShort, TwoEnds
<1> QED
  BY <1>1, <1>2, <1>3 DEF Nests

\* The caps on records leave room for the rows a status can hold.
LEMMA RoomForRows == MaxRecords \in Nat /\ MaxRecords >= 3
BY TlvAssumption, WireAssumption

\* A scan that has found nothing though there are three bytes and more.
LEMMA FoundNone ==
  ASSUME TlvInv, ~scanning, Len(found) = 0, index = 0, payload[2] = 1, Len(payload) >= 3
  PROVE  FALSE
<1>1. End = 3
  BY DEF End
<1>2. Len(payload) \in Nat
  BY LenProperties DEF TlvInv, TlvTypeOK
<1> QED
  BY <1>1, <1>2, RoomForRows DEF TlvInv, Stopped

\* A row's records read back are the first of the records laid out for it.
LEMMA NestedRead ==
  ASSUME NEW v \in RowValues, NEW key \in Nests, payload = RowBytes(key, v), TlvInv, ~scanning
  PROVE  RowRead(key, v, found)
<1> DEFINE rs == RowRecords(key, v)
           n == Len(rs)
           b == Bytes(rs)
           l == Len(b)
           c == Len(found)
<1>1. rs \in Seq(Short) /\ n \in {2, 3} /\ l \in {6, 10}
  BY RowEnds
<1>2. PICK e : Placed(rs, e) /\ e[0] = 0 /\ e[1] = 3
  BY RowEnds
<1>3. /\ Prefixes(payload, b) /\ payload \in Seq(Byte)
      /\ Len(payload) = IF v.kept < l THEN v.kept ELSE l
  BY RowSent DEF Nests
<1>4. v.kept \in Nat /\ Len(payload) \in Nat /\ c \in Nat /\ found \in Seq(Records) /\ index <= Len(payload)
  BY RowIs, LenProperties DEF TlvInv, TlvTypeOK
<1> HIDE DEF rs
<1>5. e[n] = l /\ n \in 0..n /\ e \in [0..n -> Nat]
  BY <1>1, <1>2 DEF Placed
<1>6. c <= n /\ index = e[c] /\ \A j \in 1..c : found[j] = rs[j]
  <2>1. Len(payload) <= e[n]
    BY <1>1, <1>3, <1>4, <1>5
  <2> QED
    BY <1>1, <1>2, <1>3, <1>5, <2>1, ReadAsLaid DEF TlvInv
<1> HIDE DEF n, b, l
<1>7. ASSUME c = 0, ~(v.kept < 3) PROVE FALSE
  <2>1. index = 0 /\ Len(payload) >= 3
    BY <1>1, <1>2, <1>3, <1>4, <1>6, <1>7
  <2>2. payload[2] = 1
    <3>1. payload[2] = b[2]
      BY <1>3, <1>4, <2>1 DEF Prefixes
    <3>2. 1 \in 1..n /\ 1 - 1 = 0
      BY <1>1
    <3>3. b[e[0] + 2] = Len(rs[1].value) /\ e[1] = e[0] + 2 + Len(rs[1].value)
      BY <1>2, <3>2 DEF Placed, b, n
    <3>4. rs[1] \in Short
      BY <1>1, <3>2, ElementOfSeq DEF n
    <3>5. Len(rs[1].value) \in Nat
      BY <3>4, ShortRecord
    <3> DEFINE w == Len(rs[1].value)
    <3>6. 3 = 0 + 2 + w /\ b[0 + 2] = w /\ w \in Nat
      BY <1>2, <3>3, <3>5
    <3> HIDE DEF w
    <3>7. w = 1
      BY <3>6
    <3> QED
      BY <3>1, <3>6, <3>7
  <2> QED
    BY <1>7, <2>1, <2>2, FoundNone
<1>8. ASSUME c # 0, v.kept < 3 PROVE FALSE
  <2>1. 1 \in 0..c /\ c \in 0..n
    BY <1>1, <1>4, <1>6, <1>8
  <2>2. e[1] <= e[c]
    BY <1>1, <1>2, <2>1, EndsRise DEF n
  <2>3. e[c] \in Nat /\ e[c] <= Len(payload) /\ Len(payload) < 3
    BY <1>1, <1>3, <1>4, <1>5, <1>6, <1>8, <2>1
  <2>4. PICK p \in Nat : p = e[c]
    BY <2>3
  <2>5. 3 <= p /\ p <= Len(payload) /\ Len(payload) < 3
    BY <1>2, <2>2, <2>3, <2>4
  <2> QED
    BY <1>4, <2>5
<1>9. ASSUME v.kept >= l PROVE c = n
  <2>1. Len(payload) = l
    BY <1>1, <1>3, <1>4, <1>9
  <2>2. payload = b
    <3>1. b \in Seq(Byte)
      BY <1>1, RecordLayout DEF b
    <3>2. Len(payload) = Len(b) /\ \A j \in 1..Len(payload) : payload[j] = b[j]
      BY <1>3, <2>1 DEF Prefixes, l
    <3> QED
      BY <1>3, <3>1, <3>2, SeqEqual
  <2>3. Len(rs) <= MaxRecords
    <3>1. n \in Nat /\ n <= 3
      BY <1>1
    <3>2. n <= MaxRecords
      BY <3>1, RoomForRows
    <3> QED
      BY <3>2 DEF n
  <2>4. found = rs
    BY <1>1, <2>2, <2>3, WholeRead DEF b
  <2> QED
    BY <2>4 DEF n
<1> QED
  BY <1>4, <1>6, <1>7, <1>8, <1>9 DEF RowRead, rs, n, b, l

-----------------------------------------------------------------------------
(* The scan of what was accepted.                                          *)

\* A message is what its type says.
Due(m) ==
  /\ m.type = 131 => Reported(m)
  /\ m.type = 128 => Cooked(m)
  /\ m.type = 136 => m \in CapabilityReplies

\* The row kept for an item.
RowOfItem(x, r) ==
  \E f : RowRead(x.key, x.value, f) /\ r = [tag |-> RowTag[x.key], row |-> RowOf(RowTag[x.key], f)]

Complete(m, f) == IsWhole(m) => Len(f) = Len(m.items)
Before(records, i) == {j \in Nested(records) : j < i}

\* Where the scans of a message stand: in the message itself, or in one of
\* the records nested in what was read of it, the rows before it read.
NestInv ==
  IF nest.at = 0 THEN nest = NoNest /\ payload = sent.body
  ELSE /\ sent.type = 128 /\ ReadAs(sent, nest.outer) /\ Complete(sent, nest.outer)
       /\ nest.at \in Nested(nest.outer) /\ payload = nest.outer[nest.at].value
       /\ DOMAIN nest.rows = Before(nest.outer, nest.at)
       /\ \A i \in DOMAIN nest.rows : RowOfItem(sent.items[i], nest.rows[i])

\* What is scanned is what was sent.
ScanInv ==
  /\ TlvInv
  /\ stage = "scanning" => got.type = sent.type /\ Due(sent) /\ NestInv
  /\ stage # "scanning" => nest = NoNest

\* The items of a cook status, and those of an appliance status.
LEMMA CookedIs ==
  ASSUME NEW m, Cooked(m)
  PROVE  m.type = 128 /\ m.items \in Seq(StatusItems) /\ Listed(m) /\ m.body \in Seq(Byte)
<1>1. PICK items \in Statuses : m \in Cuts(128, items)
  BY DEF Cooked
<1>2. items \in Seq(StatusItems) /\ StatusItems \subseteq Items
  BY WireAssumption DEF Items
<1> QED
  BY <1>1, <1>2, CutListed

\* So has a report.
LEMMA ReportedIs ==
  ASSUME NEW m, Reported(m)
  PROVE  m.type = 131 /\ m.items \in Seq(ReportItems) /\ Listed(m) /\ m.body \in Seq(Byte)
<1>1. PICK items \in Reports : m \in Cuts(131, items)
  BY DEF Reported
<1>2. items \in Seq(ReportItems) /\ ReportItems \subseteq Items
  BY WireAssumption DEF Items
<1> QED
  BY <1>1, <1>2, CutListed

\* The item that a record that nests a row was made of.
LEMMA NestedItem ==
  ASSUME NEW m, NEW f, m.items \in Seq(StatusItems), ReadAs(m, f), NEW i \in Nested(f)
  PROVE  /\ i \in 1..Len(f) /\ i \in 1..Len(m.items) /\ m.items[i].key \in Nests
         /\ m.items[i].value \in RowValues
         /\ f[i].tag = RowTag[m.items[i].key]
         /\ f[i].value = RowBytes(m.items[i].key, m.items[i].value)
<1>1. DOMAIN f = 1..Len(f) /\ Len(f) \in Nat /\ Len(m.items) \in Nat /\ Len(f) <= Len(m.items)
  BY LenProperties DEF ReadAs
<1>2. i \in 1..Len(f) /\ f[i].tag \in 4..7
  BY <1>1 DEF Nested
<1>3. i \in 1..Len(m.items)
  BY <1>1, <1>2
<1>4. m.items[i] \in StatusItems /\ f[i] = AsRecord(m.items[i])
  BY <1>2, <1>3, ElementOfSeq DEF ReadAs
<1> DEFINE x == m.items[i]
<1> HIDE DEF x
<1>5. x \in StatusItems /\ f[i] = AsRecord(x) /\ AsRecord(x).tag \in 4..7
  BY <1>2, <1>4 DEF x
<1>6. AsRecord(x).tag = 4 \/ AsRecord(x).tag = 5 \/ AsRecord(x).tag = 6 \/ AsRecord(x).tag = 7
  BY <1>5
<1>7. x.key \in Nests /\ AsRecord(x).tag = RowTag[x.key]
  <2>1. \/ AsRecord(x).tag = 4 /\ x.key = "probe"
        \/ AsRecord(x).tag = 6 /\ x.key = "timer"
        \/ AsRecord(x).tag = 7 /\ x.key = "burner"
    BY <1>5, <1>6, CookItem, Zenon
  <2> QED
    BY <2>1, RowKeys DEF Nests
<1>8. x.value \in RowValues /\ AsRecord(x).value = RowBytes(x.key, x.value)
  BY <1>5, <1>7, CookItem, Zenon
<1> QED
  BY <1>2, <1>3, <1>5, <1>7, <1>8 DEF x

\* What has been read when a scan stops: records of the message, and the
\* rows up to the one just scanned.
LEMMA OuterRead ==
  ASSUME ScanInv, Read(128)
  PROVE  /\ sent.type = 128 /\ Cooked(sent) /\ sent.items \in Seq(StatusItems)
         /\ ReadAs(sent, Outer) /\ Complete(sent, Outer)
         /\ DOMAIN Rows = {j \in Nested(Outer) : j <= nest.at}
         /\ \A j \in DOMAIN Rows : RowOfItem(sent.items[j], Rows[j])
<1>1. /\ TlvInv /\ ~scanning /\ sent.type = 128 /\ Cooked(sent) /\ NestInv
  BY DEF ScanInv, Read, Due
<1>2. sent.items \in Seq(StatusItems) /\ Listed(sent)
  BY <1>1, CookedIs
<1>3. CASE nest.at = 0
  <2>1. payload = sent.body /\ Outer = found /\ Rows = <<>>
    BY <1>1, <1>3 DEF NestInv, Outer, Rows
  <2>2. ReadAs(sent, Outer) /\ Complete(sent, Outer)
    BY <1>1, <1>2, <2>1, ListRead DEF Complete
  <2>3. DOMAIN Rows = {}
    BY <2>1
  <2>4. {j \in Nested(Outer) : j <= nest.at} = {}
    <3>1. \A j \in Nested(Outer) : j \in 1..Len(Outer)
      BY <1>2, <2>2, NestedItem
    <3> QED
      BY <1>3, <3>1
  <2> QED
    BY <1>1, <1>2, <2>2, <2>3, <2>4
<1>4. CASE nest.at # 0
  <2> DEFINE a == nest.at
             f == nest.outer
             x == sent.items[a]
  <2>1. /\ ReadAs(sent, f) /\ Complete(sent, f) /\ a \in Nested(f) /\ payload = f[a].value
        /\ DOMAIN nest.rows = Before(f, a)
        /\ \A j \in Before(f, a) : RowOfItem(sent.items[j], nest.rows[j])
    BY <1>1, <1>4 DEF NestInv
  <2>2. /\ Outer = f
        /\ Rows = [j \in Before(f, a) \cup {a} |->
                     IF j = a THEN [tag |-> f[a].tag, row |-> RowOf(f[a].tag, found)] ELSE nest.rows[j]]
    BY <1>4, <2>1 DEF Outer, Rows
  <2>3. x.key \in Nests /\ x.value \in RowValues /\ f[a].tag = RowTag[x.key]
        /\ f[a].value = RowBytes(x.key, x.value) /\ a \in 1..Len(f)
    BY <1>2, <2>1, NestedItem
  <2>4. RowRead(x.key, x.value, found)
    BY <1>1, <2>1, <2>3, NestedRead
  <2>5. RowOfItem(x, [tag |-> f[a].tag, row |-> RowOf(f[a].tag, found)])
    BY <2>3, <2>4 DEF RowOfItem
  <2>6. \A j \in Nested(f) : j \in 1..Len(f)
    BY <1>2, <2>1, NestedItem
  <2>7. Before(f, a) \cup {a} = {j \in Nested(f) : j <= a}
    BY <2>1, <2>3, <2>6 DEF Before
  <2> HIDE DEF f
  <2>8. \A j \in DOMAIN Rows : RowOfItem(sent.items[j], Rows[j])
    <3> SUFFICES ASSUME NEW j \in Before(f, a) \cup {a} PROVE RowOfItem(sent.items[j], Rows[j])
      BY <2>2
    <3>1. CASE j = a
      <4>1. Rows[j] = [tag |-> f[a].tag, row |-> RowOf(f[a].tag, found)]
        BY <2>2, <3>1
      <4> QED
        BY <2>5, <3>1, <4>1
    <3>2. CASE j # a
      <4>1. Rows[j] = nest.rows[j] /\ j \in Before(f, a)
        BY <2>2, <3>2
      <4> QED
        BY <2>1, <4>1
    <3> QED
      BY <3>1, <3>2
  <2> QED
    BY <1>1, <1>2, <2>1, <2>2, <2>7, <2>8 DEF f
<1> QED
  BY <1>3, <1>4

\* What is accepted and scanned is what its type says.
LEMMA AcceptedDue ==
  ASSUME LinkInv, FrameInv, stage = "arrived", Accepted.ok
  PROVE  /\ Accepted.type = sent.type /\ Accepted.body = sent.body /\ sent.body \in Seq(Byte)
         /\ Accepted.type \in {128, 131, 135, 136} => Due(sent)
<1>1. /\ Accepted.type = sent.type /\ Accepted.body = sent.body
      /\ \/ kind = "saber" /\ evidence.family = "saber"
         \/ kind = "silabs" /\ evidence.family = "silabs_appliance"
         \/ kind = "hub"
  BY AcceptedOf DEF AcceptedAsSent
<1>2. ~Refused.ok
  BY DEF Refused
<1>3. CASE kind = "saber" /\ evidence.family = "saber"
  <2>1. Accepted = PairingPayload(frame)
    BY <1>3 DEF Accepted
  <2>2. Accepted.type \in PairingResponseTypes
    BY <1>2, <2>1 DEF PairingPayload
  <2>3. sent \in PairingReplies
    BY <1>3 DEF FrameInv
  <2>4. sent.body \in Seq(Byte) /\ sent.type \in {133, 135, 241, 131}
    BY <2>3, PairingCarries DEF Carries, Fitting
  <2> QED
    BY <1>1, <2>2, <2>4 DEF PairingResponseTypes, Due
<1>4. CASE kind = "silabs" /\ evidence.family = "silabs_appliance"
  <2> DEFINE f == ParseIncomingFrame(frame)
             p == IF f.ok THEN ParseAppliancePayload(f.body) ELSE Refused
  <2>1. Accepted = IF p.ok /\ p.type \in (IF f.encrypted THEN {136} ELSE {133, 135}) THEN p ELSE Refused
    BY <1>4 DEF Accepted
  <2> HIDE DEF f, p
  <2>2. Accepted.type \in {133, 135, 136}
    BY <1>2, <2>1
  <2>3. sent \in Replies
    BY <1>4 DEF FrameInv
  <2>4. sent.body \in Seq(Byte)
    BY <2>3, ReplyCarries DEF Carries, Fitting
  <2>5. sent.type = 136 => sent \in CapabilityReplies
    BY <2>3, PairingCarries DEF Replies
  <2> QED
    BY <1>1, <2>2, <2>4, <2>5 DEF Due
<1>5. CASE kind = "hub"
  <2>1. HubSays(sent)
    BY <1>5 DEF FrameInv
  <2>2. sent.body \in Seq(Byte)
    BY <2>1, HubSaysBytes
  <2>3. Reported(sent) \/ Cooked(sent) \/ sent = Message(135, <<>>, <<>>)
    BY <2>1 DEF HubSays, Reported, Cooked
  <2>4. (Reported(sent) => sent.type = 131) /\ (Cooked(sent) => sent.type = 128)
    BY ReportedIs, CookedIs
  <2>5. sent = Message(135, <<>>, <<>>) => sent.type = 135
    BY DEF Message
  <2> QED
    BY <1>1, <2>2, <2>3, <2>4, <2>5 DEF Due
<1> QED
  BY <1>1, <1>3, <1>4, <1>5

\* Nothing is scanned at first.
LEMMA ScanInit == Init => ScanInv
<1> SUFFICES ASSUME Init PROVE ScanInv
  OBVIOUS
<1>1. Begin /\ stage # "scanning" /\ nest = NoNest
  BY DEF Init
<1>2. TlvInv
  BY <1>1, BeginInv
<1> QED
  BY <1>1, <1>2 DEF ScanInv

\* A message dealt with.
LEMMA DismissInv ==
  ASSUME Dismiss, nest' = NoNest
  PROVE  ScanInv'
<1>1. <<>> \in Seq(Byte)
  OBVIOUS
<1>2. payload' = <<>> /\ index' = 0 /\ found' = <<>> /\ tail' = <<>> /\ scanning' = FALSE
  BY DEF Dismiss
<1>3. TlvInv'
  BY <1>1, <1>2, StartInv
<1>4. stage' # "scanning"
  BY DEF Dismiss, Done
<1> QED
  BY <1>3, <1>4 DEF ScanInv

\* Nothing but a cook status nests.
LEMMA NoNestIn ==
  ASSUME ScanInv, stage = "scanning", got.type # 128
  PROVE  nest = NoNest /\ payload = sent.body
BY DEF ScanInv, NestInv

\* The next nested record is scanned, those before it having been read.
LEMMA ReadNestedInv ==
  ASSUME ScanInv, ReadNested PROVE ScanInv'
<1>1. /\ sent.type = 128 /\ Cooked(sent) /\ sent.items \in Seq(StatusItems)
      /\ ReadAs(sent, Outer) /\ Complete(sent, Outer)
      /\ DOMAIN Rows = {j \in Nested(Outer) : j <= nest.at}
      /\ \A j \in DOMAIN Rows : RowOfItem(sent.items[j], Rows[j])
  BY OuterRead DEF ReadNested
<1>2. PICK i \in Left : /\ \A j \in Left : i <= j
                        /\ nest' = [outer |-> Outer, at |-> i, rows |-> Rows]
                        /\ Start(Outer[i].value)
  BY DEF ReadNested
<1>3. stage = "scanning" /\ stage' = stage /\ sent' = sent /\ got' = got
  BY DEF ReadNested, Read
<1> DEFINE f == Outer
           r == Rows
<1> HIDE DEF f, r
<1>4. \A j \in Nested(f) : j \in 1..Len(f)
  BY <1>1, NestedItem DEF f
<1>5. nest.at = 0 \/ nest.at \in Nat
  <2> SUFFICES ASSUME nest.at # 0 PROVE nest.at \in Nat
    OBVIOUS
  <2>1. nest.at \in Nested(nest.outer) /\ f = nest.outer
    BY <1>3 DEF ScanInv, NestInv, f, Outer
  <2> QED
    BY <1>4, <2>1
<1>6. i \in Nested(f) /\ i > nest.at /\ \A j \in Nested(f) : j > nest.at => i <= j
  BY <1>2 DEF Left, f
<1>7. DOMAIN r = Before(f, i)
  <2>1. DOMAIN r = {j \in Nested(f) : j <= nest.at}
    BY <1>1 DEF f, r
  <2>2. ASSUME NEW j \in Nested(f) PROVE j <= nest.at <=> j < i
    <3>1. j \in Nat /\ i \in Nat /\ nest.at \in Nat
      BY <1>4, <1>5, <1>6
    <3> QED
      BY <1>6, <3>1
  <2> QED
    BY <2>1, <2>2 DEF Before
<1>8. i # 0 /\ f[i].value \in Seq(Byte)
  <2>1. i \in 1..Len(f) /\ f \in Seq(Records)
    BY <1>1, <1>4, <1>6 DEF ReadAs, f
  <2>2. f[i] \in Records
    BY <2>1, ElementOfSeq
  <2> QED
    BY <2>1, <2>2 DEF Records
<1>9. payload' = f[i].value /\ index' = 0 /\ found' = <<>> /\ tail' = <<>> /\ scanning' = TRUE
  BY <1>2 DEF Start, f
<1>10. TlvInv'
  BY <1>8, <1>9, StartInv
<1>11. nest'.outer = f /\ nest'.at = i /\ nest'.rows = r
  BY <1>2 DEF f, r
<1>12. /\ ReadAs(sent, f) /\ Complete(sent, f)
       /\ \A j \in DOMAIN r : RowOfItem(sent.items[j], r[j])
  BY <1>1 DEF f, r
<1>13. NestInv'
  BY <1>1, <1>3, <1>6, <1>7, <1>8, <1>9, <1>11, <1>12 DEF NestInv
<1>14. got.type = sent.type /\ Due(sent)
  BY <1>3 DEF ScanInv
<1> QED
  BY <1>3, <1>10, <1>13, <1>14 DEF ScanInv

\* Every step of the link keeps the scan to what was sent.
LEMMA ScanStepInv == LinkInv /\ FrameInv /\ ScanInv /\ [Next]_vars => ScanInv'
<1> SUFFICES ASSUME LinkInv, FrameInv, ScanInv, [Next]_vars PROVE ScanInv'
  OBVIOUS
<1>1. ASSUME UNCHANGED tlvVars PROVE TlvInv'
  BY <1>1, RestKeeps DEF ScanInv
<1>2. CASE Discover \/ QualifyGatt \/ RequireSupport \/ ChooseHub \/ Arrive \/ ListenOn
  <2>1. UNCHANGED tlvVars /\ nest' = nest /\ stage # "scanning" /\ stage' # "scanning"
    BY <1>2 DEF Discover, QualifyGatt, RequireSupport, ChooseHub, Arrive, ListenOn, Done
  <2> QED
    BY <1>1, <2>1 DEF ScanInv
<1>3. CASE Receive
  <2>1. stage = "arrived" /\ nest = NoNest /\ nest' = nest /\ sent' = sent /\ got' = Accepted
    BY <1>3 DEF Receive, ScanInv
  <2>2. CASE got'.ok /\ got'.type \in {128, 131, 135, 136}
    <3>1. Start(got'.body) /\ stage' = "scanning"
      BY <1>3, <2>2 DEF Receive
    <3>2. /\ got'.type = sent.type /\ got'.body = sent.body /\ sent.body \in Seq(Byte) /\ Due(sent)
      BY <2>1, <2>2, AcceptedDue
    <3>3. payload' = sent.body /\ index' = 0 /\ found' = <<>> /\ tail' = <<>> /\ scanning' = TRUE
      BY <3>1, <3>2 DEF Start
    <3>4. TlvInv'
      BY <3>2, <3>3, StartInv
    <3>5. NestInv'
      BY <2>1, <3>3 DEF NestInv, NoNest
    <3> QED
      BY <2>1, <3>1, <3>2, <3>4, <3>5 DEF ScanInv
  <2>3. CASE ~(got'.ok /\ got'.type \in {128, 131, 135, 136})
    <3>1. stage' = "handled" /\ UNCHANGED tlvVars
      BY <1>3, <2>3 DEF Receive
    <3> QED
      BY <1>1, <2>1, <3>1 DEF ScanInv
  <2> QED
    BY <2>2, <2>3
<1>4. CASE ScanStep
  <2>1. stage = "scanning" /\ Scan /\ nest' = nest /\ sent' = sent /\ got' = got /\ stage' = stage
    BY <1>4 DEF ScanStep
  <2>2. TlvInv'
    BY <2>1, ScanKeeps DEF ScanInv
  <2>3. payload' = payload
    BY <2>1 DEF Scan, Take, Excess, Overrun, Finish, Leave
  <2>4. NestInv'
    BY <2>1, <2>3 DEF ScanInv, NestInv
  <2> QED
    BY <2>1, <2>2, <2>4 DEF ScanInv
<1>5. CASE ReadError
  <2>1. stage = "scanning" /\ got.type # 128 /\ Dismiss /\ nest' = nest
    BY <1>5 DEF ReadError, Read
  <2> QED
    BY <2>1, NoNestIn, DismissInv
<1>6. CASE ReadCapabilities
  <2>1. stage = "scanning" /\ got.type # 128 /\ Dismiss /\ nest' = nest
    BY <1>6 DEF ReadCapabilities, Read
  <2> QED
    BY <2>1, NoNestIn, DismissInv
<1>7. CASE ReadAppliance
  <2>1. stage = "scanning" /\ got.type # 128 /\ Dismiss /\ nest' = nest
    BY <1>7 DEF ReadAppliance, Read
  <2> QED
    BY <2>1, NoNestIn, DismissInv
<1>8. CASE ReadNested
  BY <1>8, ReadNestedInv
<1>9. CASE Publish
  BY <1>9, DismissInv DEF Publish
<1>10. CASE UNCHANGED vars
  <2>1. UNCHANGED <<tlvVars, nest, sent, got, stage, payload>>
    BY <1>10 DEF vars, linkVars, tlvVars
  <2>2. TlvInv'
    BY <1>1, <2>1
  <2> QED
    BY <2>1, <2>2 DEF ScanInv, NestInv
<1> QED
  BY <1>2, <1>3, <1>4, <1>5, <1>6, <1>7, <1>8, <1>9, <1>10 DEF Next

\* A scan's records lie end to end from where it began, and it reports a tail exactly
\* when the bytes do not lie as records: lenient_record_elements, of a message and of
\* each row nested in one.
THEOREM ScansAreExact == Spec => [](RecordsTile /\ TailIffMalformed)
<1>1. ScanInv => RecordsTile /\ TailIffMalformed
  BY TailOf DEF ScanInv, TlvInv
<1> QED
  BY <1>1, LinkInit, LinkStep, FrameInit, FrameStep, ScanInit, ScanStepInv, PTL DEF Spec

-----------------------------------------------------------------------------
(* Capabilities.                                                           *)

\* One record laid out.
LEMMA OneLaid ==
  ASSUME NEW r \in Short
  PROVE  <<r>> \in Seq(Short) /\ Len(<<r>>) = 1 /\ Laid(r) = Bytes(<<r>>)
<1> DEFINE rs == <<r>>
           v == r.value
           b == Bytes(rs)
           d == Laid(r)
<1>1. rs \in Seq(Short) /\ Len(rs) = 1 /\ rs[1] = r
  OBVIOUS
<1> HIDE DEF rs
<1>2. b \in Seq(Byte) /\ \E e : Placed(rs, e)
  BY <1>1, RecordLayout
<1>3. PICK e : Placed(rs, e)
  BY <1>2
<1>4. PICK l \in Nat : l = Len(v)
  BY ShortRecord
<1>5. /\ d \in Seq(Byte) /\ Len(d) = 2 + l /\ d[1] = r.tag /\ d[2] = l
      /\ \A k \in 1..l : d[2 + k] = v[k]
  BY <1>4, ShortRecord
<1> HIDE DEF d, b, v
<1>6. /\ e[0] = 0 /\ e[1] = Len(b) /\ e[1] = e[0] + 2 + l
      /\ b[e[0] + 1] = r.tag /\ b[e[0] + 2] = l
      /\ \A k \in 1..l : b[e[0] + 2 + k] = v[k]
  <2>1. 1 \in 1..1 /\ 1 - 1 = 0
    OBVIOUS
  <2>2. \A i \in 1..1 : /\ e[i] = e[i - 1] + 2 + Len(rs[i].value)
                        /\ b[e[i - 1] + 1] = rs[i].tag
                        /\ b[e[i - 1] + 2] = Len(rs[i].value)
                        /\ \A k \in 1..Len(rs[i].value) : b[e[i - 1] + 2 + k] = rs[i].value[k]
    BY <1>1, <1>3 DEF Placed, b
  <2>3. e[0] = 0 /\ e[1] = Len(b)
    BY <1>1, <1>3 DEF Placed, b
  <2> QED
    BY <1>1, <1>4, <2>1, <2>2, <2>3 DEF v
<1>7. Len(b) = 2 + l /\ b[1] = r.tag /\ b[2] = l /\ \A k \in 1..l : b[2 + k] = v[k]
  <2>1. Len(b) = 0 + 2 + l /\ b[0 + 1] = r.tag /\ b[0 + 2] = l /\ \A k \in 1..l : b[0 + 2 + k] = v[k]
    BY <1>6
  <2> QED
    BY <2>1
<1>8. \A i \in 1..(2 + l) : d[i] = b[i]
  <2> TAKE i \in 1..(2 + l)
  <2>1. CASE i \in {1, 2}
    BY <1>5, <1>7, <2>1
  <2>2. CASE i \notin {1, 2}
    <3>1. PICK k \in 1..l : i = 2 + k
      <4>1. i - 2 \in 1..l /\ i = 2 + (i - 2)
        BY <2>2
      <4> QED
        BY <4>1
    <3> QED
      BY <1>5, <1>7, <3>1
  <2> QED
    BY <2>1, <2>2
<1>9. d = b
  BY <1>2, <1>5, <1>7, <1>8, SeqEqual
<1> QED
  BY <1>1, <1>9 DEF rs, d, b

\* A message of one record is read as that.
LEMMA OneRead ==
  ASSUME NEW r \in Short, payload = Laid(r), TlvInv, ~scanning
  PROVE  found = <<r>> /\ DOMAIN found = {1} /\ found[1] = r
<1> DEFINE rs == <<r>>
<1>1. rs \in Seq(Short) /\ Len(rs) = 1 /\ payload = Bytes(rs)
  BY OneLaid
<1>2. DOMAIN rs = {1} /\ rs[1] = r
  OBVIOUS
<1> HIDE DEF rs
<1>3. Len(rs) <= MaxRecords
  BY <1>1, RoomForRows
<1>4. found = rs
  BY <1>1, <1>3, WholeRead
<1> QED
  BY <1>2, <1>4 DEF rs

\* The last of one record.
LEMMA LastOf ==
  ASSUME NEW f, NEW t, NEW i \in Int, At(f, t) = {i}
  PROVE  Last(f, t) = f[i].value
<1>1. Latest({i}) = i
  BY DEF Latest
<1> QED
  BY <1>1 DEF Last

\* A small number is read back from one byte and from eight.
LEMMA SmallBack ==
  ASSUME NEW n \in {2, 3, 4}, NEW w \in {1, 8}
  PROVE  Unsigned(LittleEndian(n, w)) = n
<1>1. n \in Int /\ w \in Nat /\ w # 0
  OBVIOUS
<1>2. ASSUME NEW r, Quotients(r, n, w) PROVE Fits(r[w], FALSE)
  <2>1. r[1] = n /\ \A i \in 2..w : r[i] = r[i - 1] \div 256
    BY <1>2 DEF Quotients
  <2>2. CASE w = 1
    BY <2>1, <2>2 DEF Fits
  <2>3. CASE w = 8
    <3> DEFINE q(i) == r[i]
    <3>1. 2 \in 2..w /\ 3 \in 2..w /\ 4 \in 2..w /\ 5 \in 2..w /\ 6 \in 2..w /\ 7 \in 2..w /\ 8 \in 2..w
      BY <2>3
    <3>2. q(2) = q(1) \div 256 /\ q(3) = q(2) \div 256 /\ q(4) = q(3) \div 256 /\ q(5) = q(4) \div 256
          /\ q(6) = q(5) \div 256 /\ q(7) = q(6) \div 256 /\ q(8) = q(7) \div 256 /\ q(1) = n
      <4>1. 2 - 1 = 1 /\ 3 - 1 = 2 /\ 4 - 1 = 3 /\ 5 - 1 = 4 /\ 6 - 1 = 5 /\ 7 - 1 = 6 /\ 8 - 1 = 7
        OBVIOUS
      <4> QED
        BY <2>1, <3>1, <4>1
    <3> HIDE DEF q
    <3>3. n \div 256 = 0 /\ 0 \div 256 = 0
      OBVIOUS
    <3>4. q(8) = 0
      BY <3>2, <3>3
    <3> QED
      BY <2>3, <3>4 DEF q, Fits
  <2> QED
    BY <2>2, <2>3
<1>3. FALSE \in BOOLEAN
  OBVIOUS
<1>4. FromBytes(LittleEndian(n, w), FALSE) = n
  BY <1>1, <1>2, <1>3, ReadBack
<1> QED
  BY <1>4 DEF Unsigned

\* The record of a capability.
LEMMA CapabilityItem ==
  ASSUME NEW x \in Meant
  PROVE  AsRecord(x).tag = x.value.tag /\ Unsigned(AsRecord(x).value) = x.value.value
<1> DEFINE t == x.value.tag
           n == x.value.value
           w == CapabilityWidth[t]
<1>1. x.key = "capability" /\ n \in {2, 3, 4} /\ w \in {1, 8}
  BY MeantIs
<1>2. AsRecord(x) = Record(t, LittleEndian(n, w))
  BY <1>1, RecordOf, Zenon
<1>3. Unsigned(LittleEndian(n, w)) = n
  BY <1>1, SmallBack
<1>4. Record(t, LittleEndian(n, w)).tag = t /\ Record(t, LittleEndian(n, w)).value = LittleEndian(n, w)
  BY DEF Record
<1> QED
  BY <1>2, <1>3, <1>4

\* What is kept of a list of them is what its items mean.
Meaning(m, t) == {i.value.value : i \in {j \in S!ToSet(m.items) : j.value.tag = t}}

\* What the capabilities sent mean.
LEMMA ListMeant ==
  ASSUME NEW m, m.items \in Seq(Meant), Listed(m), payload = m.body, TlvInv, ~scanning, tail = <<>>,
         NEW t, NEW k \in DOMAIN found, At(found, t) = {k}
  PROVE  Meaning(m, t) = {Unsigned(Last(found, t))}
<1>1. ReadAs(m, found) /\ Len(found) = Len(m.items)
  BY ListRead
<1>2. /\ found \in Seq(Records) /\ Len(found) \in Nat /\ DOMAIN found = 1..Len(found)
      /\ DOMAIN m.items = DOMAIN found
  BY <1>1, LenProperties DEF ReadAs
<1>3. ASSUME NEW i \in DOMAIN found
      PROVE  /\ m.items[i] \in Meant /\ found[i].tag = m.items[i].value.tag
             /\ Unsigned(found[i].value) = m.items[i].value.value
  <2>1. m.items[i] \in Meant /\ found[i] = AsRecord(m.items[i])
    BY <1>1, <1>2, ElementOfSeq DEF ReadAs
  <2> QED
    BY <2>1, CapabilityItem
<1>4. k \in Int /\ found[k].tag = t /\ \A i \in DOMAIN found : found[i].tag = t => i = k
  BY <1>2 DEF At
<1>5. Last(found, t) = found[k].value
  BY <1>4, LastOf
<1>6. {j \in S!ToSet(m.items) : j.value.tag = t} = {m.items[k]}
  <2>1. S!ToSet(m.items) = {m.items[i] : i \in DOMAIN found}
    BY <1>2 DEF S!ToSet
  <2>2. m.items[k].value.tag = t /\ \A i \in DOMAIN found : m.items[i].value.tag = t => i = k
    BY <1>3, <1>4
  <2> QED
    BY <2>1, <2>2
<1>7. Unsigned(found[k].value) = m.items[k].value.value
  BY <1>3
<1> QED
  BY <1>5, <1>6, <1>7 DEF Meaning

\* What the capabilities just read mean.
LEMMA CapabilitiesOf ==
  ASSUME ScanInv, Read(136), Capabilities(found, tail).ok
  PROVE  /\ WellFormed(sent.body)
         /\ \A t \in DOMAIN Capabilities(found, tail).value :
              Meaning(sent, t) = {Capabilities(found, tail).value[t]}
<1>1. /\ stage = "scanning" /\ ~scanning /\ got.type = 136 /\ TlvInv /\ sent \in CapabilityReplies
  BY DEF Read, ScanInv, Due
<1>2. payload = sent.body
  BY <1>1, NoNestIn
<1> DEFINE seen == DOMAIN CapabilityWidth \cap {found[i].tag : i \in DOMAIN found}
           bad == \/ tail # <<>>
                  \/ \E t \in seen : ~Once(found, t) \/ Len(Last(found, t)) # CapabilityWidth[t]
           c == [t \in seen |-> Unsigned(Last(found, t))]
<1>3. Capabilities(found, tail) = IF bad THEN Refused ELSE [ok |-> TRUE, value |-> c]
  BY DEF Capabilities
<1>4. ~bad /\ Capabilities(found, tail).value = c
  <2>1. ~Refused.ok
    BY DEF Refused
  <2> HIDE DEF bad, c
  <2> QED
    BY <1>3, <2>1
<1>5. tail = <<>> /\ WellFormed(sent.body)
  BY <1>1, <1>2, <1>4, TailOf DEF TailIffMalformed
<1>6. ASSUME NEW t \in seen PROVE Meaning(sent, t) = {Unsigned(Last(found, t))}
  <2>1. Once(found, t) /\ Len(Last(found, t)) = CapabilityWidth[t]
    BY <1>4, <1>6
  <2>2. ASSUME NEW R, R = Meant, sent.items \in Seq(R), Listed(sent)
        PROVE  Meaning(sent, t) = {Unsigned(Last(found, t))}
    <3>1. PICK k \in DOMAIN found : At(found, t) = {k}
      BY <2>1 DEF Once
    <3> QED
      BY <1>1, <1>2, <1>5, <2>2, <3>1, ListMeant
  <2>3. Capability(1, 4) \in Meant /\ Capability(8, 3) \in Meant /\ Capability(1, 2) \in Meant
        /\ Meant \subseteq Items
    BY DEF Meant, Items
  <2>4. CASE sent \in Cuts(136, <<Capability(1, 4), Capability(8, 3)>>)
    <3> DEFINE items == <<Capability(1, 4), Capability(8, 3)>>
    <3>1. items \in Seq(Meant) /\ sent \in Cuts(136, items)
      BY <2>3, <2>4
    <3> HIDE DEF items
    <3>2. sent.items \in Seq(Meant) /\ Listed(sent)
      BY <2>3, <3>1, CutListed, Zenon
    <3> QED
      BY <2>2, <3>2
  <2>5. CASE sent \in Cuts(136, <<Capability(1, 4), Capability(1, 2)>>)
    <3> DEFINE items == <<Capability(1, 4), Capability(1, 2)>>
    <3>1. items \in Seq(Meant) /\ sent \in Cuts(136, items)
      BY <2>3, <2>5
    <3> HIDE DEF items
    <3>2. sent.items \in Seq(Meant) /\ Listed(sent)
      BY <2>3, <3>1, CutListed, Zenon
    <3> QED
      BY <2>2, <3>2
  <2>6. sent # Message(136, <<>>, Laid(Record(1, <<4, 0>>)))
    <3> DEFINE v == <<4, 0>>
               r == Record(1, v)
    <3>1. v \in Seq(Byte) /\ Len(v) = 2 /\ 1 \in Byte /\ 2 \in Byte
      BY DEF Byte
    <3> HIDE DEF v
    <3>2. r \in Short /\ r.tag = 1 /\ r.value = v
      BY <3>1, ShortOf
    <3> HIDE DEF r
    <3> SUFFICES ASSUME sent = Message(136, <<>>, Laid(r)) PROVE FALSE
      BY DEF r, v
    <3>3. payload = Laid(r)
      BY <1>2 DEF Message
    <3>4. DOMAIN found = {1} /\ found[1] = r
      BY <1>1, <3>2, <3>3, OneRead
    <3>5. 1 \in seen /\ At(found, 1) = {1}
      BY <3>2, <3>4 DEF At, CapabilityWidth
    <3>6. Last(found, 1) = v
      BY <3>2, <3>4, <3>5, LastOf
    <3>7. Len(Last(found, 1)) = CapabilityWidth[1]
      BY <1>4, <3>5
    <3>8. CapabilityWidth[1] = 1
      BY DEF CapabilityWidth
    <3>9. Len(v) = 2 /\ Len(v) = 1
      BY <3>1, <3>6, <3>7, <3>8, Zenon
    <3> QED
      BY <3>9
  <2>7. sent # Message(136, <<>>, Laid(Record(200, <<1>>)))
    <3>0. PICK u \in Byte : u = 200
      BY DEF Byte
    <3> DEFINE v == <<1>>
               r == Record(u, v)
    <3>1. v \in Seq(Byte) /\ Len(v) \in Byte
      BY DEF Byte
    <3> HIDE DEF v
    <3>2. r \in Short /\ r.tag = u
      BY <3>1, ShortOf, Zenon
    <3> HIDE DEF r
    <3> SUFFICES ASSUME sent = Message(136, <<>>, Laid(r)) PROVE FALSE
      BY <3>0 DEF r, v
    <3>3. payload = Laid(r)
      BY <1>2 DEF Message
    <3>4. DOMAIN found = {1} /\ found[1] = r
      BY <1>1, <3>2, <3>3, OneRead
    <3>5. t = 200
      BY <3>0, <3>2, <3>4
    <3> QED
      BY <3>5 DEF CapabilityWidth
  <2> QED
    BY <1>1, <2>4, <2>5, <2>6, <2>7 DEF CapabilityReplies
<1> QED
  BY <1>4, <1>5, <1>6

\* Nothing is learnt at first.
LEMMA LearnInit == Init => CapabilitiesUnambiguous
BY DEF Init, CapabilitiesUnambiguous

\* Every step of the link leaves the capabilities learnt to be what was sent.
LEMMA LearnStep == ScanInv /\ CapabilitiesUnambiguous /\ [Next]_vars => CapabilitiesUnambiguous'
<1> SUFFICES ASSUME ScanInv, CapabilitiesUnambiguous, [Next]_vars PROVE CapabilitiesUnambiguous'
  OBVIOUS
<1>1. ASSUME learned' \in {learned, <<>>} PROVE CapabilitiesUnambiguous'
  BY <1>1 DEF CapabilitiesUnambiguous
<1>2. CASE ReadCapabilities
  <2> DEFINE c == Capabilities(found, tail)
  <2>1. Read(136) /\ learned' = IF c.ok THEN <<[message |-> sent, value |-> c.value]>> ELSE learned
    BY <1>2 DEF ReadCapabilities
  <2>2. CASE c.ok
    <3>1. learned'[1].message = sent /\ learned'[1].value = c.value
      BY <2>1, <2>2
    <3>2. WellFormed(sent.body) /\ \A t \in DOMAIN c.value : Meaning(sent, t) = {c.value[t]}
      BY <2>1, <2>2, CapabilitiesOf
    <3> HIDE DEF c
    <3> QED
      BY <3>1, <3>2 DEF CapabilitiesUnambiguous, Meaning
  <2>3. CASE ~c.ok
    BY <1>1, <2>1, <2>3
  <2> QED
    BY <2>2, <2>3
<1>3. CASE Discover \/ QualifyGatt \/ RequireSupport \/ ChooseHub \/ Arrive \/ Receive
  BY <1>1, <1>3 DEF Discover, QualifyGatt, RequireSupport, ChooseHub, Arrive, Receive, sessionVars
<1>4. CASE ListenOn \/ ScanStep \/ ReadError \/ ReadAppliance \/ ReadNested \/ Publish
  BY <1>1, <1>4 DEF ListenOn, ScanStep, ReadError, ReadAppliance, ReadNested, Publish, sessionVars
<1>5. CASE UNCHANGED vars
  BY <1>1, <1>5 DEF vars, sessionVars
<1> QED
  BY <1>2, <1>3, <1>4, <1>5 DEF Next

\* Capabilities are learnt only of a message whose records lie well, as the hub
\* meant them, and none that it gave twice (capabilities_from_response).
THEOREM CapabilitiesAreMeant == Spec => []CapabilitiesUnambiguous
BY LinkInit, LinkStep, FrameInit, FrameStep, ScanInit, ScanStepInv, LearnInit, LearnStep, PTL DEF Spec

-----------------------------------------------------------------------------
(* Values, as they are read.                                               *)

\* The last of some places in a list.
LEMMA LatestIs ==
  ASSUME NEW n \in Nat, NEW I \in SUBSET (1..n), I # {}
  PROVE  Latest(I) \in I /\ \A j \in I : j <= Latest(I)
<1>1. \E i \in I : \A j \in I : j <= i
  BY Greatest
<1> QED
  BY <1>1 DEF Latest

\* The last record of a tag is that of one of the items.
LEMMA LastRead ==
  ASSUME NEW R, NEW m, m.items \in Seq(R), NEW f, ReadAs(m, f), NEW t
  PROVE  \/ At(f, t) = {} /\ Last(f, t) = <<>>
         \/ \E i \in 1..Len(f) : /\ i \in 1..Len(m.items) /\ i = Latest(At(f, t))
                                 /\ AsRecord(m.items[i]).tag = t
                                 /\ Last(f, t) = AsRecord(m.items[i]).value
<1>1. f \in Seq(Records) /\ Len(f) \in Nat /\ DOMAIN f = 1..Len(f)
      /\ Len(m.items) \in Nat /\ Len(f) <= Len(m.items)
      /\ \A i \in 1..Len(f) : f[i] = AsRecord(m.items[i])
  BY LenProperties DEF ReadAs
<1>2. CASE At(f, t) = {}
  BY <1>2 DEF Last
<1>3. CASE At(f, t) # {}
  <2> DEFINE I == At(f, t)
             i == Latest(I)
  <2>1. I \in SUBSET (1..Len(f)) /\ \A j \in I : f[j].tag = t
    BY <1>1 DEF At
  <2>2. i \in I
    BY <1>1, <1>3, <2>1, LatestIs
  <2>3. Last(f, t) = f[i].value
    BY <1>3 DEF Last
  <2> HIDE DEF i
  <2>4. i \in 1..Len(f) /\ f[i] = AsRecord(m.items[i]) /\ f[i].tag = t
    BY <1>1, <2>1, <2>2
  <2>5. i \in 1..Len(m.items)
    BY <1>1, <2>4
  <2> QED
    BY <1>1, <2>3, <2>4, <2>5 DEF i
<1> QED
  BY <1>2, <1>3

\* Numbers.
LEMMA AllOf ==
  ASSUME NEW s \in Seq(Byte), NEW n \in Nat, Len(s) = n
  PROVE  SubSeq(s, 1, n) = s
<1>1. /\ SubSeq(s, 1, n) \in Seq(Byte) /\ Len(SubSeq(s, 1, n)) = n
      /\ \A j \in 1..n : SubSeq(s, 1, n)[j] = s[j]
  BY FirstOf
<1> QED
  BY <1>1, SeqEqual

\* A number of just its width.
LEMMA WideOf ==
  ASSUME NEW s \in Seq(Byte), NEW n \in Nat, Len(s) = n
  PROVE  Wide(s, n, TRUE) = Opt(FromBytes(s, TRUE))
<1>1. SubSeq(s, 1, n) = s /\ ~(Len(s) < n)
  BY AllOf
<1> QED
  BY <1>1 DEF Wide

\* Two bytes of a number are read as that number,
LEMMA Wide16 ==
  ASSUME NEW v \in Int16 PROVE Wide(LittleEndian(v, 2), 2, TRUE) = Opt(v) /\ v \in Int
<1>1. v \in Int /\ Fits(v \div 256, TRUE)
  BY InInt16
<1>2. 2 \in Nat /\ 2 # 0
  OBVIOUS
<1>3. LittleEndian(v, 2) \in Seq(Byte) /\ Len(LittleEndian(v, 2)) = 2
  BY <1>1, <1>2, LittleEndianBytes, Zenon
<1>4. FromBytes(LittleEndian(v, 2), TRUE) = v
  BY <1>1, ReadBack16
<1>5. Wide(LittleEndian(v, 2), 2, TRUE) = Opt(FromBytes(LittleEndian(v, 2), TRUE))
  BY <1>2, <1>3, WideOf, Zenon
<1> QED
  BY <1>1, <1>4, <1>5, Zenon

\* and so are four.
LEMMA Wide32 ==
  ASSUME NEW v \in Int32 PROVE Wide(LittleEndian(v, 4), 4, TRUE) = Opt(v)
<1>1. v \in Int /\ Fits(((v \div 256) \div 256) \div 256, TRUE)
  BY InInt32
<1>2. 4 \in Nat /\ 4 # 0
  OBVIOUS
<1>3. LittleEndian(v, 4) \in Seq(Byte) /\ Len(LittleEndian(v, 4)) = 4
  BY <1>1, <1>2, LittleEndianBytes, Zenon
<1>4. FromBytes(LittleEndian(v, 4), TRUE) = v
  BY <1>1, ReadBack32
<1>5. Wide(LittleEndian(v, 4), 4, TRUE) = Opt(FromBytes(LittleEndian(v, 4), TRUE))
  BY <1>2, <1>3, WideOf, Zenon
<1> QED
  BY <1>1, <1>4, <1>5, Zenon

\* Optional values: none, or one.
LEMMA OptIs ==
  /\ \A v : Opt(v) # <<>> /\ Opt(v)[1] = v /\ U8(Opt(v)) = Opt(v)
  /\ \A v, w : Opt(v) = Opt(w) <=> v = w
  /\ U8(<<>>) = <<>> /\ OneBased(<<>>) = <<>> /\ Wide(<<>>, 2, TRUE) = <<>> /\ Wide(<<>>, 4, TRUE) = <<>>
<1>1. \A v : <<v>> # <<>> /\ <<v>>[1] = v
  OBVIOUS
<1>2. \A v, w : <<v>> = <<w>> <=> v = w
  OBVIOUS
<1>3. Len(<<>>) < 2 /\ Len(<<>>) < 4
  OBVIOUS
<1> QED
  BY <1>1, <1>2, <1>3 DEF Opt, U8, OneBased, Wide

\* The codes of a hub's own values, looked up.
LEMMA NamedIs ==
  ASSUME NEW key \in {"mode", "device", "fuel_level"}, NEW v
  PROVE  /\ Named(Opt(v), Codes[key]) = Opt(Code(key, v)) /\ Named(<<>>, Codes[key]) = <<>>
         /\ key \in DOMAIN Codes
BY OptIs DEF Named, Code, Codes

-----------------------------------------------------------------------------
(* Appliance statuses.                                                     *)

\* The values of a status are among what its items say.
GivenBy(items, key, v) == Given(Plain(items), key, v)

\* An item that counts whatever else is in the list.
LEMMA PlainItem ==
  ASSUME NEW items \in Seq(ReportItems), NEW i \in 1..Len(items)
  PROVE  /\ items[i].key \notin {"fuel_level", "fuel_percent"} => items[i] \in Plain(items)
         /\ (\A k \in 1..Len(items) : items[k].key = items[i].key => k = i) => items[i] \in Plain(items)
<1>1. DOMAIN items = 1..Len(items)
  BY LenProperties
<1> QED
  BY <1>1 DEF Plain

\* What an item gives,
LEMMA GivenItem ==
  ASSUME NEW items, NEW x \in items, NEW key, x.key = key,
         NEW v, v = Opt(IF key \in DOMAIN Codes THEN Code(key, x.value) ELSE x.value)
  PROVE  Given(items, key, v)
BY DEF Given

\* none, which is always given,
LEMMA GivenNone == ASSUME NEW items, NEW key PROVE Given(items, key, <<>>)
BY DEF Given

\* and what more items give.
LEMMA GivenMore ==
  ASSUME NEW items, NEW more, items \subseteq more, NEW key, NEW v, Given(items, key, v)
  PROVE  Given(more, key, v)
BY DEF Given

\* These readings are shown as the numbers they are.
LEMMA NoCode ==
  {"battery", "charging", "wifi", "fuel_percent", "target", "actual", "display"} \cap DOMAIN Codes = {}
BY DEF Codes

\* The tags of an appliance status.
StatusTag ==
  [battery |-> 1, charging |-> 2, wifi |-> 10, device |-> 17, fuel_level |-> 20, fuel_percent |-> 27]

\* One to each key.
LEMMA StatusTagIs ==
  /\ DOMAIN StatusTag = {"battery", "charging", "wifi", "device", "fuel_level", "fuel_percent"}
  /\ StatusTag["battery"] = 1 /\ StatusTag["charging"] = 2 /\ StatusTag["wifi"] = 10
  /\ StatusTag["device"] = 17 /\ StatusTag["fuel_level"] = 20 /\ StatusTag["fuel_percent"] = 27
BY DEF StatusTag

\* Each item's record is of the tag of its key.
LEMMA ReportTag ==
  ASSUME NEW x \in ReportItems
  PROVE  x.key \in DOMAIN StatusTag /\ AsRecord(x).tag = StatusTag[x.key]
<1>0. \A t, v : Record(t, v).tag = t
  BY DEF Record
<1> DEFINE u == AsRecord(x).tag
<1>1. ASSUME x.key = "battery" PROVE u = 1
  <2>1. AsRecord(x) = Record(1, <<x.value>>)
    BY <1>1, RecordOf, Zenon
  <2> QED
    BY <1>0, <2>1, Zenon
<1>2. ASSUME x.key = "charging" PROVE u = 2
  <2>1. AsRecord(x) = Record(2, <<IF x.value THEN 1 ELSE 0>>)
    BY <1>2, RecordOf, Zenon
  <2> QED
    BY <1>0, <2>1, Zenon
<1>3. ASSUME x.key = "wifi" PROVE u = 10
  <2>1. AsRecord(x) = Record(10, LittleEndian(x.value, 4))
    BY <1>3, RecordOf, Zenon
  <2> QED
    BY <1>0, <2>1, Zenon
<1>4. ASSUME x.key = "device" PROVE u = 17
  <2>1. AsRecord(x) = Record(17, <<x.value>>)
    BY <1>4, RecordOf, Zenon
  <2> QED
    BY <1>0, <2>1, Zenon
<1>5. ASSUME x.key = "fuel_level" PROVE u = 20
  <2>1. AsRecord(x) = Record(20, <<x.value>>)
    BY <1>5, RecordOf, Zenon
  <2> QED
    BY <1>0, <2>1, Zenon
<1>6. ASSUME x.key = "fuel_percent" PROVE u = 27
  <2>1. AsRecord(x) = Record(27, <<x.value>>)
    BY <1>6, RecordOf, Zenon
  <2> QED
    BY <1>0, <2>1, Zenon
<1>7. x.key \in DOMAIN StatusTag
  BY ReportItem, StatusTagIs
<1> HIDE DEF u
<1>8. u = StatusTag[x.key]
  BY <1>1, <1>2, <1>3, <1>4, <1>5, <1>6, <1>7, StatusTagIs
<1> QED
  BY <1>7, <1>8 DEF u

\* No two of them are the same.
LEMMA StatusTagsDiffer ==
  ASSUME NEW k \in DOMAIN StatusTag, NEW l \in DOMAIN StatusTag, StatusTag[k] = StatusTag[l]
  PROVE  k = l
BY StatusTagIs

\* Their values.
LEMMA ReportValue ==
  ASSUME NEW x \in ReportItems
  PROVE  /\ x.key \in {"battery", "device", "fuel_level", "fuel_percent"} =>
              AsRecord(x).value = Opt(x.value) /\ x.value \in Byte
         /\ x.key = "charging" =>
              x.value \in BOOLEAN /\ AsRecord(x).value = Opt(IF x.value THEN 1 ELSE 0)
         /\ x.key = "wifi" => x.value \in Int32 /\ AsRecord(x).value = LittleEndian(x.value, 4)
<1>0. \A t, v : Record(t, v).value = v
  BY DEF Record
<1>1. /\ x.key = "battery" => x.value \in Byte
      /\ x.key = "device" => x.value \in Byte
      /\ x.key = "fuel_level" => x.value \in Byte
      /\ x.key = "fuel_percent" => x.value \in Byte
      /\ x.key = "charging" => x.value \in BOOLEAN
      /\ x.key = "wifi" => x.value \in Int32
  BY ReportItem
<1>2. ASSUME x.key = "battery" PROVE AsRecord(x).value = <<x.value>>
  <2>1. AsRecord(x) = Record(1, <<x.value>>)
    BY <1>2, RecordOf, Zenon
  <2> QED
    BY <1>0, <2>1, Zenon
<1>3. ASSUME x.key = "device" PROVE AsRecord(x).value = <<x.value>>
  <2>1. AsRecord(x) = Record(17, <<x.value>>)
    BY <1>3, RecordOf, Zenon
  <2> QED
    BY <1>0, <2>1, Zenon
<1>4. ASSUME x.key = "fuel_level" PROVE AsRecord(x).value = <<x.value>>
  <2>1. AsRecord(x) = Record(20, <<x.value>>)
    BY <1>4, RecordOf, Zenon
  <2> QED
    BY <1>0, <2>1, Zenon
<1>5. ASSUME x.key = "fuel_percent" PROVE AsRecord(x).value = <<x.value>>
  <2>1. AsRecord(x) = Record(27, <<x.value>>)
    BY <1>5, RecordOf, Zenon
  <2> QED
    BY <1>0, <2>1, Zenon
<1>6. ASSUME x.key = "charging" PROVE AsRecord(x).value = <<IF x.value THEN 1 ELSE 0>>
  <2>1. AsRecord(x) = Record(2, <<IF x.value THEN 1 ELSE 0>>)
    BY <1>6, RecordOf, Zenon
  <2> QED
    BY <1>0, <2>1, Zenon
<1>7. ASSUME x.key = "wifi" PROVE AsRecord(x).value = LittleEndian(x.value, 4)
  <2>1. AsRecord(x) = Record(10, LittleEndian(x.value, 4))
    BY <1>7, RecordOf, Zenon
  <2> QED
    BY <1>0, <2>1, Zenon
<1> DEFINE u == AsRecord(x).value
<1>8. x.key \in {"battery", "device", "fuel_level", "fuel_percent"} => u = Opt(x.value) /\ x.value \in Byte
  BY <1>1, <1>2, <1>3, <1>4, <1>5, Zenon DEF Opt
<1>9. x.key = "charging" => x.value \in BOOLEAN /\ u = Opt(IF x.value THEN 1 ELSE 0)
  BY <1>1, <1>6, Zenon DEF Opt
<1>10. x.key = "wifi" => x.value \in Int32 /\ u = LittleEndian(x.value, 4)
  BY <1>1, <1>7, Zenon
<1> QED
  BY <1>8, <1>9, <1>10, Zenon DEF u

\* What is read under each tag.
LEMMA StatusRead ==
  ASSUME NEW m, m.items \in Seq(ReportItems), NEW f, ReadAs(m, f),
         NEW key \in DOMAIN StatusTag, NEW t, t = StatusTag[key]
  PROVE  \/ Last(f, t) = <<>>
         \/ \E i \in 1..Len(m.items) :
              /\ i = Latest(At(f, t)) /\ At(f, t) # {}
              /\ m.items[i] \in ReportItems /\ m.items[i].key = key
              /\ Last(f, t) = AsRecord(m.items[i]).value
<1>1. CASE Last(f, t) = <<>>
  BY <1>1
<1>2. CASE Last(f, t) # <<>>
  <2>1. PICK i \in 1..Len(m.items) : /\ i = Latest(At(f, t)) /\ AsRecord(m.items[i]).tag = t
                                     /\ Last(f, t) = AsRecord(m.items[i]).value
    BY <1>2, LastRead
  <2>2. m.items[i] \in ReportItems
    BY ElementOfSeq
  <2>3. m.items[i].key = key
    BY <2>1, <2>2, ReportTag, StatusTagsDiffer
  <2>4. At(f, t) # {}
    BY <1>2 DEF Last
  <2> QED
    BY <2>1, <2>2, <2>3, <2>4
<1> QED
  BY <1>1, <1>2

\* What is read of each field is what an item says: the battery,
LEMMA BatteryGiven ==
  ASSUME NEW m, m.items \in Seq(ReportItems), NEW f, ReadAs(m, f)
  PROVE  GivenBy(m.items, "battery", U8(Last(f, 1)))
<1> DEFINE v == Last(f, 1)
<1>1. CASE v = <<>>
  BY <1>1, OptIs, GivenNone DEF GivenBy
<1>2. CASE v # <<>>
  <2>1. PICK i \in 1..Len(m.items) : /\ m.items[i] \in ReportItems /\ m.items[i].key = "battery"
                                     /\ v = AsRecord(m.items[i]).value
    BY <1>2, StatusTagIs, StatusRead
  <2>2. v = Opt(m.items[i].value)
    BY <2>1, ReportValue
  <2>3. m.items[i] \in Plain(m.items)
    BY <2>1, PlainItem
  <2>4. U8(v) = Opt(m.items[i].value)
    BY <2>2, OptIs
  <2>5. "battery" \notin DOMAIN Codes
    BY NoCode
  <2> QED
    BY <2>1, <2>3, <2>4, <2>5, GivenItem DEF GivenBy
<1> QED
  BY <1>1, <1>2

\* whether it is charged,
LEMMA ChargingGiven ==
  ASSUME NEW m, m.items \in Seq(ReportItems), NEW f, ReadAs(m, f)
  PROVE  GivenBy(m.items, "charging", LET c == U8(Last(f, 2)) IN IF c = <<>> THEN c ELSE Opt(c[1] = 1))
<1> DEFINE v == Last(f, 2)
           c == U8(v)
           r == IF c = <<>> THEN c ELSE Opt(c[1] = 1)
<1>1. CASE v = <<>>
  <2>1. r = <<>>
    BY <1>1, OptIs
  <2> QED
    BY <2>1, GivenNone DEF GivenBy
<1>2. CASE v # <<>>
  <2>1. PICK i \in 1..Len(m.items) : /\ m.items[i] \in ReportItems /\ m.items[i].key = "charging"
                                     /\ v = AsRecord(m.items[i]).value
    BY <1>2, StatusTagIs, StatusRead
  <2> DEFINE b == m.items[i].value
             n == IF b THEN 1 ELSE 0
  <2>2. b \in BOOLEAN /\ v = Opt(n)
    BY <2>1, ReportValue, Zenon
  <2>3. m.items[i] \in Plain(m.items)
    BY <2>1, PlainItem
  <2> HIDE DEF v, n
  <2>4. c = Opt(n) /\ c # <<>> /\ c[1] = n
    <3>1. U8(v) = U8(Opt(n))
      BY <2>2, Zenon
    <3>2. U8(Opt(n)) = Opt(n) /\ Opt(n) # <<>> /\ Opt(n)[1] = n
      BY OptIs, Zenon
    <3> QED
      BY <3>1, <3>2, Zenon
  <2> USE DEF n
  <2>5. r = Opt(n = 1)
    BY <2>4, Zenon
  <2>6. (n = 1) = b
    <3>1. CASE b
      <4>1. b = TRUE
        BY <2>2, <3>1, Zenon
      <4>2. n = 1
        BY <3>1, Zenon
      <4> QED
        BY <4>1, <4>2, Zenon
    <3>2. CASE ~b
      <4>1. b = FALSE
        BY <2>2, <3>2, Zenon
      <4>2. n = 0
        BY <3>2, Zenon
      <4>3. 0 # 1
        OBVIOUS
      <4> QED
        BY <4>1, <4>2, <4>3, Zenon
    <3> QED
      BY <3>1, <3>2
  <2>7. r = Opt(m.items[i].value)
    BY <2>5, <2>6, Zenon
  <2>8. "charging" \notin DOMAIN Codes
    BY NoCode
  <2> HIDE DEF r
  <2>9. GivenBy(m.items, "charging", r)
    BY <2>1, <2>3, <2>7, <2>8, GivenItem, Zenon DEF GivenBy
  <2> QED
    BY <2>9, Zenon DEF r, v
<1> QED
  BY <1>1, <1>2

\* the signal,
LEMMA WifiGiven ==
  ASSUME NEW m, m.items \in Seq(ReportItems), NEW f, ReadAs(m, f)
  PROVE  GivenBy(m.items, "wifi", Wide(Last(f, 10), 4, TRUE))
<1> DEFINE v == Last(f, 10)
<1>1. CASE v = <<>>
  BY <1>1, OptIs, GivenNone DEF GivenBy
<1>2. CASE v # <<>>
  <2>1. PICK i \in 1..Len(m.items) : /\ m.items[i] \in ReportItems /\ m.items[i].key = "wifi"
                                     /\ v = AsRecord(m.items[i]).value
    BY <1>2, StatusTagIs, StatusRead
  <2>2. v = LittleEndian(m.items[i].value, 4) /\ m.items[i].value \in Int32
    BY <2>1, ReportValue
  <2>3. m.items[i] \in Plain(m.items)
    BY <2>1, PlainItem
  <2>4. Wide(v, 4, TRUE) = Opt(m.items[i].value)
    BY <2>2, Wide32
  <2>5. "wifi" \notin DOMAIN Codes
    BY NoCode
  <2> QED
    BY <2>1, <2>3, <2>4, <2>5, GivenItem DEF GivenBy
<1> QED
  BY <1>1, <1>2

\* the device.
LEMMA DeviceGiven ==
  ASSUME NEW m, m.items \in Seq(ReportItems), NEW f, ReadAs(m, f)
  PROVE  GivenBy(m.items, "device", Named(U8(Last(f, 17)), 0..3))
<1> DEFINE v == Last(f, 17)
<1>0. Codes["device"] = 0..3
  BY DEF Codes
<1>1. CASE v = <<>>
  <2>1. U8(v) = <<>>
    BY <1>1, OptIs
  <2>2. Named(<<>>, 0..3) = <<>>
    BY <1>0, NamedIs
  <2> QED
    BY <2>1, <2>2, GivenNone DEF GivenBy
<1>2. CASE v # <<>>
  <2>1. PICK i \in 1..Len(m.items) : /\ m.items[i] \in ReportItems /\ m.items[i].key = "device"
                                     /\ v = AsRecord(m.items[i]).value
    BY <1>2, StatusTagIs, StatusRead
  <2>2. v = Opt(m.items[i].value)
    BY <2>1, ReportValue
  <2>3. m.items[i] \in Plain(m.items)
    BY <2>1, PlainItem
  <2>4. U8(v) = Opt(m.items[i].value)
    BY <2>2, OptIs
  <2>5. Named(U8(v), 0..3) = Opt(Code("device", m.items[i].value)) /\ "device" \in DOMAIN Codes
    BY <1>0, <2>4, NamedIs
  <2> QED
    BY <2>1, <2>3, <2>5, GivenItem DEF GivenBy
<1> QED
  BY <1>1, <1>2

\* A fuel field counts once: it is that of an item no other is like.
LEMMA FuelRead ==
  ASSUME NEW m, m.items \in Seq(ReportItems), NEW f, ReadAs(m, f), Len(f) = Len(m.items),
         NEW key \in {"fuel_level", "fuel_percent"}, NEW t, t = StatusTag[key]
  PROVE  \/ Single(f, t) = <<>>
         \/ \E x \in Plain(m.items) : x.key = key /\ Single(f, t) = Opt(x.value)
<1>1. CASE ~(Once(f, t) /\ Len(Last(f, t)) = 1)
  BY <1>1 DEF Single
<1>2. CASE Once(f, t) /\ Len(Last(f, t)) = 1
  <2>1. PICK j \in DOMAIN f : At(f, t) = {j}
    BY <1>2 DEF Once
  <2>2. Last(f, t) # <<>>
    <3>1. Len(<<>>) # 1
      OBVIOUS
    <3> QED
      BY <1>2, <3>1, Zenon
  <2>3. key \in DOMAIN StatusTag
    BY StatusTagIs
  <2>4. PICK i \in 1..Len(m.items) : /\ m.items[i] \in ReportItems /\ m.items[i].key = key
                                     /\ Last(f, t) = AsRecord(m.items[i]).value
    BY <2>2, <2>3, StatusRead
  <2>5. ASSUME NEW k \in 1..Len(m.items), m.items[k].key = key PROVE k = j
    <3>1. m.items[k] \in ReportItems /\ k \in DOMAIN f /\ f[k] = AsRecord(m.items[k])
      BY <2>5, ElementOfSeq, LenProperties DEF ReadAs
    <3>2. f[k].tag = t
      BY <2>5, <3>1, ReportTag
    <3>3. k \in At(f, t)
      BY <3>1, <3>2 DEF At
    <3> QED
      BY <2>1, <3>3
  <2>6. \A k \in 1..Len(m.items) : m.items[k].key = m.items[i].key => k = i
    <3>1. i = j
      BY <2>4, <2>5
    <3> QED
      BY <2>4, <2>5, <3>1
  <2>7. m.items[i] \in Plain(m.items)
    BY <2>6, PlainItem
  <2>8. Last(f, t) = Opt(m.items[i].value)
    BY <2>4, ReportValue, Zenon
  <2>9. Single(f, t) = Opt(m.items[i].value)
    BY <1>2, <2>8 DEF Single
  <2> QED
    BY <2>4, <2>7, <2>9
<1> QED
  BY <1>1, <1>2

\* The fuel, as a level
LEMMA FuelLevelGiven ==
  ASSUME NEW m, m.items \in Seq(ReportItems), NEW f, ReadAs(m, f), Len(f) = Len(m.items)
  PROVE  GivenBy(m.items, "fuel_level", Named(Single(f, 20), 0..5))
<1> DEFINE v == Single(f, 20)
<1>0. Codes["fuel_level"] = 0..5 /\ StatusTag["fuel_level"] = 20
  BY StatusTagIs DEF Codes
<1>1. v = <<>> \/ \E x \in Plain(m.items) : x.key = "fuel_level" /\ v = Opt(x.value)
  BY <1>0, FuelRead
<1> HIDE DEF v
<1>2. CASE v = <<>>
  <2>1. Named(<<>>, 0..5) = <<>>
    BY <1>0, NamedIs
  <2> QED
    BY <1>2, <2>1, GivenNone DEF GivenBy, v
<1>3. CASE v # <<>>
  <2>1. PICK x \in Plain(m.items) : x.key = "fuel_level" /\ v = Opt(x.value)
    BY <1>1, <1>3
  <2>2. Named(v, 0..5) = Opt(Code("fuel_level", x.value)) /\ "fuel_level" \in DOMAIN Codes
    BY <1>0, <2>1, NamedIs
  <2>3. Given(Plain(m.items), "fuel_level", Named(v, 0..5))
    BY <2>1, <2>2, GivenItem
  <2> QED
    BY <2>3 DEF GivenBy, v
<1> QED
  BY <1>2, <1>3

\* A percentage is shown or not.
LEMMA PercentIs == \A v : Percent(v) \in {v, <<>>}
BY DEF Percent

\* and in percent.
LEMMA FuelPercentGiven ==
  ASSUME NEW m, m.items \in Seq(ReportItems), NEW f, ReadAs(m, f), Len(f) = Len(m.items)
  PROVE  GivenBy(m.items, "fuel_percent", Percent(Single(f, 27)))
<1> DEFINE v == Single(f, 27)
<1>0. StatusTag["fuel_percent"] = 27
  BY StatusTagIs
<1>1. v = <<>> \/ \E x \in Plain(m.items) : x.key = "fuel_percent" /\ v = Opt(x.value)
  BY <1>0, FuelRead
<1> HIDE DEF v
<1>2. CASE Percent(v) = <<>>
  BY <1>2, GivenNone DEF GivenBy, v
<1>3. CASE Percent(v) # <<>>
  <2>1. Percent(v) = v /\ v # <<>>
    BY <1>3, PercentIs
  <2>2. PICK x \in Plain(m.items) : x.key = "fuel_percent" /\ v = Opt(x.value)
    BY <1>1, <2>1
  <2>3. "fuel_percent" \notin DOMAIN Codes
    BY NoCode
  <2>4. Given(Plain(m.items), "fuel_percent", v)
    BY <2>2, <2>3, GivenItem
  <2> QED
    BY <2>1, <2>4 DEF GivenBy, v
<1> QED
  BY <1>2, <1>3

\* What an appliance status reads is what its items say.
StatusOf(items, s) ==
  DOMAIN s = DOMAIN StatusTag /\ \A k \in DOMAIN StatusTag : GivenBy(items, k, s[k])

\* An appliance status that was read to its end says what its items say.
LEMMA StatusGiven ==
  ASSUME NEW m, m.items \in Seq(ReportItems), NEW f, ReadAs(m, f), Len(f) = Len(m.items)
  PROVE  StatusOf(m.items, ApplianceStatus(f))
<1> DEFINE b == U8(Last(f, 1))
           c == LET u == U8(Last(f, 2)) IN IF u = <<>> THEN u ELSE Opt(u[1] = 1)
           w == Wide(Last(f, 10), 4, TRUE)
           d == Named(U8(Last(f, 17)), 0..3)
           l == Named(Single(f, 20), 0..5)
           p == Percent(Single(f, 27))
           s == ApplianceStatus(f)
<1>1. s = [battery |-> b, charging |-> c, wifi |-> w, device |-> d, fuel_level |-> l, fuel_percent |-> p]
  BY DEF ApplianceStatus
<1>2. /\ GivenBy(m.items, "battery", b) /\ GivenBy(m.items, "charging", c)
      /\ GivenBy(m.items, "wifi", w) /\ GivenBy(m.items, "device", d)
      /\ GivenBy(m.items, "fuel_level", l) /\ GivenBy(m.items, "fuel_percent", p)
  BY BatteryGiven, ChargingGiven, WifiGiven, DeviceGiven, FuelLevelGiven, FuelPercentGiven
<1> HIDE DEF b, c, w, d, l, p, s
<1>3. /\ DOMAIN s = {"battery", "charging", "wifi", "device", "fuel_level", "fuel_percent"}
      /\ s["battery"] = b /\ s["charging"] = c /\ s["wifi"] = w /\ s["device"] = d
      /\ s["fuel_level"] = l /\ s["fuel_percent"] = p
  BY <1>1
<1>4. StatusOf(m.items, s)
  BY <1>2, <1>3, StatusTagIs DEF StatusOf
<1> QED
  BY <1>4 DEF s

\* At first there is no value.
LEMMA NothingRead == DOMAIN Nothing = DOMAIN StatusTag /\ \A k \in DOMAIN StatusTag : Nothing[k] = <<>>
<1>1. \A t : At(<<>>, t) = {} /\ Last(<<>>, t) = <<>> /\ ~Once(<<>>, t) /\ Single(<<>>, t) = <<>>
  BY DEF At, Last, Once, Single
<1>2. /\ U8(<<>>) = <<>> /\ Wide(<<>>, 4, TRUE) = <<>> /\ Percent(<<>>) = <<>>
      /\ Named(<<>>, 0..3) = <<>> /\ Named(<<>>, 0..5) = <<>>
  BY OptIs DEF Named, Percent
<1>3. Nothing = [battery |-> <<>>, charging |-> <<>>, wifi |-> <<>>, device |-> <<>>,
                 fuel_level |-> <<>>, fuel_percent |-> <<>>]
  BY <1>1, <1>2 DEF Nothing, ApplianceStatus
<1> DEFINE s == Nothing
<1> HIDE DEF s
<1>4. /\ DOMAIN s = {"battery", "charging", "wifi", "device", "fuel_level", "fuel_percent"}
      /\ s["battery"] = <<>> /\ s["charging"] = <<>> /\ s["wifi"] = <<>> /\ s["device"] = <<>>
      /\ s["fuel_level"] = <<>> /\ s["fuel_percent"] = <<>>
  BY <1>3 DEF s
<1>5. DOMAIN s = DOMAIN StatusTag /\ \A k \in DOMAIN StatusTag : s[k] = <<>>
  BY <1>4, StatusTagIs
<1> QED
  BY <1>5 DEF s

\* What the session keeps of the statuses relayed.
SaidInv ==
  /\ said \subseteq ReportItems
  /\ stage \in {"arrived", "scanning"} /\ sent.type = 131 => Plain(sent.items) \subseteq said
  /\ DOMAIN cache = DOMAIN StatusTag /\ \A k \in DOMAIN StatusTag : Given(said, k, cache[k])

\* Nothing is kept at first.
LEMMA SaidInit == Init => SaidInv
<1> SUFFICES ASSUME Init PROVE SaidInv
  OBVIOUS
<1>1. stage \in {"idle", "linked"} /\ cache = Nothing /\ said = {}
  BY DEF Init
<1>2. \A k : Given(said, k, <<>>)
  BY GivenNone
<1> QED
  BY <1>1, <1>2, NothingRead DEF SaidInv

\* An appliance status that arrives is one of the items of an appliance.
LEMMA ReportArrives ==
  ASSUME NEW m, m \in Replies \/ HubSays(m), m.type = 131
  PROVE  m.items \in Seq(ReportItems) /\ Plain(m.items) \subseteq ReportItems
<1>1. CASE m \in PairingReplies
  <2>1. m.items = <<>>
    BY <1>1 DEF PairingReplies, Message
  <2>2. <<>> \in Seq(ReportItems) /\ Plain(<<>>) = {}
    BY DEF Plain
  <2> QED
    BY <2>1, <2>2
<1>2. CASE m \in CapabilityReplies
  BY <1>2, CapabilityCarries
<1>3. CASE HubSays(m)
  <2>1. Reported(m) \/ Cooked(m) \/ m = Message(135, <<>>, <<>>)
    BY <1>3 DEF HubSays, Reported, Cooked
  <2>2. Cooked(m) => m.type = 128
    BY CookedIs
  <2>3. m = Message(135, <<>>, <<>>) => m.type = 135
    BY DEF Message
  <2>4. m.items \in Seq(ReportItems)
    BY <2>1, <2>2, <2>3, ReportedIs
  <2>5. \A i \in DOMAIN m.items : m.items[i] \in ReportItems
    BY <2>4, ElementOfSeq, LenProperties
  <2> QED
    BY <2>4, <2>5 DEF Plain
<1> QED
  BY <1>1, <1>2, <1>3 DEF Replies

\* Every step of the link leaves in the session what the hub said.
LEMMA SaidStep ==
  LinkInv /\ FrameInv /\ ScanInv /\ SaidInv /\ [Next]_vars => SaidInv'
<1> SUFFICES ASSUME LinkInv, FrameInv, ScanInv, SaidInv, [Next]_vars PROVE SaidInv'
  OBVIOUS
<1>1. CASE Arrive
  <2>1. FrameInv' /\ stage' = "arrived"
    BY <1>1, FrameStep DEF Arrive
  <2>2. sent' \in Replies \/ HubSays(sent')
    BY <2>1 DEF FrameInv, HubSays, Replies
  <2>3. /\ said' = IF sent'.type = 131 THEN said \cup Plain(sent'.items) ELSE said
        /\ cache' = cache
    BY <1>1 DEF Arrive
  <2> DEFINE p == Plain(sent'.items)
  <2>4. sent'.type = 131 => p \subseteq ReportItems
    BY <2>2, ReportArrives
  <2> HIDE DEF p
  <2>5. said \subseteq said' /\ said' \subseteq ReportItems /\ (sent'.type = 131 => p \subseteq said')
    BY <2>3, <2>4 DEF SaidInv, p
  <2>6. \A k \in DOMAIN StatusTag : Given(said', k, cache'[k])
    BY <2>3, <2>5, GivenMore DEF SaidInv
  <2> QED
    BY <2>3, <2>5, <2>6 DEF SaidInv, p
<1>2. CASE ReadAppliance
  <2>1. /\ stage = "scanning" /\ ~scanning /\ got.type = 131 /\ said' = said
        /\ cache' = IF tail = <<>> THEN Merged(cache, ApplianceStatus(found)) ELSE cache
        /\ stage' = "handled"
    BY <1>2 DEF ReadAppliance, Read, Dismiss, Done
  <2>2. CASE tail # <<>>
    BY <2>1, <2>2 DEF SaidInv
  <2>3. CASE tail = <<>>
    <3>1. sent.type = 131 /\ Reported(sent) /\ payload = sent.body /\ TlvInv
      BY <2>1, NoNestIn DEF ScanInv, Due
    <3>2. sent.items \in Seq(ReportItems) /\ Listed(sent)
      BY <3>1, ReportedIs
    <3>3. ReadAs(sent, found) /\ Len(found) = Len(sent.items)
      BY <2>1, <2>3, <3>1, <3>2, ListRead
    <3> DEFINE s == ApplianceStatus(found)
    <3>4. StatusOf(sent.items, s)
      BY <3>2, <3>3, StatusGiven
    <3>5. cache' = [k \in DOMAIN s |-> IF s[k] = <<>> THEN cache[k] ELSE s[k]]
      BY <2>1, <2>3 DEF Merged
    <3> HIDE DEF s
    <3>6. Plain(sent.items) \subseteq said
      BY <2>1, <3>1 DEF SaidInv
    <3>7. ASSUME NEW k \in DOMAIN StatusTag PROVE Given(said, k, cache'[k])
      <4>1. Given(said, k, s[k]) /\ Given(said, k, cache[k])
        BY <3>4, <3>6, GivenMore DEF StatusOf, GivenBy, SaidInv
      <4>2. cache'[k] \in {cache[k], s[k]}
        BY <3>4, <3>5 DEF StatusOf
      <4> QED
        BY <4>1, <4>2
    <3>8. DOMAIN cache' = DOMAIN StatusTag
      BY <3>4, <3>5 DEF StatusOf
    <3> QED
      BY <2>1, <3>7, <3>8 DEF SaidInv
  <2> QED
    BY <2>2, <2>3
<1>3. CASE Discover \/ QualifyGatt \/ RequireSupport \/ ChooseHub
  BY <1>3 DEF Discover, QualifyGatt, RequireSupport, ChooseHub, sessionVars, SaidInv
<1>4. CASE Receive \/ ListenOn \/ ScanStep \/ ReadNested
  BY <1>4 DEF Receive, ListenOn, Done, ScanStep, ReadNested, Read, sessionVars, SaidInv
<1>5. CASE ReadError \/ ReadCapabilities \/ Publish
  BY <1>5 DEF ReadError, ReadCapabilities, Publish, Read, Dismiss, Done, sessionVars, SaidInv
<1>6. CASE UNCHANGED vars
  BY <1>6 DEF vars, sessionVars, SaidInv
<1> QED
  BY <1>1, <1>2, <1>3, <1>4, <1>5, <1>6 DEF Next

-----------------------------------------------------------------------------
(* Rows, as they are shown.                                                *)

\* A row has one record of each of its tags.
LEMMA RowTags ==
  ASSUME NEW key \in Nests, NEW v \in RowValues
  PROVE  LET rs == RowRecords(key, v) IN
         /\ rs[1].tag = 1 /\ rs[1].value = Opt(v.slot)
         /\ rs[2].tag = (IF key = "burner" THEN 3 ELSE 12) /\ rs[2].value = Opt(v.state)
         /\ key = "probe" => Len(rs) = 3 /\ rs[3].tag = 10 /\ rs[3].value = LittleEndian(v.temp, 2)
         /\ key # "probe" => Len(rs) = 2
         /\ \A i, j \in 1..Len(rs) : rs[i].tag = rs[j].tag => i = j
<1> DEFINE rs == RowRecords(key, v)
<1>0. Opt(v.slot) = <<v.slot>> /\ Opt(v.state) = <<v.state>>
  BY DEF Opt
<1>1. CASE key = "probe"
  <2>1. rs = <<Slot(v), State(v), Temp(v)>> /\ Slot(v).tag = 1 /\ State(v).tag = 12 /\ Temp(v).tag = 10
        /\ Slot(v).value = <<v.slot>> /\ State(v).value = <<v.state>>
        /\ Temp(v).value = LittleEndian(v.temp, 2)
    BY <1>1, RowShort
  <2> HIDE DEF rs
  <2>2. Len(rs) = 3 /\ rs[1] = Slot(v) /\ rs[2] = State(v) /\ rs[3] = Temp(v)
    BY <2>1
  <2>3. \A i, j \in 1..3 : rs[i].tag = rs[j].tag => i = j
    BY <2>1, <2>2
  <2> QED
    BY <1>0, <1>1, <2>1, <2>2, <2>3 DEF rs
<1>2. CASE key = "timer"
  <2>1. rs = <<Slot(v), State(v)>> /\ Slot(v).tag = 1 /\ State(v).tag = 12
        /\ Slot(v).value = <<v.slot>> /\ State(v).value = <<v.state>>
    BY <1>2, RowShort
  <2> HIDE DEF rs
  <2>2. Len(rs) = 2 /\ rs[1] = Slot(v) /\ rs[2] = State(v)
    BY <2>1
  <2>3. \A i, j \in 1..2 : rs[i].tag = rs[j].tag => i = j
    BY <2>1, <2>2
  <2> QED
    BY <1>0, <1>2, <2>1, <2>2, <2>3 DEF rs
<1>3. CASE key = "burner"
  <2>1. rs = <<Slot(v), Burns(v)>> /\ Slot(v).tag = 1 /\ Burns(v).tag = 3
        /\ Slot(v).value = <<v.slot>> /\ Burns(v).value = <<v.state>>
    BY <1>3, RowShort
  <2> HIDE DEF rs
  <2>2. Len(rs) = 2 /\ rs[1] = Slot(v) /\ rs[2] = Burns(v)
    BY <2>1
  <2>3. \A i, j \in 1..2 : rs[i].tag = rs[j].tag => i = j
    BY <2>1, <2>2
  <2> QED
    BY <1>0, <1>3, <2>1, <2>2, <2>3 DEF rs
<1> QED
  BY <1>1, <1>2, <1>3 DEF Nests

\* What is read of one of them.
LEMMA RowLast ==
  ASSUME NEW key \in Nests, NEW v \in RowValues, NEW f, RowRead(key, v, f),
         NEW j \in 1..Len(RowRecords(key, v)), NEW t, t = RowRecords(key, v)[j].tag
  PROVE  Last(f, t) = IF j <= Len(f) THEN RowRecords(key, v)[j].value ELSE <<>>
<1> DEFINE rs == RowRecords(key, v)
<1>1. \A i \in 1..Len(rs) : rs[i].tag = t => i = j
  BY RowTags
<1>2. /\ f \in Seq(Records) /\ Len(f) <= Len(rs) /\ DOMAIN f = 1..Len(f) /\ Len(f) \in Nat
      /\ Len(rs) \in Nat
      /\ \A i \in 1..Len(f) : f[i] = rs[i]
  BY RowEnds, LenProperties DEF RowRead
<1> HIDE DEF rs
<1>3. \A i \in 1..Len(f) : i \in 1..Len(rs) /\ (f[i].tag = t => i = j)
  BY <1>1, <1>2
<1>4. CASE j <= Len(f)
  <2>1. j \in 1..Len(f) /\ f[j] = rs[j] /\ f[j].tag = t
    BY <1>2, <1>4 DEF rs
  <2>2. At(f, t) = {j}
    BY <1>2, <1>3, <2>1 DEF At
  <2>3. Latest({j}) = j
    BY DEF Latest
  <2> QED
    BY <1>4, <2>1, <2>2, <2>3 DEF Last, rs
<1>5. CASE ~(j <= Len(f))
  <2>1. At(f, t) = {}
    BY <1>2, <1>3, <1>5 DEF At
  <2> QED
    BY <1>5, <2>1 DEF Last
<1> QED
  BY <1>4, <1>5

\* The codes a row's state has names for.
RowCodes(key) == IF key = "burner" THEN 0..3 ELSE 0..10
Whole(key, v) == v.kept >= Len(Bytes(RowRecords(key, v)))
StateRead(key, v, s) ==
  /\ s \in {<<>>, Opt(Unlisted), Opt(v.state)}
  /\ Whole(key, v) => s = Opt(IF v.state \in RowCodes(key) THEN v.state ELSE Unlisted)

\* The number of a row and its state,
RowSaid(key, v, r) ==
  /\ r.number = IF v.kept < 3 THEN <<>> ELSE Opt(v.slot + 1)
  /\ StateRead(key, v, r.state)
\* and the temperature of a probe.
TempRead(v, w) ==
  /\ w \in {<<>>, Opt(v.temp)} /\ w # Opt(NoReading)
  /\ Whole("probe", v) => w = IF v.temp = NoReading THEN <<>> ELSE Opt(v.temp)

\* A row's number is read once it came,
LEMMA NumberRead ==
  ASSUME NEW key \in Nests, NEW v \in RowValues, NEW f, RowRead(key, v, f)
  PROVE  OneBased(U8(Last(f, 1))) = IF v.kept < 3 THEN <<>> ELSE Opt(v.slot + 1)
<1>1. Len(f) = 0 <=> v.kept < 3
  BY DEF RowRead
<1>2. Len(RowRecords(key, v)) \in {2, 3} /\ Len(f) \in Nat
  BY RowEnds, LenProperties DEF RowRead
<1>3. 1 \in 1..Len(RowRecords(key, v))
  BY <1>2
<1>4. Last(f, 1) = IF 1 <= Len(f) THEN Opt(v.slot) ELSE <<>>
  BY <1>3, RowTags, RowLast
<1>5. CASE Len(f) = 0
  <2>1. Last(f, 1) = <<>>
    BY <1>4, <1>5
  <2> QED
    BY <1>1, <1>5, <2>1, OptIs
<1>6. CASE Len(f) # 0
  <2>1. Last(f, 1) = Opt(v.slot)
    BY <1>2, <1>4, <1>6
  <2>2. OneBased(Opt(v.slot)) = Opt(v.slot + 1)
    BY OptIs DEF OneBased
  <2>3. U8(Last(f, 1)) = Opt(v.slot)
    BY <2>1, OptIs, Zenon
  <2> QED
    BY <1>1, <1>6, <2>2, <2>3
<1> QED
  BY <1>5, <1>6

\* Looking up a code.
LEMMA LookUpIs ==
  ASSUME NEW v, NEW codes
  PROVE  /\ LookedUp(Opt(v), codes) = Opt(IF v \in codes THEN v ELSE Unlisted)
         /\ Named(Opt(v), codes) = Opt(IF v \in codes THEN v ELSE Unlisted)
         /\ LookedUp(<<>>, codes) = Opt(Unlisted) /\ Named(<<>>, codes) = <<>>
BY OptIs DEF LookedUp, Named

\* its state as the code it came in, if it came,
LEMMA StateIs ==
  ASSUME NEW key \in Nests, NEW v \in RowValues, NEW f, RowRead(key, v, f),
         NEW t, t = IF key = "burner" THEN 3 ELSE 12
  PROVE  /\ StateRead(key, v, LookedUp(U8(Last(f, t)), RowCodes(key)))
         /\ StateRead(key, v, Named(U8(Last(f, t)), RowCodes(key)))
<1>1. Whole(key, v) => Len(f) = Len(RowRecords(key, v))
  BY DEF RowRead, Whole
<1>2. Len(RowRecords(key, v)) \in {2, 3} /\ Len(f) \in Nat
  BY RowEnds, LenProperties DEF RowRead
<1>3. 2 \in 1..Len(RowRecords(key, v))
  BY <1>2
<1>4. Last(f, t) = IF 2 <= Len(f) THEN Opt(v.state) ELSE <<>>
  BY <1>3, RowTags, RowLast
<1>5. CASE 2 <= Len(f)
  <2>1. U8(Last(f, t)) = Opt(v.state)
    BY <1>4, <1>5, OptIs
  <2> DEFINE s == Opt(IF v.state \in RowCodes(key) THEN v.state ELSE Unlisted)
  <2>2. LookedUp(U8(Last(f, t)), RowCodes(key)) = s /\ Named(U8(Last(f, t)), RowCodes(key)) = s
    BY <2>1, LookUpIs
  <2>3. StateRead(key, v, s)
    BY DEF StateRead
  <2> QED
    BY <2>2, <2>3
<1>6. CASE ~(2 <= Len(f))
  <2>1. Last(f, t) = <<>>
    BY <1>4, <1>6
  <2>2. U8(Last(f, t)) = <<>>
    BY <2>1, OptIs
  <2>3. ~Whole(key, v)
    BY <1>1, <1>2, <1>6
  <2> QED
    BY <2>2, <2>3, LookUpIs DEF StateRead
<1> QED
  BY <1>5, <1>6

\* A temperature, or that there is none.
LEMMA TemperatureIs ==
  /\ \A n : Temperature(Opt(n)) = IF n = NoReading THEN <<>> ELSE Opt(n)
  /\ \A w : Temperature(w) \in {w, <<>>} /\ Temperature(w) # Opt(NoReading)
  /\ Temperature(<<>>) = <<>>
<1>1. \A w : Temperature(w) = IF w = Opt(NoReading) THEN <<>> ELSE w
  BY DEF Temperature
<1> QED
  BY <1>1, OptIs

\* and the temperature of a probe.
LEMMA TempIs ==
  ASSUME NEW v \in RowValues, NEW f, RowRead("probe", v, f)
  PROVE  TempRead(v, Temperature(Wide(Last(f, 10), 2, TRUE)))
<1>0. "probe" \in Nests /\ v.temp \in Int16
  BY RowIs DEF Nests
<1>1. Whole("probe", v) => Len(f) = 3
  BY <1>0, RowTags DEF RowRead, Whole
<1>2. Len(RowRecords("probe", v)) = 3
  BY <1>0, RowTags
<1>3. 3 \in 1..Len(RowRecords("probe", v))
  BY <1>2
<1>4. Last(f, 10) = IF 3 <= Len(f) THEN LittleEndian(v.temp, 2) ELSE <<>>
  BY <1>0, <1>3, RowTags, RowLast
<1> DEFINE w == Wide(Last(f, 10), 2, TRUE)
           c == Temperature(w)
<1>5. CASE 3 <= Len(f)
  <2>1. w = Opt(v.temp)
    BY <1>0, <1>4, <1>5, Wide16
  <2> HIDE DEF w
  <2>2. c = (IF v.temp = NoReading THEN <<>> ELSE Opt(v.temp)) /\ c # Opt(NoReading)
    BY <2>1, TemperatureIs
  <2> HIDE DEF c
  <2>3. TempRead(v, c)
    BY <2>2 DEF TempRead
  <2> QED
    BY <2>3 DEF c, w
<1>6. CASE ~(3 <= Len(f))
  <2>1. Last(f, 10) = <<>>
    BY <1>4, <1>6
  <2>2. w = <<>>
    BY <2>1, OptIs
  <2>3. ~Whole("probe", v)
    BY <1>1, <1>6
  <2> HIDE DEF w
  <2>4. c = <<>> /\ c # Opt(NoReading)
    BY <2>2, TemperatureIs
  <2> HIDE DEF c
  <2>5. TempRead(v, c)
    BY <2>3, <2>4 DEF TempRead
  <2> QED
    BY <2>5 DEF c, w
<1> QED
  BY <1>5, <1>6

\* A row read of its records.
LEMMA RowShown ==
  ASSUME NEW x, NEW r, x.key \in Nests, x.value \in RowValues, RowOfItem(x, r)
  PROVE  /\ r.tag = RowTag[x.key] /\ RowSaid(x.key, x.value, r.row)
         /\ x.key = "probe" => TempRead(x.value, r.row.temp)
<1> DEFINE key == x.key
           v == x.value
           t == RowTag[key]
<1>1. PICK f : RowRead(key, v, f) /\ r = [tag |-> t, row |-> RowOf(t, f)]
  BY DEF RowOfItem
<1>2. r.tag = t /\ r.row = RowOf(t, f)
  BY <1>1
<1>3. OneBased(U8(Last(f, 1))) = IF v.kept < 3 THEN <<>> ELSE Opt(v.slot + 1)
  BY <1>1, NumberRead
<1>4. CASE key = "probe"
  <2>1. t = 4
    BY <1>4, RowKeys
  <2>2. RowOf(t, f) = ProbeRow(f)
    BY <2>1 DEF RowOf
  <2>3. /\ ProbeRow(f).number = OneBased(U8(Last(f, 1)))
        /\ ProbeRow(f).state = LookedUp(U8(Last(f, 12)), 0..10)
        /\ ProbeRow(f).temp = Temperature(Wide(Last(f, 10), 2, TRUE))
    BY DEF ProbeRow
  <2>4. RowCodes(key) = 0..10
    BY <1>4 DEF RowCodes
  <2>5. StateRead(key, v, ProbeRow(f).state)
    BY <1>1, <1>4, <2>3, <2>4, StateIs
  <2>6. TempRead(v, ProbeRow(f).temp)
    BY <1>1, <1>4, <2>3, TempIs
  <2> QED
    BY <1>2, <1>3, <2>2, <2>3, <2>5, <2>6 DEF RowSaid
<1>5. CASE key = "timer"
  <2>1. t = 6
    BY <1>5, RowKeys
  <2>2. RowOf(t, f) = TimerRow(f)
    BY <2>1 DEF RowOf
  <2>3. /\ TimerRow(f).number = OneBased(U8(Last(f, 1)))
        /\ TimerRow(f).state = LookedUp(U8(Last(f, 12)), 0..10)
    BY DEF TimerRow
  <2>4. RowCodes(key) = 0..10
    BY <1>5 DEF RowCodes
  <2>5. StateRead(key, v, TimerRow(f).state)
    BY <1>1, <1>5, <2>3, <2>4, StateIs
  <2> QED
    BY <1>2, <1>3, <1>5, <2>2, <2>3, <2>5 DEF RowSaid
<1>6. CASE key = "burner"
  <2>1. t = 7
    BY <1>6, RowKeys
  <2>2. RowOf(t, f) = BurnerRow(f)
    BY <2>1 DEF RowOf
  <2>3. /\ BurnerRow(f).number = OneBased(U8(Last(f, 1)))
        /\ BurnerRow(f).state = Named(U8(Last(f, 3)), 0..3)
    BY DEF BurnerRow
  <2>4. RowCodes(key) = 0..3
    BY <1>6 DEF RowCodes
  <2>5. StateRead(key, v, BurnerRow(f).state)
    BY <1>1, <1>6, <2>3, <2>4, StateIs
  <2> QED
    BY <1>2, <1>3, <1>6, <2>2, <2>3, <2>5 DEF RowSaid
<1> QED
  BY <1>4, <1>5, <1>6 DEF Nests

-----------------------------------------------------------------------------
(* The rows shown of a cook status.                                        *)

\* The numbers of a row.
LEMMA RowNumbers == ASSUME NEW v \in RowValues PROVE v.slot \in Nat /\ v.kept \in Nat
<1>1. v.slot \in Byte /\ v.kept \in Nat
  BY RowIs
<1>2. Byte \subseteq Nat
  BY DEF Byte
<1> QED
  BY <1>1, <1>2

\* All the rows read of a message.
RowsOf(m, f, R) ==
  /\ m.items \in Seq(StatusItems) /\ ReadAs(m, f)
  /\ DOMAIN R = Nested(f) /\ \A j \in DOMAIN R : RowOfItem(m.items[j], R[j])

\* A row read is that of an item, said as it was.
LEMMA RowHere ==
  ASSUME NEW m, NEW f, NEW R, RowsOf(m, f, R), NEW j \in DOMAIN R
  PROVE  /\ j \in 1..Len(m.items) /\ m.items[j].key \in Nests /\ m.items[j].value \in RowValues
         /\ R[j].tag = RowTag[m.items[j].key] /\ RowSaid(m.items[j].key, m.items[j].value, R[j].row)
         /\ m.items[j].key = "probe" => TempRead(m.items[j].value, R[j].row.temp)
<1>1. j \in Nested(f) /\ RowOfItem(m.items[j], R[j]) /\ m.items \in Seq(StatusItems) /\ ReadAs(m, f)
  BY DEF RowsOf
<1>2. j \in 1..Len(m.items) /\ m.items[j].key \in Nests /\ m.items[j].value \in RowValues
  BY <1>1, NestedItem
<1> QED
  BY <1>1, <1>2, RowShown

\* What nests a row, among the records read, has its row.
LEMMA RowThere ==
  ASSUME NEW m, NEW f, NEW R, RowsOf(m, f, R), NEW j \in 1..Len(f), m.items[j].key \in Nests
  PROVE  j \in DOMAIN R
<1>1. /\ m.items \in Seq(StatusItems) /\ Len(f) <= Len(m.items) /\ DOMAIN f = 1..Len(f)
      /\ f[j] = AsRecord(m.items[j]) /\ Len(f) \in Nat /\ Len(m.items) \in Nat
  BY LenProperties DEF RowsOf, ReadAs
<1>2. j \in 1..Len(m.items)
  BY <1>1
<1> DEFINE x == m.items[j]
<1>3. x \in StatusItems
  BY <1>1, <1>2, ElementOfSeq
<1> HIDE DEF x
<1>4. AsRecord(x).tag \in 4..7
  <2>1. x.key = "probe" => AsRecord(x).tag = 4
    BY <1>3, CookItem
  <2>2. x.key = "timer" => AsRecord(x).tag = 6
    BY <1>3, CookItem
  <2>3. x.key = "burner" => AsRecord(x).tag = 7
    BY <1>3, CookItem
  <2>4. x.key \in Nests
    BY DEF x
  <2> QED
    BY <2>1, <2>2, <2>3, <2>4 DEF Nests
<1>5. j \in Nested(f)
  BY <1>1, <1>4 DEF Nested, x
<1> QED
  BY <1>5 DEF RowsOf

\* Rows of a kind have the kind's tag, and none is a timed session.
LEMMA KindOf ==
  ASSUME NEW k \in Nests, NEW l \in Nests
  PROVE  (RowTag[k] = RowTag[l] => k = l) /\ RowTag[k] # 5
BY RowKeys DEF Nests

\* Of each number the first row is shown: that of an item that the hub sent
\* with its number, of which there is no earlier one.
LEMMA ShownWasSent ==
  ASSUME NEW m, NEW f, NEW R, RowsOf(m, f, R), NEW key \in Nests,
         NEW r \in FirstRows(R, RowTag[key], MaxSlots)
  PROVE  \E v \in SentRows(m, key) :
           /\ v \in RowValues /\ r.number = Opt(v.slot + 1) /\ StateRead(key, v, r.state)
           /\ key = "probe" => TempRead(v, r.temp)
<1> DEFINE t == RowTag[key]
           it(i) == m.items[i]
           number(i) == R[i].row.number
           tagged == {i \in DOMAIN R : R[i].tag = t}
<1>1. PICK j \in tagged : /\ number(j) # <<>> /\ number(j)[1] <= MaxSlots
                          /\ \A k \in tagged : k < j => number(k) # number(j)
                          /\ r = R[j].row
  BY DEF FirstRows
<1>2. /\ j \in DOMAIN R /\ j \in 1..Len(m.items) /\ it(j).key = key /\ it(j).value \in RowValues
      /\ RowSaid(key, it(j).value, r) /\ (key = "probe" => TempRead(it(j).value, r.temp))
  BY <1>1, RowHere, KindOf
<1> DEFINE v == it(j).value
<1>3. /\ ~(v.kept < 3) /\ r.number = Opt(v.slot + 1) /\ StateRead(key, v, r.state)
      /\ v.kept \in Nat /\ v.slot \in Nat
  BY <1>1, <1>2, RowNumbers DEF RowSaid
<1>4. v.slot < MaxSlots
  <2>1. r.number[1] = v.slot + 1
    BY <1>3, OptIs, Zenon
  <2> QED
    BY <1>1, <1>3, <2>1 DEF MaxSlots
<1>5. /\ m.items \in Seq(StatusItems) /\ DOMAIN m.items = 1..Len(m.items) /\ Len(m.items) \in Nat
      /\ Len(f) \in Nat /\ j \in 1..Len(f)
  BY <1>2, NestedItem, LenProperties DEF RowsOf, ReadAs
<1>6. ASSUME NEW k \in DOMAIN m.items, it(k).key = key, it(k).value.kept >= 3, k < j
      PROVE  it(k).value.slot # v.slot
  <2>1. k \in 1..Len(f)
    BY <1>5, <1>6
  <2>2. k \in DOMAIN R
    BY <1>6, <2>1, RowThere
  <2>3. R[k].tag = t /\ RowSaid(key, it(k).value, R[k].row) /\ it(k).value \in RowValues
    BY <1>6, <2>2, RowHere
  <2>4. number(k) = Opt(it(k).value.slot + 1)
    BY <1>6, <2>3, RowNumbers DEF RowSaid
  <2>5. number(k) # number(j)
    BY <1>1, <1>6, <2>2, <2>3
  <2> QED
    BY <1>1, <1>3, <2>4, <2>5
<1>7. v \in SentRows(m, key)
  BY <1>2, <1>3, <1>4, <1>5, <1>6 DEF SentRows
<1> QED
  BY <1>2, <1>3, <1>7

\* Of a message sent whole, each such row is shown.
LEMMA SentIsShown ==
  ASSUME NEW m, NEW f, NEW R, RowsOf(m, f, R), NEW key \in Nests, IsWhole(m), Complete(m, f),
         NEW v \in SentRows(m, key)
  PROVE  \E r \in FirstRows(R, RowTag[key], MaxSlots) :
           /\ v \in RowValues /\ Whole(key, v)
           /\ r.number = Opt(v.slot + 1) /\ StateRead(key, v, r.state)
           /\ key = "probe" => TempRead(v, r.temp)
<1> DEFINE t == RowTag[key]
           it(i) == m.items[i]
           number(i) == R[i].row.number
           tagged == {i \in DOMAIN R : R[i].tag = t}
           rows == {i \in DOMAIN m.items : it(i).key = key /\ it(i).value.kept >= 3}
<1>1. PICK j \in rows : /\ it(j).value.slot < MaxSlots
                        /\ \A k \in rows : k < j => it(k).value.slot # it(j).value.slot
                        /\ v = it(j).value
  BY DEF SentRows
<1>2. Len(f) = Len(m.items) /\ DOMAIN m.items = 1..Len(m.items) /\ m.items \in Seq(StatusItems)
  BY LenProperties DEF Complete, RowsOf
<1>3. j \in DOMAIN R
  BY <1>1, <1>2, RowThere
<1>4. /\ R[j].tag = t /\ RowSaid(key, v, R[j].row) /\ v \in RowValues
      /\ key = "probe" => TempRead(v, R[j].row.temp)
  BY <1>1, <1>3, RowHere
<1>5. v.kept \in Nat /\ v.slot \in Nat /\ number(j) = Opt(v.slot + 1) /\ StateRead(key, v, R[j].row.state)
  BY <1>1, <1>4, RowNumbers DEF RowSaid
<1>6. number(j) # <<>> /\ number(j)[1] <= MaxSlots
  <2>1. number(j) # <<>> /\ number(j)[1] = v.slot + 1
    BY <1>5, OptIs, Zenon
  <2> QED
    BY <1>1, <1>5, <2>1 DEF MaxSlots
<1>7. ASSUME NEW k \in tagged, k < j PROVE number(k) # number(j)
  <2>1. /\ k \in 1..Len(m.items) /\ it(k).key = key /\ it(k).value \in RowValues
        /\ RowSaid(key, it(k).value, R[k].row)
    BY <1>7, RowHere, KindOf
  <2>2. CASE it(k).value.kept < 3
    <3>1. number(k) = <<>>
      BY <2>1, <2>2 DEF RowSaid
    <3> QED
      BY <1>6, <3>1
  <2>3. CASE ~(it(k).value.kept < 3)
    <3>1. number(k) = Opt(it(k).value.slot + 1)
      BY <2>1, <2>3 DEF RowSaid
    <3>2. it(k).value.kept \in Nat /\ it(k).value.slot \in Nat
      BY <2>1, RowNumbers
    <3>3. it(k).value.slot # v.slot
      BY <1>1, <1>2, <1>7, <2>1, <2>3, <3>2
    <3>4. it(k).value.slot + 1 # v.slot + 1
      BY <1>5, <3>2, <3>3
    <3> QED
      BY <1>5, <3>1, <3>4, OptIs
  <2> QED
    BY <2>2, <2>3
<1>8. R[j].row \in FirstRows(R, t, MaxSlots)
  BY <1>3, <1>4, <1>6, <1>7 DEF FirstRows
<1>9. Whole(key, v)
  BY <1>1 DEF IsWhole, Whole, Nests, RowTag
<1> QED
  BY <1>4, <1>5, <1>8, <1>9

\* No timed sessions are sent.
LEMMA NoneTimed ==
  ASSUME NEW m, NEW f, NEW R, RowsOf(m, f, R)
  PROVE  FirstRows(R, 5, MaxSlots) = {}
<1>1. \A i \in DOMAIN R : R[i].tag # 5
  BY RowHere, KindOf
<1> QED
  BY <1>1 DEF FirstRows

-----------------------------------------------------------------------------
(* The readings shown of a cook status.                                    *)

CookTag == [target |-> 1, display |-> 2, actual |-> 13, whole_degrees |-> 15]

\* Each temperature of a grill has its tag.
LEMMA CookTagOf ==
  ASSUME NEW x \in StatusItems, NEW key \in Degrees
  PROVE  AsRecord(x).tag = CookTag[key] <=> x.key = key
<1>1. /\ CookTag["target"] = 1 /\ CookTag["display"] = 2 /\ CookTag["actual"] = 13
      /\ CookTag["whole_degrees"] = 15
  BY DEF CookTag
<1> DEFINE u == AsRecord(x).tag
<1>2. (u = 1 <=> x.key = "target") /\ (u = 2 <=> x.key = "display")
      /\ (u = 13 <=> x.key = "actual") /\ (u = 15 <=> x.key = "whole_degrees")
  BY CookItem, Zenon
<1> HIDE DEF u
<1>3. u = CookTag[key] <=> x.key = key
  BY <1>1, <1>2 DEF Degrees
<1> QED
  BY <1>3 DEF u

\* The number read under each tag.
Degree(f, t) == Wide(Last(f, t), 2, TRUE)
DegreeFrom(m, f, key, t) ==
  \/ Degree(f, t) = <<>> /\ At(f, t) = {}
  \/ \E i \in 1..Len(m.items) : /\ i = Latest(At(f, t)) /\ m.items[i].key = key
                                /\ m.items[i].value \in Int /\ Degree(f, t) = Opt(m.items[i].value)

\* It is none, or that of the last item of its key.
LEMMA DegreesRead ==
  ASSUME NEW m, m.items \in Seq(StatusItems), NEW f, ReadAs(m, f),
         NEW key \in Degrees, NEW t, t = CookTag[key]
  PROVE  DegreeFrom(m, f, key, t)
<1> DEFINE w == Degree(f, t)
<1>1. CASE At(f, t) = {}
  <2>1. Last(f, t) = <<>>
    BY <1>1 DEF Last
  <2> QED
    BY <1>1, <2>1, OptIs DEF Degree, DegreeFrom
<1>2. CASE At(f, t) # {}
  <2>1. PICK i \in 1..Len(m.items) : /\ i = Latest(At(f, t)) /\ AsRecord(m.items[i]).tag = t
                                     /\ Last(f, t) = AsRecord(m.items[i]).value
    BY <1>2, LastRead
  <2> DEFINE x == m.items[i]
  <2>2. x \in StatusItems
    BY ElementOfSeq
  <2> HIDE DEF x
  <2>3. x.key = key
    BY <2>1, <2>2, CookTagOf DEF x
  <2>4. x.value \in Int16 /\ AsRecord(x).value = LittleEndian(x.value, 2)
    BY <2>2, <2>3, CookItem
  <2>5. w = Wide(LittleEndian(x.value, 2), 2, TRUE)
    BY <2>1, <2>4 DEF x, Degree
  <2>6. w = Opt(x.value) /\ x.value \in Int
    BY <2>4, <2>5, Wide16
  <2> QED
    BY <2>1, <2>3, <2>6 DEF x, DegreeFrom
<1> QED
  BY <1>1, <1>2

\* So with the mode.
LEMMA ModeRead ==
  ASSUME NEW m, m.items \in Seq(StatusItems), NEW f, ReadAs(m, f), NEW w, w = U8(Last(f, 3))
  PROVE  \/ w = <<>>
         \/ \E i \in 1..Len(m.items) : m.items[i].key = "mode" /\ w = Opt(m.items[i].value)
<1>1. CASE At(f, 3) = {}
  <2>1. Last(f, 3) = <<>>
    BY <1>1 DEF Last
  <2> QED
    BY <1>1, <2>1, OptIs
<1>2. CASE At(f, 3) # {}
  <2>1. PICK i \in 1..Len(m.items) : AsRecord(m.items[i]).tag = 3 /\ Last(f, 3) = AsRecord(m.items[i]).value
    BY <1>2, LastRead
  <2> DEFINE x == m.items[i]
  <2>2. x \in StatusItems
    BY ElementOfSeq
  <2> HIDE DEF x
  <2>3. x.key = "mode"
    BY <2>1, <2>2, CookItem DEF x
  <2>4. AsRecord(x).value = Opt(x.value)
    BY <2>2, <2>3, CookItem, Zenon DEF Opt
  <2>5. w = Opt(x.value)
    BY <2>1, <2>4, OptIs DEF x
  <2> QED
    BY <2>3, <2>5 DEF x
<1> QED
  BY <1>1, <1>2

\* A temperature read is given, and is not the code for no reading.
LEMMA DegreesGiven ==
  ASSUME NEW m, m.items \in Seq(StatusItems), NEW f, ReadAs(m, f),
         NEW key \in {"target", "display", "actual"}, NEW t, t = CookTag[key],
         NEW w, w = Temperature(Wide(Last(f, t), 2, TRUE))
  PROVE  Given(S!ToSet(m.items), key, w) /\ w # Opt(NoReading)
<1> DEFINE u == Wide(Last(f, t), 2, TRUE)
<1>1. \/ u = <<>>
      \/ \E i \in 1..Len(m.items) : m.items[i].key = key /\ u = Opt(m.items[i].value)
  <2>1. key \in Degrees
    BY DEF Degrees
  <2>2. DegreeFrom(m, f, key, t)
    BY <2>1, DegreesRead
  <2> QED
    BY <2>2, Zenon DEF DegreeFrom, Degree
<1> HIDE DEF u
<1>2. w \in {u, <<>>} /\ w # Opt(NoReading)
  BY TemperatureIs DEF u
<1>3. CASE w = <<>>
  BY <1>2, <1>3, GivenNone
<1>4. CASE w # <<>>
  <2>1. PICK i \in 1..Len(m.items) : m.items[i].key = key /\ w = Opt(m.items[i].value)
    BY <1>1, <1>2, <1>4
  <2>2. m.items[i] \in S!ToSet(m.items)
    BY LenProperties DEF S!ToSet
  <2>3. key \notin DOMAIN Codes
    BY NoCode
  <2>4. Given(S!ToSet(m.items), key, w)
    BY <2>1, <2>2, <2>3, GivenItem
  <2> QED
    BY <1>2, <2>4
<1> QED
  BY <1>3, <1>4

\* The mode read is given, and a mode of cooking is the hub's.
LEMMA ModeGiven ==
  ASSUME NEW m, m.items \in Seq(StatusItems), NEW f, ReadAs(m, f),
         NEW w, w = Named(U8(Last(f, 3)), 0..10)
  PROVE  /\ Given(S!ToSet(m.items), "mode", w)
         /\ w # <<>> /\ w[1] \in 1..10 => \E x \in S!ToSet(m.items) : x.key = "mode" /\ x.value \in 1..10
<1> DEFINE u == U8(Last(f, 3))
<1>1. u = <<>> \/ \E i \in 1..Len(m.items) : m.items[i].key = "mode" /\ u = Opt(m.items[i].value)
  BY ModeRead
<1> HIDE DEF u
<1>2. w = Named(u, 0..10) /\ Codes["mode"] = 0..10
  BY DEF u, Codes
<1>3. CASE u = <<>>
  <2>1. w = <<>>
    BY <1>2, <1>3, NamedIs
  <2> QED
    BY <2>1, GivenNone
<1>4. CASE u # <<>>
  <2>1. PICK i \in 1..Len(m.items) : m.items[i].key = "mode" /\ u = Opt(m.items[i].value)
    BY <1>1, <1>4
  <2> DEFINE x == m.items[i]
  <2>2. x \in S!ToSet(m.items)
    BY LenProperties DEF S!ToSet
  <2> HIDE DEF x
  <2>3. x.key = "mode" /\ w = Opt(Code("mode", x.value)) /\ "mode" \in DOMAIN Codes
    BY <1>2, <2>1, NamedIs DEF x
  <2>4. Given(S!ToSet(m.items), "mode", w)
    BY <2>2, <2>3, GivenItem
  <2>5. ASSUME w[1] \in 1..10 PROVE x.value \in 1..10
    <3>1. Code("mode", x.value) \in 1..10
      BY <2>3, <2>5, OptIs
    <3>2. Code("mode", x.value) = IF x.value \in 0..10 THEN x.value ELSE Unlisted
      BY <1>2 DEF Code
    <3>3. Unlisted \notin 1..10
      BY DEF Unlisted
    <3> QED
      BY <3>1, <3>2, <3>3
  <2> QED
    BY <2>2, <2>3, <2>4, <2>5
<1> QED
  BY <1>3, <1>4

\* The temperature of the grill.
Grill(c) == IF c.actual # <<>> THEN c.actual ELSE c.display

\* The temperature shown of the grill is given: the actual one, or what its
\* display says, in tenths or in whole degrees.
LEMMA GrillGiven ==
  ASSUME NEW m, m.items \in Seq(StatusItems), NEW f, ReadAs(m, f), NEW R,
         NEW g, g = Grill(CookStatus(f, R))
  PROVE  /\ \/ Given(S!ToSet(m.items), "actual", g) \/ Given(S!ToSet(m.items), "display", g)
            \/ \E x \in S!ToSet(m.items) : x.key = "whole_degrees" /\ g = Opt(10 * x.value)
         /\ g # Opt(NoReading)
<1> DEFINE a == Temperature(Wide(Last(f, 13), 2, TRUE))
           d == Temperature(Wide(Last(f, 2), 2, TRUE))
           h == Wide(Last(f, 15), 2, TRUE)
           e == IF h = <<>> THEN d ELSE Opt(10 * h[1])
<1>0. /\ CookTag["display"] = 2 /\ CookTag["actual"] = 13 /\ CookTag["whole_degrees"] = 15
      /\ "whole_degrees" \in Degrees
  BY DEF CookTag, Degrees
<1>1. g = IF a # <<>> THEN a ELSE e
  BY DEF Grill, CookStatus
<1>2. Given(S!ToSet(m.items), "actual", a) /\ a # Opt(NoReading)
  BY <1>0, DegreesGiven
<1>3. Given(S!ToSet(m.items), "display", d) /\ d # Opt(NoReading)
  BY <1>0, DegreesGiven
<1>4. \/ h = <<>>
      \/ \E i \in 1..Len(m.items) : /\ m.items[i].key = "whole_degrees" /\ m.items[i].value \in Int
                                    /\ h = Opt(m.items[i].value)
  <2>1. DegreeFrom(m, f, "whole_degrees", 15)
    BY <1>0, DegreesRead
  <2> QED
    BY <2>1, Zenon DEF DegreeFrom, Degree
<1> HIDE DEF a, d, h
<1>5. CASE h = <<>> \/ a # <<>>
  <2>1. g = a \/ g = d
    BY <1>1, <1>5
  <2> QED
    BY <1>2, <1>3, <2>1
<1>6. CASE h # <<>> /\ a = <<>>
  <2>1. PICK i \in 1..Len(m.items) : /\ m.items[i].key = "whole_degrees" /\ m.items[i].value \in Int
                                     /\ h = Opt(m.items[i].value)
    BY <1>4, <1>6
  <2> DEFINE x == m.items[i]
  <2>2. x \in S!ToSet(m.items)
    BY LenProperties DEF S!ToSet
  <2> HIDE DEF x
  <2>3. h[1] = x.value
    BY <2>1, OptIs DEF x
  <2>4. g = Opt(10 * x.value)
    BY <1>1, <1>6, <2>3
  <2>5. 10 * x.value # NoReading
    <3>1. PICK n \in Int : n = x.value
      BY <2>1 DEF x
    <3>2. 10 * n # -32768
      OBVIOUS
    <3> QED
      BY <3>1, <3>2 DEF NoReading
  <2>6. g # Opt(NoReading)
    BY <2>4, <2>5, OptIs
  <2> QED
    BY <2>1, <2>2, <2>4, <2>6 DEF x
<1> QED
  BY <1>5, <1>6

\* Of a message sent whole, the last actual temperature is shown.
LEMMA GrillKept ==
  ASSUME NEW m, m.items \in Seq(StatusItems), NEW f, ReadAs(m, f), Len(f) = Len(m.items), NEW R,
         NEW a, a = LastGiven(m.items, "actual"), a # <<>>, a # Opt(NoReading)
  PROVE  Grill(CookStatus(f, R)) = a
<1> DEFINE I == {i \in DOMAIN m.items : m.items[i].key = "actual"}
           w == Wide(Last(f, 13), 2, TRUE)
<1>0. CookTag["actual"] = 13 /\ "actual" \in Degrees
  BY DEF CookTag, Degrees
<1>1. I # {} /\ a = Opt(m.items[Latest(I)].value)
  BY DEF LastGiven
<1>2. At(f, 13) = I
  <2>1. /\ DOMAIN f = 1..Len(f) /\ DOMAIN m.items = 1..Len(m.items)
        /\ \A i \in 1..Len(f) : f[i] = AsRecord(m.items[i])
    BY LenProperties DEF ReadAs
  <2>2. \A i \in 1..Len(m.items) : m.items[i] \in StatusItems
    BY ElementOfSeq
  <2>3. \A i \in DOMAIN f : f[i].tag = 13 <=> m.items[i].key = "actual"
    BY <1>0, <2>1, <2>2, CookTagOf
  <2> QED
    BY <2>1, <2>3 DEF At
<1>3. w = a
  <2>1. DegreeFrom(m, f, "actual", 13)
    BY <1>0, DegreesRead
  <2> QED
    BY <1>1, <1>2, <2>1, Zenon DEF DegreeFrom, Degree
<1> HIDE DEF w
<1>4. Temperature(w) = a
  BY <1>3 DEF Temperature
<1>5. CookStatus(f, R).actual = Temperature(w)
  BY DEF CookStatus, w
<1> QED
  BY <1>4, <1>5 DEF Grill

-----------------------------------------------------------------------------
(* What is published.                                                      *)

Running(s) == s # <<>> /\ s[1] \in ActiveSessionStates
Burning(s) == s # <<>> /\ s[1] \in {2, 3}
Cooking(n) ==
  \/ \E r \in n.probes \cup n.timers : Running(r.state)
  \/ \E r \in n.burners : Burning(r.state)
Holding(c, d) == d.device = Opt(1) /\ c.mode # <<>> /\ c.mode[1] \in 1..10

Normal(n, c, d) ==
  /\ n.grill = Grill(c) /\ n.target = c.target /\ n.mode = c.mode
  /\ n.hub = [d EXCEPT !.battery = Percent(@)]
  /\ n.probes = FirstRows(c.rows, 4, MaxSlots) /\ n.timers = FirstRows(c.rows, 6, MaxSlots)
  /\ n.burners = FirstRows(c.rows, 7, MaxSlots)

\* normalize_state passes these on.
LEMMA NormalizeIs == ASSUME NEW c, NEW d PROVE Normal(Normalize(c, d), c, d)
BY DEF Normal, Normalize, Grill

\* A grill is shown as cooking when a row says so, and otherwise holds a mode.
LEMMA CookingIs ==
  ASSUME NEW c, NEW d, FirstRows(c.rows, 5, MaxSlots) = {}, NEW n, n = Normalize(c, d)
  PROVE  /\ n.cooking = Opt(TRUE) => Cooking(n) \/ Holding(c, d)
         /\ Cooking(n) => n.cooking = Opt(TRUE)
<1> DEFINE p == FirstRows(c.rows, 4, MaxSlots)
           s == FirstRows(c.rows, 5, MaxSlots)
           t == FirstRows(c.rows, 6, MaxSlots)
           b == FirstRows(c.rows, 7, MaxSlots)
           A == \E r \in p : Running(r.state)
           B == \E r \in s \cup t : Running(r.state)
           C == \E r \in b : Burning(r.state)
           H == Holding(c, d)
           X == A \/ B \/ C \/ H
           none == p \cup s \cup t = {} /\ b = {} /\ c.mode = <<>>
<1>1. n.cooking = IF none THEN <<>> ELSE Opt(X)
  <2>1. n.cooking = IF p \cup s \cup t = {} /\ b = {} /\ c.mode = <<>> THEN <<>>
                    ELSE Opt(\/ \E r \in p : r.state # <<>> /\ r.state[1] \in ActiveSessionStates
                             \/ \E r \in s \cup t : r.state # <<>> /\ r.state[1] \in ActiveSessionStates
                             \/ \E r \in b : r.state # <<>> /\ r.state[1] \in {2, 3}
                             \/ /\ d.device = Opt(1)
                                /\ c.mode # <<>> /\ c.mode[1] \in ActiveCookModes)
    BY DEF Normalize
  <2>2. ActiveCookModes = 1..10
    BY DEF ActiveCookModes
  <2> QED
    BY <2>1, <2>2, Zenon DEF Running, Burning, Holding
<1>2. n.probes = p /\ n.timers = t /\ n.burners = b
  <2>1. Normal(n, c, d)
    BY NormalizeIs
  <2> QED
    BY <2>1 DEF Normal
<1>3. Cooking(n) <=> A \/ B \/ C
  BY <1>2 DEF Cooking
<1>4. A \/ B \/ C => ~none
  OBVIOUS
<1> HIDE DEF A, B, C, H, none
<1>5. Opt(X) = Opt(TRUE) <=> X
  <2>1. Opt(X) = Opt(TRUE) <=> X = TRUE
    BY OptIs, Zenon
  <2>2. X \in BOOLEAN
    BY Zenon
  <2> QED
    BY <2>1, <2>2, Zenon
<1>6. <<>> # Opt(TRUE)
  BY OptIs
<1>7. ASSUME n.cooking = Opt(TRUE) PROVE A \/ B \/ C \/ H
  BY <1>1, <1>5, <1>6, <1>7, Zenon
<1>8. ASSUME A \/ B \/ C PROVE n.cooking = Opt(TRUE)
  BY <1>1, <1>4, <1>5, <1>8, Zenon
<1> QED
  BY <1>3, <1>7, <1>8, Zenon DEF H

\* A state shown says that a row runs only if the hub said so, and it does
\* say so of a whole row.
LEMMA StateMeans ==
  ASSUME NEW key \in Nests, NEW v, NEW s, StateRead(key, v, s)
  PROVE  /\ Running(s) => v.state \in ActiveSessionStates
         /\ Burning(s) => v.state \in {2, 3}
         /\ Whole(key, v) /\ key # "burner" /\ v.state \in ActiveSessionStates => Running(s)
         /\ Whole(key, v) /\ key = "burner" /\ v.state \in {2, 3} => Burning(s)
<1>1. s = <<>> \/ s = Opt(Unlisted) \/ s = Opt(v.state)
  BY DEF StateRead
<1>2. s # <<>> => s[1] = Unlisted \/ s[1] = v.state
  BY <1>1, OptIs
<1>3. Unlisted \notin ActiveSessionStates /\ Unlisted \notin {2, 3}
  BY DEF Unlisted, ActiveSessionStates
<1>4. ASSUME Whole(key, v), v.state \in RowCodes(key) PROVE s # <<>> /\ s[1] = v.state
  <2>1. s = Opt(v.state)
    BY <1>4 DEF StateRead
  <2> QED
    BY <2>1, OptIs
<1>5. /\ key # "burner" /\ v.state \in ActiveSessionStates => v.state \in RowCodes(key)
      /\ key = "burner" /\ v.state \in {2, 3} => v.state \in RowCodes(key)
  BY DEF RowCodes, ActiveSessionStates
<1> QED
  BY <1>2, <1>3, <1>4, <1>5 DEF Running, Burning

\* The hub's own values, of the statuses it relayed.
LEMMA HubGiven ==
  ASSUME SaidInv, NEW h, h = [cache EXCEPT !.battery = Percent(@)]
  PROVE  \A k \in DOMAIN h : Given(said, k, h[k])
<1>1. DOMAIN cache = DOMAIN StatusTag /\ \A k \in DOMAIN StatusTag : Given(said, k, cache[k])
  BY DEF SaidInv
<1>2. "battery" \in DOMAIN cache
  BY <1>1, StatusTagIs
<1>3. /\ DOMAIN h = DOMAIN cache
      /\ \A k \in DOMAIN cache : h[k] \in {cache[k], Percent(cache[k])}
  BY <1>2
<1>4. \A k \in DOMAIN cache : h[k] \in {cache[k], <<>>}
  BY <1>3, PercentIs
<1> QED
  BY <1>1, <1>3, <1>4, GivenNone

\* A device that is said to be one that holds a mode was so in a status.
LEMMA DeviceSaid ==
  ASSUME SaidInv, cache.device = Opt(1)
  PROVE  AnItem("device", 1) \in said
<1>1. Given(said, "device", cache["device"]) /\ said \subseteq ReportItems
  BY StatusTagIs DEF SaidInv
<1>2. "device" \in DOMAIN Codes /\ Codes["device"] = 0..3
  BY DEF Codes
<1>3. PICK x \in said : x.key = "device" /\ Opt(1) = Opt(Code("device", x.value))
  BY <1>1, <1>2, OptIs DEF Given
<1>4. Code("device", x.value) = 1
  BY <1>3, OptIs
<1>5. x.value = 1
  BY <1>2, <1>4 DEF Code, Unlisted
<1>6. x = AnItem(x.key, x.value)
  BY <1>1, ReportItem
<1> QED
  BY <1>3, <1>5, <1>6

\* What a cook status gives, of items, of which the rows are all read.
Told(s, m, d) ==
  /\ \A k \in DOMAIN s.hub : Given(d, k, s.hub[k])
  /\ Given(S!ToSet(m.items), "target", s.target) /\ Given(S!ToSet(m.items), "mode", s.mode)
  /\ \/ Given(S!ToSet(m.items), "actual", s.grill) \/ Given(S!ToSet(m.items), "display", s.grill)
     \/ \E i \in S!ToSet(m.items) : i.key = "whole_degrees" /\ s.grill = Opt(10 * i.value)
  /\ \A r \in s.probes : \E v \in SentRows(m, "probe") : Shows(r, v) /\ r.temp \in {<<>>, Opt(v.temp)}
  /\ \A r \in s.timers : \E v \in SentRows(m, "timer") : Shows(r, v)
  /\ \A r \in s.burners : \E v \in SentRows(m, "burner") : Shows(r, v)

\* What is published of a cook status was sent in it or in a status before it.
LEMMA PublishedTold ==
  ASSUME SaidInv, NEW m, NEW f, NEW R, RowsOf(m, f, R), NEW s, s = Normalize(CookStatus(f, R), cache)
  PROVE  Told(s, m, said)
<1> DEFINE c == CookStatus(f, R)
<1>1. m.items \in Seq(StatusItems) /\ ReadAs(m, f)
  BY DEF RowsOf
<1>2. /\ c.target = Temperature(Wide(Last(f, 1), 2, TRUE)) /\ c.mode = Named(U8(Last(f, 3)), 0..10)
      /\ c.rows = R
  BY DEF CookStatus
<1>3. /\ s.grill = Grill(c) /\ s.target = c.target /\ s.mode = c.mode
      /\ s.hub = [cache EXCEPT !.battery = Percent(@)]
      /\ s.probes = FirstRows(R, 4, MaxSlots) /\ s.timers = FirstRows(R, 6, MaxSlots)
      /\ s.burners = FirstRows(R, 7, MaxSlots)
  <2>1. Normal(s, c, cache)
    BY NormalizeIs
  <2> QED
    BY <1>2, <2>1 DEF Normal
<1>4. \A k \in DOMAIN s.hub : Given(said, k, s.hub[k])
  BY <1>3, HubGiven
<1>5. CookTag["target"] = 1
  BY DEF CookTag
<1>6. Given(S!ToSet(m.items), "target", s.target) /\ Given(S!ToSet(m.items), "mode", s.mode)
  <2>1. Given(S!ToSet(m.items), "target", c.target)
    BY <1>1, <1>2, <1>5, DegreesGiven
  <2>2. Given(S!ToSet(m.items), "mode", c.mode)
    BY <1>1, <1>2, ModeGiven
  <2> QED
    BY <1>3, <2>1, <2>2
<1>7. \/ Given(S!ToSet(m.items), "actual", s.grill) \/ Given(S!ToSet(m.items), "display", s.grill)
      \/ \E i \in S!ToSet(m.items) : i.key = "whole_degrees" /\ s.grill = Opt(10 * i.value)
  BY <1>1, <1>3, GrillGiven
<1>8. ASSUME NEW key \in Nests, NEW r \in FirstRows(R, RowTag[key], MaxSlots)
      PROVE  \E v \in SentRows(m, key) : Shows(r, v) /\ (key = "probe" => r.temp \in {<<>>, Opt(v.temp)})
  <2>1. PICK v \in SentRows(m, key) : /\ r.number = Opt(v.slot + 1) /\ StateRead(key, v, r.state)
                                      /\ key = "probe" => TempRead(v, r.temp)
    BY <1>8, ShownWasSent
  <2>2. Shows(r, v) /\ (key = "probe" => r.temp \in {<<>>, Opt(v.temp)})
    BY <2>1 DEF StateRead, TempRead, Shows
  <2> QED
    BY <2>2
<1>9. /\ "probe" \in Nests /\ "timer" \in Nests /\ "burner" \in Nests
      /\ RowTag["probe"] = 4 /\ RowTag["timer"] = 6 /\ RowTag["burner"] = 7
  BY RowKeys DEF Nests
<1>10. \A r \in s.probes : \E v \in SentRows(m, "probe") : Shows(r, v) /\ r.temp \in {<<>>, Opt(v.temp)}
  BY <1>3, <1>8, <1>9
<1>11. \A r \in s.timers : \E v \in SentRows(m, "timer") : Shows(r, v)
  BY <1>3, <1>8, <1>9
<1>12. \A r \in s.burners : \E v \in SentRows(m, "burner") : Shows(r, v)
  BY <1>3, <1>8, <1>9
<1> QED
  BY <1>4, <1>6, <1>7, <1>10, <1>11, <1>12 DEF Told

\* Rows run, as they are shown and as they were sent.
LEMMA CookingMeans ==
  ASSUME NEW m, NEW f, NEW R, RowsOf(m, f, R), NEW n, NEW c, NEW d, Normal(n, c, d), c.rows = R
  PROVE  /\ Cooking(n) => Runs(m)
         /\ IsWhole(m) /\ Complete(m, f) /\ Runs(m) => Cooking(n)
<1>0. /\ "probe" \in Nests /\ "timer" \in Nests /\ "burner" \in Nests
      /\ RowTag["probe"] = 4 /\ RowTag["timer"] = 6 /\ RowTag["burner"] = 7
      /\ "probe" # "burner" /\ "timer" # "burner"
  BY RowKeys DEF Nests
<1>1. /\ n.probes = FirstRows(R, RowTag["probe"], MaxSlots)
      /\ n.timers = FirstRows(R, RowTag["timer"], MaxSlots)
      /\ n.burners = FirstRows(R, RowTag["burner"], MaxSlots)
  BY <1>0 DEF Normal
<1>2. ActiveSessionStates = {3, 4, 5, 6, 9, 10}
  BY DEF ActiveSessionStates
<1>3. ASSUME NEW key \in Nests, NEW r \in FirstRows(R, RowTag[key], MaxSlots)
      PROVE  \E v \in SentRows(m, key) : /\ Running(r.state) => v.state \in ActiveSessionStates
                                         /\ Burning(r.state) => v.state \in {2, 3}
  <2>1. PICK v \in SentRows(m, key) : StateRead(key, v, r.state)
    BY <1>3, ShownWasSent
  <2> QED
    BY <2>1, StateMeans
<1>4. ASSUME NEW key \in Nests, IsWhole(m), Complete(m, f), NEW v \in SentRows(m, key)
      PROVE  \E r \in FirstRows(R, RowTag[key], MaxSlots) :
               /\ key # "burner" /\ v.state \in ActiveSessionStates => Running(r.state)
               /\ key = "burner" /\ v.state \in {2, 3} => Burning(r.state)
  <2>1. PICK r \in FirstRows(R, RowTag[key], MaxSlots) : Whole(key, v) /\ StateRead(key, v, r.state)
    BY <1>4, SentIsShown
  <2> QED
    BY <2>1, StateMeans
<1>5. ASSUME Cooking(n) PROVE Runs(m)
  <2>1. CASE \E r \in n.probes : Running(r.state)
    <3>1. \E v \in SentRows(m, "probe") : v.state \in ActiveSessionStates
      BY <1>0, <1>1, <1>3, <2>1
    <3> QED
      BY <1>2, <3>1 DEF Runs
  <2>2. CASE \E r \in n.timers : Running(r.state)
    <3>1. \E v \in SentRows(m, "timer") : v.state \in ActiveSessionStates
      BY <1>0, <1>1, <1>3, <2>2
    <3> QED
      BY <1>2, <3>1 DEF Runs
  <2>3. CASE \E r \in n.burners : Burning(r.state)
    <3>1. \E v \in SentRows(m, "burner") : v.state \in {2, 3}
      BY <1>0, <1>1, <1>3, <2>3
    <3> QED
      BY <3>1 DEF Runs
  <2> QED
    BY <1>5, <2>1, <2>2, <2>3 DEF Cooking
<1>6. ASSUME IsWhole(m), Complete(m, f), Runs(m) PROVE Cooking(n)
  <2>1. CASE \E v \in SentRows(m, "probe") : v.state \in ActiveSessionStates
    <3>1. \E r \in n.probes : Running(r.state)
      BY <1>0, <1>1, <1>4, <1>6, <2>1
    <3> QED
      BY <3>1 DEF Cooking
  <2>2. CASE \E v \in SentRows(m, "timer") : v.state \in ActiveSessionStates
    <3>1. \E r \in n.timers : Running(r.state)
      BY <1>0, <1>1, <1>4, <1>6, <2>2
    <3> QED
      BY <3>1 DEF Cooking
  <2>3. CASE \E v \in SentRows(m, "burner") : v.state \in {2, 3}
    <3>1. \E r \in n.burners : Burning(r.state)
      BY <1>0, <1>1, <1>4, <1>6, <2>3
    <3> QED
      BY <3>1 DEF Cooking
  <2> QED
    BY <1>2, <1>6, <2>1, <2>2, <2>3 DEF Runs
<1> QED
  BY <1>5, <1>6

\* What a cook status keeps.
Holds(m, d) ==
  AnItem("device", 1) \in d /\ \E i \in S!ToSet(m.items) : i.key = "mode" /\ i.value \in 1..10
ProbesKept(s, m) ==
  \A v \in SentRows(m, "probe") :
    \E r \in s.probes : /\ r.number = Opt(v.slot + 1) /\ r.state = Opt(Code("row", v.state))
                       /\ r.temp = IF v.temp = NoReading THEN <<>> ELSE Opt(v.temp)
Kept(s, m, d) ==
  /\ s.cooking = Opt(TRUE) => Runs(m) \/ Holds(m, d)
  /\ Opt(NoReading) \notin {s.grill, s.target} \cup {r.temp : r \in s.probes}
  /\ IsWhole(m) =>
       /\ Runs(m) => s.cooking = Opt(TRUE)
       /\ LastGiven(m.items, "actual") \notin {<<>>, Opt(NoReading)} =>
            s.grill = LastGiven(m.items, "actual")
       /\ ProbesKept(s, m)

\* It keeps what a whole status says.
LEMMA PublishedKept ==
  ASSUME SaidInv, NEW m, NEW f, NEW R, RowsOf(m, f, R), Complete(m, f),
         NEW s, s = Normalize(CookStatus(f, R), cache)
  PROVE  Kept(s, m, said)
<1> DEFINE c == CookStatus(f, R)
<1>1. m.items \in Seq(StatusItems) /\ ReadAs(m, f)
  BY DEF RowsOf
<1>2. /\ c.target = Temperature(Wide(Last(f, 1), 2, TRUE)) /\ c.mode = Named(U8(Last(f, 3)), 0..10)
      /\ c.rows = R
  BY DEF CookStatus
<1>3. Normal(s, c, cache)
  BY NormalizeIs
<1>4. s.grill = Grill(c) /\ s.target = c.target /\ s.probes = FirstRows(R, 4, MaxSlots)
  BY <1>2, <1>3 DEF Normal
<1>5. (s.cooking = Opt(TRUE) => Cooking(s) \/ Holding(c, cache)) /\ (Cooking(s) => s.cooking = Opt(TRUE))
  <2>1. FirstRows(c.rows, 5, MaxSlots) = {}
    BY <1>2, NoneTimed
  <2> QED
    BY <2>1, CookingIs
<1>6. (Cooking(s) => Runs(m)) /\ (IsWhole(m) /\ Runs(m) => Cooking(s))
  BY <1>2, <1>3, CookingMeans
<1>7. ASSUME Holding(c, cache) PROVE Holds(m, said)
  <2>1. cache.device = Opt(1) /\ c.mode # <<>> /\ c.mode[1] \in 1..10
    BY <1>7 DEF Holding
  <2>2. AnItem("device", 1) \in said
    BY <2>1, DeviceSaid
  <2>3. \E x \in S!ToSet(m.items) : x.key = "mode" /\ x.value \in 1..10
    BY <1>1, <1>2, <2>1, ModeGiven
  <2> QED
    BY <2>2, <2>3 DEF Holds
<1> HIDE DEF c
<1>8. /\ "probe" \in Nests /\ RowTag["probe"] = 4
  BY RowKeys DEF Nests
<1>9. Opt(NoReading) \notin {s.grill, s.target} \cup {r.temp : r \in s.probes}
  <2>1. s.grill # Opt(NoReading)
    BY <1>1, <1>4, GrillGiven DEF c
  <2>2. s.target # Opt(NoReading)
    BY <1>2, <1>4, TemperatureIs
  <2>3. ASSUME NEW r \in s.probes PROVE r.temp # Opt(NoReading)
    <3>1. \E v \in SentRows(m, "probe") : TempRead(v, r.temp)
      BY <1>4, <1>8, ShownWasSent
    <3> QED
      BY <3>1 DEF TempRead
  <2> QED
    BY <2>1, <2>2, <2>3
<1>10. ASSUME IsWhole(m), LastGiven(m.items, "actual") \notin {<<>>, Opt(NoReading)}
       PROVE  s.grill = LastGiven(m.items, "actual")
  <2>1. Len(f) = Len(m.items)
    BY <1>10 DEF Complete
  <2> QED
    BY <1>1, <1>4, <1>10, <2>1, GrillKept DEF c
<1>11. ASSUME IsWhole(m) PROVE ProbesKept(s, m)
  <2> SUFFICES ASSUME NEW v \in SentRows(m, "probe")
               PROVE  \E r \in s.probes :
                        /\ r.number = Opt(v.slot + 1) /\ r.state = Opt(Code("row", v.state))
                        /\ r.temp = IF v.temp = NoReading THEN <<>> ELSE Opt(v.temp)
    BY DEF ProbesKept
  <2>1. PICK r \in s.probes : /\ Whole("probe", v) /\ r.number = Opt(v.slot + 1)
                              /\ StateRead("probe", v, r.state) /\ TempRead(v, r.temp)
    BY <1>4, <1>8, <1>11, SentIsShown
  <2>2. RowCodes("probe") = 0..10 /\ Codes["row"] = 0..10
    BY DEF RowCodes, Codes
  <2>3. r.state = Opt(Code("row", v.state))
    BY <2>1, <2>2 DEF StateRead, Code
  <2>4. r.temp = IF v.temp = NoReading THEN <<>> ELSE Opt(v.temp)
    BY <2>1 DEF TempRead
  <2> QED
    BY <2>1, <2>3, <2>4
<1> QED
  BY <1>5, <1>6, <1>7, <1>9, <1>10, <1>11, Zenon DEF Kept

-----------------------------------------------------------------------------
(* The invariant of what is published.                                     *)

\* What was published is told by the hub, and keeps what the hub told.
ShownInv == shown # <<>> =>
  /\ Told(shown[1].state, shown[1].message, shown[1].said)
  /\ Kept(shown[1].state, shown[1].message, shown[1].said)

\* Nothing is shown at first.
LEMMA ShownInit == Init => ShownInv
BY DEF Init, ShownInv

\* Every step of the link leaves on show what the hub told.
LEMMA ShownStep == ScanInv /\ SaidInv /\ ShownInv /\ [Next]_vars => ShownInv'
<1> SUFFICES ASSUME ScanInv, SaidInv, ShownInv, [Next]_vars PROVE ShownInv'
  OBVIOUS
<1>1. CASE Publish
  <2>1. Read(128) /\ Left = {}
    BY <1>1 DEF Publish
  <2> DEFINE m == sent
             f == Outer
             R == Rows
             s == Normalize(CookStatus(f, R), cache)
  <2>2. /\ m.items \in Seq(StatusItems) /\ ReadAs(m, f) /\ Complete(m, f)
        /\ DOMAIN R = {j \in Nested(f) : j <= nest.at}
        /\ \A j \in DOMAIN R : RowOfItem(m.items[j], R[j])
    BY <2>1, OuterRead
  <2>3. nest.at \in Nat
    <3>1. NestInv
      BY <2>1 DEF ScanInv, Read
    <3>2. CASE nest.at # 0
      <4>1. nest.at \in Nested(f)
        BY <3>1, <3>2 DEF NestInv, Outer
      <4> QED
        BY <2>2, <4>1, NestedItem
    <3> QED
      BY <3>2
  <2>4. DOMAIN R = Nested(f)
    <3>1. \A j \in Nested(f) : j \in Nat /\ ~(j > nest.at)
      BY <2>1, <2>2, NestedItem DEF Left
    <3>2. \A j \in Nested(f) : j <= nest.at
      BY <2>3, <3>1
    <3> QED
      BY <2>2, <3>2
  <2> HIDE DEF f, R
  <2>5. RowsOf(m, f, R)
    BY <2>2, <2>4 DEF RowsOf
  <2>6. Told(s, m, said) /\ Kept(s, m, said)
    BY <2>2, <2>5, PublishedTold, PublishedKept
  <2>7. shown' = <<[message |-> m, said |-> said, state |-> s]>>
    BY <1>1 DEF Publish, f, R
  <2> HIDE DEF s, m
  <2>8. shown'[1].message = m /\ shown'[1].said = said /\ shown'[1].state = s
    BY <2>7
  <2> QED
    BY <2>6, <2>8 DEF ShownInv
<1>2. CASE shown' = <<>> \/ shown' = shown
  BY <1>2 DEF ShownInv
<1>3. CASE Discover \/ QualifyGatt \/ RequireSupport \/ ChooseHub \/ Arrive \/ ListenOn
  BY <1>2, <1>3 DEF Discover, QualifyGatt, RequireSupport, ChooseHub, Arrive, ListenOn, sessionVars
<1>4. CASE Receive \/ ScanStep \/ ReadNested \/ ReadError \/ ReadCapabilities \/ ReadAppliance
  BY <1>2, <1>4 DEF Receive, ScanStep, ReadNested, ReadError, ReadCapabilities, ReadAppliance, sessionVars
<1>5. CASE UNCHANGED vars
  BY <1>2, <1>5 DEF vars, sessionVars
<1> QED
  BY <1>1, <1>3, <1>4, <1>5 DEF Next

\* Every value published is one that the hub gave for that very reading, in this
\* cook status or in an appliance status before it, however it was cut: the readers
\* of saber_frames.py, the session's cache and normalize_state.
THEOREM ReadingsShownWereSent == Spec => []ReadingsAreSent
<1>1. ShownInv => ReadingsAreSent
  BY Zenon DEF ShownInv, ReadingsAreSent, Told
<1> QED
  BY <1>1, LinkInit, LinkStep, FrameInit, FrameStep, ScanInit, ScanStepInv, SaidInit, SaidStep,
     ShownInit, ShownStep, PTL DEF Spec

\* No code for "no reading" is published as a temperature and no grill as cooking
\* that did not say so; of a whole cook status every probe, the actual temperature
\* and the cooking state are published.
THEOREM NothingIsLost == Spec => []NothingLost
<1>1. ShownInv => NothingLost
  BY Zenon DEF ShownInv, NothingLost, Kept, ProbesKept, Holds
<1> QED
  BY <1>1, LinkInit, LinkStep, FrameInit, FrameStep, ScanInit, ScanStepInv, SaidInit, SaidStep,
     ShownInit, ShownStep, PTL DEF Spec

=============================================================================
