---------------------------- MODULE TelemetryProofs ----------------------------
(***************************************************************************)
(* Proofs about Telemetry and Entities for any maximum age, any failure    *)
(* threshold and any set of hub sensors.  Entities takes every step of     *)
(* Telemetry with steps of its own, so what is proved of Telemetry, in the *)
(* first part, holds of it.                                                *)
(***************************************************************************)
EXTENDS Entities, TLAPS


\* A cloud status does not outlive its socket in the cache, and the cache
\* still has every retained value that is shown.
CacheInv ==
  /\ cache["cloud_connection_status"] # Earlier
  /\ \A k \in RetainedKeys : data.shown[k] # Absent => cache[k] # Absent

TelemetryInv ==
  TypeOK /\ SampleIsValue /\ CacheInv /\ OfflineIsBare /\ ShownAvailability /\ IssueMeansFailure

-----------------------------------------------------------------------------
(* The operators.                                                          *)

LEMMA KeyFacts ==
  /\ FuelKeys \cap StatusKeys = {} /\ RetainedKeys \subseteq StatusKeys
  /\ "cloud_connection_status" \in StatusKeys \ RetainedKeys
  /\ "battery_level" \in StatusKeys \ {"cloud_connection_status"}
  /\ Keys = FuelKeys \cup StatusKeys
BY TelemetryAssumption DEF FuelTags, StatusKeys, RetainedKeys, Keys

\* A function is a set of values if each of its values is.
LEMMA ValuesIntro ==
  ASSUME NEW v, v = [k \in Keys |-> v[k]],
         \A k \in Keys : v[k] \in IF k \in FuelKeys THEN Ages ELSE Sources(k)
  PROVE  v \in Values
<1>1. \A k \in Keys : v[k] \in Ages \cup {Earlier, Beyond}
  BY TelemetryAssumption DEF Sources, Reports, Ages, Here, Absent, Earlier
<1>2. v \in [Keys -> Ages \cup {Earlier, Beyond}]
  BY <1>1
<1> QED
  BY <1>2 DEF Values

LEMMA NothingType == Nothing \in Values /\ \A k \in Keys : Nothing[k] = Absent
<1>1. \A k \in Keys : Nothing[k] \in IF k \in FuelKeys THEN Ages ELSE Sources(k)
  BY DEF Nothing, Ages, Sources
<1> QED
  BY <1>1, ValuesIntro DEF Nothing

\* Expiry touches fuel only, and keeps a sample and its value together.
LEMMA ExpireFacts ==
  ASSUME NEW c \in Values, NEW s \in [FuelKeys -> Ages]
  PROVE  /\ Expire(c, s) \in Values /\ Unexpired(s) \in [FuelKeys -> Ages]
         /\ \A k \in StatusKeys : Expire(c, s)[k] = c[k]
         /\ (\A k \in FuelKeys : c[k] = s[k])
              => \A k \in FuelKeys : Expire(c, s)[k] = Unexpired(s)[k]
         /\ \A k \in FuelKeys : Unexpired(s)[k] # Absent => Unexpired(s)[k] < MaxAge
<1>1. \A k \in Keys : Expire(c, s)[k] \in IF k \in FuelKeys THEN Ages ELSE Sources(k)
  BY DEF Expire, Values, Ages, Sources
<1>2. Expire(c, s) \in Values
  BY <1>1, ValuesIntro DEF Expire
<1>3. Unexpired(s) \in [FuelKeys -> Ages]
  BY DEF Unexpired, Ages
<1>4. \A k \in StatusKeys : Expire(c, s)[k] = c[k]
  BY KeyFacts DEF Expire, Due
<1>5. (\A k \in FuelKeys : c[k] = s[k])
        => \A k \in FuelKeys : Expire(c, s)[k] = Unexpired(s)[k]
  BY KeyFacts DEF Expire, Unexpired
<1>6. \A k \in FuelKeys : Unexpired(s)[k] # Absent => Unexpired(s)[k] < MaxAge
  BY TelemetryAssumption DEF Unexpired, Due, Ages, Absent
<1> QED
  BY <1>2, <1>3, <1>4, <1>5, <1>6

\* A socket's loss drops the cloud status and keeps the retained values and
\* the fuel that is not due.
LEMMA SurvivorFacts ==
  ASSUME NEW c \in Values, NEW s \in [FuelKeys -> Ages]
  PROVE  /\ Orphaned(Survivors(c, s)) \in Values
         /\ Orphaned(Survivors(c, s))["cloud_connection_status"] = Absent
         /\ \A k \in RetainedKeys : Orphaned(Survivors(c, s))[k] = c[k]
         /\ (\A k \in FuelKeys : c[k] = s[k])
              => \A k \in FuelKeys : Orphaned(Survivors(c, s))[k] = Unexpired(s)[k]
<1> DEFINE o == Orphaned(Survivors(c, s))
<1>1. Expire(c, s) \in Values
  BY ExpireFacts
<1>2. \A k \in Keys : o[k] = IF k \in RetainedKeys \cup {f \in FuelKeys : Unexpired(s)[f] # Absent}
                               THEN Expire(c, s)[k] ELSE Absent
  BY KeyFacts DEF Orphaned, Survivors, Aged, Absent, Here
<1>3. \A k \in Keys : o[k] \in IF k \in FuelKeys THEN Ages ELSE Sources(k)
  BY <1>1, <1>2 DEF Values, Ages, Sources
<1>4. o \in Values
  BY <1>3, ValuesIntro DEF Orphaned
<1>5. o["cloud_connection_status"] = Absent
  BY <1>2, KeyFacts
<1>6. \A k \in RetainedKeys : o[k] = c[k]
  BY <1>2, KeyFacts, ExpireFacts
<1>7. (\A k \in FuelKeys : c[k] = s[k]) => \A k \in FuelKeys : o[k] = Unexpired(s)[k]
  BY <1>2, KeyFacts, ExpireFacts
<1> QED
  BY <1>4, <1>5, <1>6, <1>7

LEMMA OrphanedFacts ==
  ASSUME NEW v \in Values
  PROVE  /\ Orphaned(v) \in Values
         /\ \A k \in Keys : Orphaned(v)[k] = Absent <=> v[k] = Absent
         /\ \A k \in RetainedKeys : Orphaned(v)[k] = v[k]
<1>1. \A k \in Keys : Orphaned(v)[k] \in IF k \in FuelKeys THEN Ages ELSE Sources(k)
  BY KeyFacts DEF Orphaned, Aged, Values, Sources, Reports, Here, Earlier
<1>2. Orphaned(v) \in Values
  BY <1>1, ValuesIntro DEF Orphaned
<1>3. \A k \in Keys : Orphaned(v)[k] = Absent <=> v[k] = Absent
  BY DEF Orphaned, Aged, Here, Earlier, Absent
<1>4. \A k \in RetainedKeys : Orphaned(v)[k] = v[k]
  BY KeyFacts DEF Orphaned, Aged
<1> QED
  BY <1>2, <1>3, <1>4

LEMMA OfflineFacts ==
  ASSUME NEW was \in Values, NEW wasUp \in BOOLEAN
  PROVE  /\ Offline(was, wasUp) \in Data
         /\ ~Offline(was, wasUp).connected /\ ~Offline(was, wasUp).probe
         /\ Offline(was, wasUp).shown = was
         /\ Offline(was, wasUp).reading = IF wasUp THEN "connection_lost" ELSE "waiting"
BY DEF Offline, Data

LEMMA PendingFacts ==
  ASSUME TypeOK
  PROVE  /\ Pending \in Data
         /\ Pending.connected = data.connected
         /\ Pending.reading = IF succeeded THEN "reconnecting" ELSE "waiting"
         /\ Pending.shown["cloud_connection_status"] = Absent
         /\ \A k \in RetainedKeys : Pending.shown[k] = data.shown[k]
         /\ Pending.reported = data.reported
<1> DEFINE v == [Orphaned(data.shown) EXCEPT !["cloud_connection_status"] = Absent]
<1>1. data.shown \in Values
  BY DEF TypeOK, Data
<1>2. Orphaned(data.shown) \in Values
  BY <1>1, OrphanedFacts
<1>3. \A k \in Keys : v[k] = IF k = "cloud_connection_status" THEN Absent
                             ELSE Orphaned(data.shown)[k]
  BY KeyFacts DEF Orphaned
<1>4. v \in Values
  <2>1. \A k \in Keys : v[k] \in IF k \in FuelKeys THEN Ages ELSE Sources(k)
    BY <1>2, <1>3 DEF Values, Sources, Ages
  <2> QED
    BY <2>1, ValuesIntro DEF Orphaned
<1>5. /\ Pending = [data EXCEPT !.reading = IF succeeded THEN "reconnecting" ELSE "waiting",
                                !.shown = v]
      /\ v["cloud_connection_status"] = Absent
      /\ \A k \in RetainedKeys : v[k] = data.shown[k]
  BY <1>1, <1>3, KeyFacts, OrphanedFacts DEF Pending
<1> HIDE DEF v
<1> QED
  BY <1>4, <1>5 DEF TypeOK, Data

LEMMA LostFacts ==
  ASSUME TypeOK
  PROVE  /\ Lost \in Data
         /\ ~Lost.connected /\ ~Lost.probe
         /\ Lost.reading = IF succeeded THEN "connection_lost" ELSE "waiting"
         /\ \A k \in Keys : Lost.shown[k] = IF k \in RetainedKeys THEN data.shown[k] ELSE Absent
         /\ Lost.reported = data.reported
<1> DEFINE v == [k \in Keys |-> IF k \in RetainedKeys THEN data.shown[k] ELSE Absent]
<1>1. data.shown \in Values /\ succeeded \in BOOLEAN /\ data.reported \in BOOLEAN
  BY DEF TypeOK, Data
<1>2. v \in Values
  <2>1. \A k \in Keys : v[k] \in IF k \in FuelKeys THEN Ages ELSE Sources(k)
    BY <1>1 DEF Values, Sources, Ages
  <2> QED
    BY <2>1, ValuesIntro
<1>3. Lost = [Offline(v, succeeded) EXCEPT !.reported = data.reported]
  BY DEF Lost
<1>4. \A k \in Keys : v[k] = IF k \in RetainedKeys THEN data.shown[k] ELSE Absent
  OBVIOUS
<1> HIDE DEF v
<1> QED
  BY <1>1, <1>2, <1>3, <1>4, OfflineFacts DEF Data

\* Publication takes back a battery out of range and nothing else.
LEMMA PublishedFacts ==
  ASSUME NEW c \in Values
  PROVE  /\ Published(c) \in Values
         /\ \A k \in Keys : Published(c)[k] = IF c[k] = Beyond /\ k = "battery_level"
                                               THEN Absent ELSE c[k]
<1>1. \A k \in Keys : Published(c)[k] = IF c[k] = Beyond /\ k = "battery_level"
                                           THEN Absent ELSE c[k]
  BY KeyFacts DEF Published, Values
<1>2. \A k \in Keys : Published(c)[k] \in IF k \in FuelKeys THEN Ages ELSE Sources(k)
  BY <1>1 DEF Values, Ages, Sources
<1>3. Published(c) = [k \in Keys |-> Published(c)[k]]
  BY DEF Published, Values
<1> QED
  BY <1>1, <1>2, <1>3, ValuesIntro

LEMMA OnlineFacts ==
  ASSUME TypeOK, NEW c \in Values, NEW probe \in BOOLEAN
  PROVE  /\ Online(c, probe) \in Data
         /\ Online(c, probe).connected /\ Online(c, probe).reading = "receiving"
         /\ Online(c, probe).shown = Published(c)
         /\ data.reported => Online(c, probe).reported
BY PublishedFacts DEF Online, TypeOK, Data

-----------------------------------------------------------------------------
(* The invariant, action by action.                                        *)

LEMMA InitInv == Init => TelemetryInv
<1> SUFFICES ASSUME Init PROVE TelemetryInv
  OBVIOUS
<1>1. /\ data \in Data /\ ~data.connected /\ ~data.probe /\ data.shown = Nothing
      /\ data.reading = "waiting"
  BY NothingType, OfflineFacts DEF Init
<1>2. TypeOK
  <2>1. sampled \in [FuelKeys -> Ages]
    BY DEF Init, Ages
  <2>2. failures \in 0..Threshold
    BY TelemetryAssumption DEF Init
  <2> QED
    BY <1>1, <2>1, <2>2, NothingType DEF Init, TypeOK
<1>3. SampleIsValue /\ CacheInv
  <2>1. SampleIsValue
    BY NothingType, KeyFacts DEF Init, SampleIsValue
  <2>2. Absent # Earlier
    BY DEF Absent, Earlier
  <2> QED
    BY <1>1, <2>1, <2>2, NothingType, KeyFacts DEF Init, CacheInv
<1>4. OfflineIsBare /\ ShownAvailability /\ IssueMeansFailure
  BY <1>1, TelemetryAssumption
     DEF Init, OfflineIsBare, ShownAvailability, IssueMeansFailure, Nothing
<1> QED
  BY <1>2, <1>3, <1>4 DEF TelemetryInv

LEMMA FrameStep == TelemetryInv /\ ApplianceFrame => TelemetryInv'
<1> SUFFICES ASSUME TelemetryInv, ApplianceFrame PROVE TelemetryInv'
  OBVIOUS
<1> USE DEF TelemetryInv, OfflineIsBare, ShownAvailability, IssueMeansFailure
<1>1. ASSUME NEW k \in FuelKeys, MergeFuel(k) PROVE TelemetryInv'
  <2>1. \A i \in Keys : cache'[i] = IF i = k THEN 0 ELSE cache[i]
    BY <1>1, KeyFacts DEF MergeFuel, TypeOK, Values
  <2>2. \A i \in FuelKeys : sampled'[i] = IF i = k THEN 0 ELSE sampled[i]
    BY <1>1 DEF MergeFuel, TypeOK
  <2>3. cache' \in Values
    <3>1. \A i \in Keys : cache'[i] \in IF i \in FuelKeys THEN Ages ELSE Sources(i)
      BY <2>1, TelemetryAssumption DEF TypeOK, Values, Ages
    <3>2. cache' = [i \in Keys |-> cache'[i]]
      BY <1>1 DEF MergeFuel, TypeOK, Values
    <3> QED
      BY <3>1, <3>2, ValuesIntro
  <2>4. TypeOK'
    BY <1>1, <2>3, TelemetryAssumption DEF MergeFuel, TypeOK, Ages
  <2>5. SampleIsValue' /\ CacheInv'
    BY <1>1, <2>1, <2>2, KeyFacts DEF MergeFuel, SampleIsValue, CacheInv, Absent
  <2> QED
    BY <1>1, <2>4, <2>5 DEF MergeFuel
<1>2. ASSUME NEW k \in FuelKeys, IgnoreFuel(k) PROVE TelemetryInv'
  BY <1>2 DEF IgnoreFuel, vars, TypeOK, SampleIsValue, CacheInv
<1>3. ASSUME NEW k \in StatusKeys, NEW v \in Reports(k), MergeStatus(k, v)
      PROVE  TelemetryInv'
  <2>1. \A i \in Keys : cache'[i] = IF i = k THEN v ELSE cache[i]
    BY <1>3, KeyFacts DEF MergeStatus, TypeOK, Values
  <2>2. cache' \in Values
    <3>1. \A i \in Keys : cache'[i] \in IF i \in FuelKeys THEN Ages ELSE Sources(i)
      BY <2>1, KeyFacts DEF TypeOK, Values, Sources
    <3>2. cache' = [i \in Keys |-> cache'[i]]
      BY <1>3 DEF MergeStatus, TypeOK, Values
    <3> QED
      BY <3>1, <3>2, ValuesIntro
  <2>3. TypeOK'
    BY <1>3, <2>2 DEF MergeStatus, TypeOK
  <2>4. SampleIsValue' /\ CacheInv'
    <3>1. v # Absent /\ (k = "cloud_connection_status" => v # Earlier)
      BY DEF Reports, Here, Beyond, Earlier, Absent
    <3> QED
      BY <1>3, <2>1, <3>1, KeyFacts DEF MergeStatus, SampleIsValue, CacheInv
  <2> QED
    BY <1>3, <2>3, <2>4 DEF MergeStatus
<1> QED
  BY <1>1, <1>2, <1>3 DEF ApplianceFrame

LEMMA StatusStep == TelemetryInv /\ StatusFrame => TelemetryInv'
<1> SUFFICES ASSUME TelemetryInv, StatusFrame PROVE TelemetryInv'
  OBVIOUS
<1>1. /\ cache \in Values /\ sampled \in [FuelKeys -> Ages]
      /\ cache' = Expire(cache, sampled) /\ sampled' = Unexpired(sampled)
  BY DEF TelemetryInv, TypeOK, StatusFrame
<1>2. cache' \in Values /\ sampled' \in [FuelKeys -> Ages]
  BY <1>1, ExpireFacts
<1>3. PICK probe \in BOOLEAN : data' = Online(cache', probe)
  BY DEF StatusFrame
<1>4. /\ data' \in Data /\ data'.connected /\ data'.reading = "receiving"
      /\ data'.shown = Published(cache')
  BY <1>2, <1>3, OnlineFacts DEF TelemetryInv
<1>5. TypeOK'
  <2>1. failures' \in 0..Threshold
    BY TelemetryAssumption DEF StatusFrame
  <2>2. succeeded' \in BOOLEAN /\ issue' \in BOOLEAN
    BY DEF StatusFrame
  <2> QED
    BY <1>2, <1>4, <2>1, <2>2 DEF TypeOK
<1>6. SampleIsValue' /\ CacheInv'
  <2>1. \A k \in RetainedKeys : data'.shown[k] # Absent => cache'[k] # Absent
    BY <1>2, <1>4, PublishedFacts, KeyFacts
  <2> QED
    BY <1>1, <2>1, ExpireFacts, KeyFacts DEF TelemetryInv, SampleIsValue, CacheInv
<1>7. OfflineIsBare' /\ ShownAvailability' /\ IssueMeansFailure'
  BY <1>4, TelemetryAssumption
     DEF StatusFrame, OfflineIsBare, ShownAvailability, IssueMeansFailure
<1> QED
  BY <1>5, <1>6, <1>7 DEF TelemetryInv

LEMMA ReplaceStep == TelemetryInv /\ ReplaceSocket => TelemetryInv'
<1> SUFFICES ASSUME TelemetryInv, ReplaceSocket PROVE TelemetryInv'
  OBVIOUS
<1>1. /\ cache \in Values /\ sampled \in [FuelKeys -> Ages] /\ data \in Data
      /\ data.shown \in Values
      /\ cache' = Orphaned(Survivors(cache, sampled)) /\ sampled' = Unexpired(sampled)
      /\ data' = [data EXCEPT !.shown = Orphaned(data.shown)]
      /\ UNCHANGED <<failures, succeeded, issue>>
  BY DEF TelemetryInv, TypeOK, ReplaceSocket, Data
<1>2. /\ cache' \in Values /\ sampled' \in [FuelKeys -> Ages]
      /\ Orphaned(data.shown) \in Values
  BY <1>1, ExpireFacts, SurvivorFacts, OrphanedFacts
<1>3. /\ data' \in Data /\ data'.shown = Orphaned(data.shown)
      /\ data'.connected = data.connected /\ data'.reading = data.reading
      /\ data'.probe = data.probe
  BY <1>1, <1>2 DEF Data
<1>4. TypeOK'
  BY <1>1, <1>2, <1>3 DEF TelemetryInv, TypeOK
<1>5. SampleIsValue'
  BY <1>1, SurvivorFacts DEF TelemetryInv, SampleIsValue
<1>6. CacheInv'
  BY <1>1, <1>3, SurvivorFacts, OrphanedFacts DEF TelemetryInv, CacheInv, Absent, Earlier
<1>7. OfflineIsBare' /\ ShownAvailability' /\ IssueMeansFailure'
  BY <1>1, <1>3, OrphanedFacts
     DEF TelemetryInv, OfflineIsBare, ShownAvailability, IssueMeansFailure
<1> QED
  BY <1>4, <1>5, <1>6, <1>7 DEF TelemetryInv

LEMMA FailureStep == TelemetryInv /\ FailedPoll => TelemetryInv'
<1> SUFFICES ASSUME TelemetryInv, FailedPoll PROVE TelemetryInv'
  OBVIOUS
<1>1. /\ cache \in Values /\ sampled \in [FuelKeys -> Ages] /\ data \in Data
      /\ data.shown \in Values /\ failures \in 0..Threshold /\ succeeded \in BOOLEAN
      /\ issue \in BOOLEAN /\ issue' \in BOOLEAN
      /\ cache' = Orphaned(Survivors(cache, sampled)) /\ sampled' = Unexpired(sampled)
      /\ failures' = IF failures < Threshold THEN failures + 1 ELSE failures
      /\ data' = IF failures + 1 < Threshold THEN Pending ELSE Lost
      /\ UNCHANGED succeeded
  BY DEF TelemetryInv, TypeOK, FailedPoll, Data
<1>2. cache' \in Values /\ sampled' \in [FuelKeys -> Ages]
  BY <1>1, ExpireFacts, SurvivorFacts
<1>3. failures' \in 1..Threshold /\ (failures' = Threshold <=> ~(failures + 1 < Threshold))
  BY <1>1, TelemetryAssumption
<1>4. SampleIsValue'
  BY <1>1, SurvivorFacts DEF TelemetryInv, SampleIsValue
<1>5. CASE failures + 1 < Threshold
  <2>1. /\ data' \in Data /\ data'.connected = data.connected
        /\ data'.reading = IF succeeded THEN "reconnecting" ELSE "waiting"
        /\ \A k \in RetainedKeys : data'.shown[k] = data.shown[k]
    BY <1>1, <1>5, PendingFacts DEF TelemetryInv
  <2>2. TypeOK'
    BY <1>1, <1>2, <1>3, <2>1 DEF TypeOK
  <2>3. CacheInv'
    BY <1>1, <2>1, SurvivorFacts DEF TelemetryInv, CacheInv, Absent, Earlier
  <2>4. failures < Threshold /\ failures' < Threshold /\ failures' # 0
    BY <1>1, <1>3, <1>5, TelemetryAssumption
  <2>5. OfflineIsBare' /\ ShownAvailability' /\ IssueMeansFailure'
    BY <1>1, <2>1, <2>4
       DEF TelemetryInv, OfflineIsBare, ShownAvailability, IssueMeansFailure
  <2> QED
    BY <1>4, <2>2, <2>3, <2>5 DEF TelemetryInv
<1>6. CASE ~(failures + 1 < Threshold)
  <2>1. /\ data' \in Data /\ ~data'.connected /\ ~data'.probe
        /\ data'.reading = IF succeeded THEN "connection_lost" ELSE "waiting"
        /\ \A k \in Keys : data'.shown[k] = IF k \in RetainedKeys THEN data.shown[k] ELSE Absent
    BY <1>1, <1>6, LostFacts DEF TelemetryInv
  <2>2. TypeOK'
    BY <1>1, <1>2, <1>3, <2>1 DEF TypeOK
  <2>3. CacheInv'
    BY <1>1, <2>1, KeyFacts, SurvivorFacts DEF TelemetryInv, CacheInv, Absent, Earlier
  <2>4. failures' = Threshold /\ failures' # 0
    BY <1>3, <1>6, TelemetryAssumption
  <2>5. OfflineIsBare' /\ ShownAvailability' /\ IssueMeansFailure'
    BY <1>1, <2>1, <2>4, TelemetryAssumption
       DEF OfflineIsBare, ShownAvailability, IssueMeansFailure
  <2> QED
    BY <1>4, <2>2, <2>3, <2>5 DEF TelemetryInv
<1> QED
  BY <1>5, <1>6

LEMMA ReloadStep == TelemetryInv /\ Reload => TelemetryInv'
<1> SUFFICES ASSUME TelemetryInv, Reload PROVE TelemetryInv'
  OBVIOUS
<1>1. /\ data' \in Data /\ ~data'.connected /\ ~data'.probe /\ data'.shown = Nothing
      /\ data'.reading = "waiting"
  BY NothingType, OfflineFacts DEF Reload
<1>2. TypeOK'
  <2>1. sampled' \in [FuelKeys -> Ages]
    BY DEF Reload, Ages
  <2>2. failures' \in 0..Threshold
    BY TelemetryAssumption DEF Reload
  <2> QED
    BY <1>1, <2>1, <2>2, NothingType DEF Reload, TelemetryInv, TypeOK
<1>3. SampleIsValue' /\ CacheInv'
  <2>1. SampleIsValue'
    BY NothingType, KeyFacts DEF Reload, SampleIsValue
  <2>2. Absent # Earlier
    BY DEF Absent, Earlier
  <2> QED
    BY <1>1, <2>1, <2>2, NothingType, KeyFacts DEF Reload, CacheInv
<1>4. OfflineIsBare' /\ ShownAvailability' /\ IssueMeansFailure'
  BY <1>1, TelemetryAssumption
     DEF Reload, OfflineIsBare, ShownAvailability, IssueMeansFailure, Nothing
<1> QED
  BY <1>2, <1>3, <1>4 DEF TelemetryInv

LEMMA TickStep == TelemetryInv /\ Tick => TelemetryInv'
<1> SUFFICES ASSUME TelemetryInv, Tick PROVE TelemetryInv'
  OBVIOUS
<1>1. \A v \in Ages : Older(v) \in Ages
  BY TelemetryAssumption DEF Older, Ages, Absent
<1>2. sampled' \in [FuelKeys -> Ages]
  BY <1>1 DEF Tick, TelemetryInv, TypeOK
<1>3. \A k \in Keys : cache'[k] = IF k \in FuelKeys THEN Older(cache[k]) ELSE cache[k]
  BY DEF Tick
<1>4. cache' \in Values
  <2>1. \A k \in Keys : cache'[k] \in IF k \in FuelKeys THEN Ages ELSE Sources(k)
    BY <1>1, <1>3 DEF TelemetryInv, TypeOK, Values
  <2> QED
    BY <2>1, ValuesIntro DEF Tick
<1>5. TypeOK'
  BY <1>2, <1>4 DEF Tick, TelemetryInv, TypeOK
<1>6. SampleIsValue' /\ CacheInv'
  BY <1>3, KeyFacts DEF Tick, TelemetryInv, SampleIsValue, CacheInv
<1>7. OfflineIsBare' /\ ShownAvailability' /\ IssueMeansFailure'
  BY DEF Tick, TelemetryInv, OfflineIsBare, ShownAvailability, IssueMeansFailure
<1> QED
  BY <1>5, <1>6, <1>7 DEF TelemetryInv

LEMMA StepInv == TelemetryInv /\ [Next]_vars => TelemetryInv'
<1>1. TelemetryInv /\ UNCHANGED vars => TelemetryInv'
  BY DEF vars, TelemetryInv, TypeOK, SampleIsValue, CacheInv, OfflineIsBare, ShownAvailability,
         IssueMeansFailure
<1> QED
  BY <1>1, FrameStep, StatusStep, ReplaceStep, FailureStep, ReloadStep, TickStep DEF Next

-----------------------------------------------------------------------------
(* The theorems.                                                           *)

\* The strengthened invariant holds in every reachable state.
THEOREM TelemetryInvariant == Spec => []TelemetryInv
BY InitInv, StepInv, PTL DEF Spec

\* Every variable keeps its type.
THEOREM TypeCorrect == Spec => []TypeOK
BY TelemetryInvariant, PTL DEF TelemetryInv

\* A cached fuel value is never older or newer than its sample
\* (_expire_fuel_status, _async_close_connection).
THEOREM SampleTrue == Spec => []SampleIsValue
BY TelemetryInvariant, PTL DEF TelemetryInv

\* An appliance shown offline shows nothing live (_async_error).
THEOREM OfflineBare == Spec => []OfflineIsBare
BY TelemetryInvariant, PTL DEF TelemetryInv

\* The availability follows the failures for any threshold.
THEOREM AvailabilityTrue == Spec => []ShownAvailability
BY TelemetryInvariant, PTL DEF TelemetryInv

\* A working credential leaves no repair issue (_async_status).
THEOREM IssueTrue == Spec => []IssueMeansFailure
BY TelemetryInvariant, PTL DEF TelemetryInv

\* Only fuel younger than the maximum age is published.
THEOREM FuelPublished == Spec => FuelFresh
<1> DEFINE Fresh == StatusFrame =>
      \A k \in FuelKeys : data'.shown[k] # Absent => data'.shown[k] < MaxAge
<1>1. TelemetryInv /\ [Next]_vars => [Fresh]_vars
  <2> SUFFICES ASSUME TelemetryInv, StatusFrame, NEW k \in FuelKeys, data'.shown[k] # Absent
               PROVE  data'.shown[k] < MaxAge
    OBVIOUS
  <2>1. cache' \in Values /\ cache'[k] = Unexpired(sampled)[k]
    BY ExpireFacts DEF StatusFrame, TelemetryInv, TypeOK, SampleIsValue
  <2>2. data'.shown[k] = cache'[k]
    BY <2>1, OnlineFacts, PublishedFacts, KeyFacts DEF StatusFrame, TelemetryInv
  <2> QED
    BY <2>1, <2>2, ExpireFacts DEF TelemetryInv, TypeOK
<1> QED
  BY <1>1, TelemetryInvariant, PTL DEF Spec, FuelFresh

\* No callback publishes a cloud status of an earlier socket.
THEOREM CloudStatusTrue == Spec => CloudStatusCurrent
<1> DEFINE Current == StatusFrame \/ FailedPoll =>
      data'.shown["cloud_connection_status"] # Earlier
<1>1. TelemetryInv /\ [Next]_vars => [Current]_vars
  <2> SUFFICES ASSUME TelemetryInv, StatusFrame \/ FailedPoll
               PROVE  data'.shown["cloud_connection_status"] # Earlier
    OBVIOUS
  <2>1. CASE StatusFrame
    <3>1. /\ cache' \in Values
          /\ cache'["cloud_connection_status"] = cache["cloud_connection_status"]
      BY <2>1, ExpireFacts, KeyFacts DEF StatusFrame, TelemetryInv, TypeOK
    <3>2. data'.shown["cloud_connection_status"] = cache'["cloud_connection_status"]
      BY <2>1, <3>1, OnlineFacts, PublishedFacts, KeyFacts DEF StatusFrame, TelemetryInv
    <3> QED
      BY <3>1, <3>2 DEF TelemetryInv, CacheInv
  <2>2. CASE FailedPoll
    BY <2>2, PendingFacts, LostFacts, KeyFacts
       DEF FailedPoll, TelemetryInv, Absent, Earlier
  <2> QED
    BY <2>1, <2>2
<1> QED
  BY <1>1, TelemetryInvariant, PTL DEF Spec, CloudStatusCurrent

\* What is retained stays until a reload, or until a status after a value
\* out of range that the hub itself reported (_async_error, normalize_state).
THEOREM RetainedKept == Spec => RetainedStays
<1> DEFINE Stays == /\ \A k \in RetainedKeys :
                         data.shown[k] # Absent =>
                           data'.shown[k] # Absent \/ (StatusFrame /\ cache[k] = Beyond)
                    /\ data.reported => data'.reported
<1>1. TelemetryInv /\ [Next]_vars => [~Reload => Stays]_vars
  <2> SUFFICES ASSUME TelemetryInv, Next, ~Reload PROVE Stays
    BY DEF vars
  <2>1. CASE ApplianceFrame \/ Tick
    BY <2>1 DEF ApplianceFrame, MergeFuel, MergeStatus, IgnoreFuel, Tick, vars
  <2>2. CASE StatusFrame
    <3>1. cache' \in Values /\ \A k \in RetainedKeys : cache'[k] = cache[k]
      BY <2>2, ExpireFacts, KeyFacts DEF StatusFrame, TelemetryInv, TypeOK
    <3>2. data'.shown = Published(cache') /\ (data.reported => data'.reported)
      BY <2>2, <3>1, OnlineFacts DEF StatusFrame, TelemetryInv
    <3>3. \A k \in RetainedKeys : data.shown[k] # Absent /\ cache[k] # Beyond
                                   => data'.shown[k] # Absent
      BY <3>1, <3>2, PublishedFacts, KeyFacts DEF TelemetryInv, CacheInv
    <3> QED
      BY <2>2, <3>2, <3>3
  <2>3. CASE ReplaceSocket
    <3>1. data \in Data /\ data.shown \in Values
      BY DEF TelemetryInv, TypeOK, Data
    <3>2. data'.shown = Orphaned(data.shown) /\ data'.reported = data.reported
      BY <2>3, <3>1 DEF ReplaceSocket, Data
    <3> QED
      BY <3>1, <3>2, OrphanedFacts
  <2>4. CASE FailedPoll
    BY <2>4, PendingFacts, LostFacts, KeyFacts DEF FailedPoll, TelemetryInv
  <2> QED
    BY <2>1, <2>2, <2>3, <2>4 DEF Next
<1> QED
  BY <1>1, TelemetryInvariant, PTL DEF Spec, RetainedStays

-----------------------------------------------------------------------------
(* The entities.                                                           *)


\* What was added is what runs, the two entities of the slot come together,
\* and everything that asks for an entity has it.
ShownInv ==
  phase = "loaded" =>
    /\ live = added
    /\ \A k \in HubSensors : data.shown[k] # Absent => k \in added
    /\ data.probe \/ known => SlotSensors \subseteq added
    /\ added \cap SlotSensors # {} => SlotSensors \subseteq added
    /\ registry \cap SlotSensors # {} => SlotSensors \subseteq added

KnownType == known \in BOOLEAN

-----------------------------------------------------------------------------

\* Entities does to the data what Telemetry does, or leaves it alone.
LEMMA StepIsTelemetry == [ENext]_allVars => [Next]_vars
<1> SUFFICES ASSUME [ENext]_allVars PROVE [Next]_vars
  OBVIOUS
<1>1. LoadEntry \/ UnloadPlatforms \/ SaveRegistry \/ DeleteEntity \/ UNCHANGED allVars
        => UNCHANGED vars
  BY DEF LoadEntry, UnloadPlatforms, SaveRegistry, DeleteEntity, allVars
<1>2. Publishes \/ Proceeds \/ CloseEntry \/ Restart \/ TimePasses => Next
  BY DEF Publishes, Proceeds, CloseEntry, Restart, TimePasses, Next
<1> QED
  BY <1>1, <1>2 DEF ENext

\* A hub sensor is neither entity of the slot.
LEMMA HubOrSlot == HubSensors \cap SlotSensors = {}
BY EntitiesAssumption, TelemetryAssumption DEF SlotSensors, Keys, FuelTags, StatusKeys, RetainedKeys

\* What adding the new entities of some data d gives.
LEMMA NewFacts ==
  ASSUME NEW d, NEW have, NEW slots \in BOOLEAN, d.probe \in BOOLEAN,
         have \cap SlotSensors # {} => SlotSensors \subseteq have
  PROVE  LET all == have \cup New(d, have, slots) IN
           /\ \A k \in HubSensors : d.shown[k] # Absent => k \in all
           /\ d.probe \/ slots => SlotSensors \subseteq all
           /\ all \cap SlotSensors # {} => SlotSensors \subseteq all
<1>1. "probe_temperature" \in SlotSensors
  BY DEF SlotSensors
<1> QED
  BY <1>1, HubOrSlot DEF New

LEMMA ShownStep == TelemetryInv /\ ShownInv /\ KnownType /\ [ENext]_allVars => ShownInv'
<1> SUFFICES ASSUME TelemetryInv, ShownInv, KnownType, [ENext]_allVars
             PROVE  ShownInv'
  OBVIOUS
<1>0. TypeOK /\ TypeOK'
  BY StepIsTelemetry, StepInv DEF TelemetryInv
<1>1. CASE LoadEntry
  <2> DEFINE permanent == IF known' THEN SlotSensors ELSE {}
  <2>1. /\ known' = Known(registry) /\ data' = data
        /\ added' = permanent \cup New(data, permanent, known')
        /\ live' = added' /\ registry' = registry \cup (added' \cap SlotSensors)
    BY <1>1 DEF LoadEntry, vars
  <2>2. known' \in BOOLEAN /\ data.probe \in BOOLEAN
    BY <1>0, <2>1 DEF Known, TypeOK, Data
  <2>3. /\ \A k \in HubSensors : data.shown[k] # Absent => k \in added'
        /\ data.probe \/ known' => SlotSensors \subseteq added'
        /\ added' \cap SlotSensors # {} => SlotSensors \subseteq added'
    BY <2>1, <2>2, NewFacts
  <2>4. registry' \cap SlotSensors # {} => SlotSensors \subseteq added'
    BY <2>1, <2>3 DEF Known
  <2> QED
    BY <2>1, <2>3, <2>4 DEF ShownInv
<1>2. CASE Publishes
  <2>1. /\ added' = added \cup New(data', added, known) /\ UNCHANGED <<phase, known>>
        /\ phase = "loaded" => /\ live' = added'
                               /\ registry' = registry \cup (added' \cap SlotSensors)
    BY <1>2 DEF Publishes
  <2>2. CASE phase = "loaded"
    <3>1. data'.probe \in BOOLEAN
      BY <1>0 DEF TypeOK, Data
    <3>2. /\ \A k \in HubSensors : data'.shown[k] # Absent => k \in added'
          /\ data'.probe \/ known => SlotSensors \subseteq added'
          /\ added' \cap SlotSensors # {} => SlotSensors \subseteq added'
      BY <2>1, <2>2, <3>1, NewFacts DEF ShownInv, KnownType
    <3>3. registry' \cap SlotSensors # {} => SlotSensors \subseteq added'
      BY <2>1, <2>2, <3>2 DEF ShownInv
    <3> QED
      BY <2>1, <2>2, <3>2, <3>3 DEF ShownInv
  <2> QED
    BY <2>1, <2>2 DEF ShownInv
<1>3. CASE Proceeds
  <2>1. UNCHANGED <<phase, known, added, live, registry>>
    BY <1>3 DEF Proceeds, entityVars
  <2>2. /\ data'.probe = data.probe
        /\ \A k \in HubSensors : data'.shown[k] # Absent => data.shown[k] # Absent
    <3>1. CASE ApplianceFrame
      BY <3>1 DEF ApplianceFrame, MergeFuel, IgnoreFuel, MergeStatus, vars
    <3>2. CASE ReplaceSocket
      <4>1. data \in Data
        BY <1>0 DEF TypeOK
      <4>2. data'.probe = data.probe /\ data'.shown = Orphaned(data.shown)
        BY <3>2, <4>1 DEF ReplaceSocket, Data
      <4>3. \A k \in Keys : Orphaned(data.shown)[k] # Absent => data.shown[k] # Absent
        BY DEF Orphaned, Aged, Absent, Here
      <4> QED
        BY <4>2, <4>3, EntitiesAssumption
    <3> QED
      BY <1>3, <3>1, <3>2 DEF Proceeds
  <2> QED
    BY <2>1, <2>2 DEF ShownInv
<1>4. CASE DeleteEntity
  BY <1>4 DEF DeleteEntity, ShownInv, vars
<1>5. CASE SaveRegistry \/ TimePasses \/ UNCHANGED allVars
  BY <1>5 DEF SaveRegistry, TimePasses, Tick, allVars, entityVars, vars, ShownInv
<1>6. CASE UnloadPlatforms \/ CloseEntry \/ Restart
  BY <1>6 DEF UnloadPlatforms, CloseEntry, Restart, ShownInv
<1> QED
  BY <1>1, <1>2, <1>3, <1>4, <1>5, <1>6 DEF ENext

LEMMA KnownStep == KnownType /\ [ENext]_allVars => KnownType'
BY DEF KnownType, ENext, LoadEntry, Known, Publishes, Proceeds, UnloadPlatforms, CloseEntry, Restart, Forget,
       SaveRegistry, DeleteEntity, TimePasses, entityVars, allVars

-----------------------------------------------------------------------------

\* Entities implements Telemetry: whatever is proved of the published data
\* holds beside any loads, unloads, restarts and deletions.
THEOREM ImplementsTelemetry == ESpec => Spec
<1>1. EInit => Init
  BY DEF EInit
<1>2. [ENext]_allVars => [Next]_vars
  BY StepIsTelemetry
<1> QED
  BY <1>1, <1>2, PTL DEF ESpec, Spec

LEMMA ShownAlways == ESpec => []ShownInv
<1>1. EInit => ShownInv /\ KnownType
  BY DEF EInit, ShownInv, KnownType
<1>2. Spec => []TelemetryInv
  BY TelemetryInvariant
<1>3. TelemetryInv /\ ShownInv /\ KnownType /\ [ENext]_allVars => ShownInv' /\ KnownType'
  BY ShownStep, KnownStep
<1> QED
  BY <1>1, <1>2, <1>3, ImplementsTelemetry, PTL DEF ESpec

\* A value that was reported has its sensor, a reported slot its two.
THEOREM ReportedIsShownTrue == ESpec => []ReportedIsShown
<1>1. ShownInv => ReportedIsShown
  BY DEF ShownInv, ReportedIsShown
<1> QED
  BY <1>1, ShownAlways, PTL

\* A slot of which the registry has anything left has both its entities.
THEOREM KnownSlotsReturnTrue == ESpec => []KnownSlotsReturn
<1>1. ShownInv => KnownSlotsReturn
  BY DEF ShownInv, KnownSlotsReturn
<1> QED
  BY <1>1, ShownAlways, PTL

=============================================================================
