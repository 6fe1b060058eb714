------------------------------- MODULE Telemetry -------------------------------
(***************************************************************************)
(* What Home Assistant is shown of the hub: the appliance-status cache of  *)
(* WeberCloudSession (weber_cloud_socket.py) and the data the coordinator  *)
(* (coordinator.py, state.py) publishes from it.                           *)
(*                                                                         *)
(* A value is modelled by where it comes from: a fuel value by its age in  *)
(* ticks, in the published data by the age it was published at; the cloud  *)
(* status by whether the current socket reported it; the battery by        *)
(* whether what was reported is a percentage; any other value by its       *)
(* presence. The clock may tick between any two steps, so every age a slow *)
(* network or a long outage can produce occurs.                            *)
(***************************************************************************)
EXTENDS Integers

CONSTANTS MaxAge,       \* FUEL_STATUS_MAX_AGE, in ticks
          Threshold,    \* OFFLINE_FAILURE_THRESHOLD
          FuelKeys      \* the fuel keys of the instance: none depends on another

FuelTags == {"fuel_level", "fuel_percent"}

ASSUME TelemetryAssumption ==
  MaxAge \in Nat \ {0} /\ Threshold \in Nat \ {0} /\ FuelKeys \subseteq FuelTags

\* One key of each other kind: the cloud status, dropped with the socket, and of
\* those retained through an outage (CLOUD_OFFLINE_RETAINED_KEYS) one that is
\* published as it is cached and one that is checked on the way.
RetainedKeys == {"device_state", "battery_level"}
StatusKeys == {"cloud_connection_status"} \cup RetainedKeys
Keys == FuelKeys \cup StatusKeys
Absent == -1
Here == 0           \* reported, a cloud status on the current socket
Earlier == 1        \* a cloud status reported on a socket since dropped
Beyond == 2         \* a battery reported above 100

VARIABLES
  cache,        \* self._appliance_status
  sampled,      \* self._fuel_sample_times, as ages
  data,         \* coordinator.data
  failures,     \* consecutive_failures, saturated at Threshold
  succeeded,    \* last_successful_update is not None
  issue         \* the credentials_rejected repair issue exists

vars == <<cache, sampled, data, failures, succeeded, issue>>

Nothing == [k \in Keys |-> Absent]

\* normalize_state(None, connected=False), also initial_state.
Offline(known, wasUp) ==
  [connected |-> FALSE,
   reading   |-> IF wasUp THEN "connection_lost" ELSE "waiting",
   probe     |-> FALSE,
   shown     |-> known,
   reported  |-> FALSE]

Init ==
  /\ cache = Nothing /\ sampled = [k \in FuelKeys |-> Absent]
  /\ data = Offline(Nothing, FALSE)
  /\ failures = 0 /\ succeeded = FALSE
  /\ issue \in BOOLEAN              \* issues persist across restarts

-----------------------------------------------------------------------------
(* The session's cache.                                                    *)

\* Mutant: a sample of exactly the maximum age still counts.
DueLate(s) == {k \in FuelKeys : s[k] # Absent /\ s[k] > MaxAge}

Due(s) == {k \in FuelKeys : s[k] # Absent /\ s[k] >= MaxAge}
\* _expire_fuel_status, on the sample times and on the cache.
Unexpired(s) == [k \in FuelKeys |-> IF k \in Due(s) THEN Absent ELSE s[k]]
Expire(c, s) == [k \in Keys |-> IF k \in Due(s) THEN Absent ELSE c[k]]

\* Mutant: the whole cache outlives the socket.
SurvivorsAll(c, s) == Expire(c, s)

\* _async_close_connection: a value survives the socket if it is retained
\* or is fuel with a live sample time.
Survivors(c, s) ==
  [k \in Keys |-> IF k \in RetainedKeys \cup {f \in FuelKeys : Unexpired(s)[f] # Absent}
                    THEN Expire(c, s)[k] ELSE Absent]

\* What the loss of the socket makes of a value it had reported.
Aged(k, v) == IF k = "cloud_connection_status" /\ v = Here THEN Earlier ELSE v
Orphaned(c) == [k \in Keys |-> Aged(k, c[k])]

-----------------------------------------------------------------------------
(* A well-formed 0x83 frame.  Its fields merge independently, so a frame of *)
(* several fields is that many of these steps with none in between.        *)
MergeFuel(k) ==
  /\ sampled' = [sampled EXCEPT ![k] = 0]
  /\ cache' = [cache EXCEPT ![k] = 0]
  /\ UNCHANGED <<data, failures, succeeded, issue>>

\* What a frame can say of a key: the battery's byte is taken as it comes.
Reports(k) == IF k = "battery_level" THEN {Here, Beyond} ELSE {Here}

MergeStatus(k, v) ==
  /\ cache' = [cache EXCEPT ![k] = v]
  /\ UNCHANGED <<sampled, data, failures, succeeded, issue>>

\* A fuel field with a wrong length or value parses as None: not merged.
IgnoreFuel(k) == k \in FuelKeys /\ UNCHANGED vars

ApplianceFrame ==
  \/ \E k \in FuelKeys : MergeFuel(k) \/ IgnoreFuel(k)
  \/ \E k \in StatusKeys : \E v \in Reports(k) : MergeStatus(k, v)

\* _percent: a battery above 100 is published as none.
Published(c) == [c EXCEPT !["battery_level"] = IF @ = Beyond THEN Absent ELSE @]

\* normalize_state(status, connected=True), and the last reported cloud
\* status carried over when this status has none.
Online(c, probe) ==
  [connected |-> TRUE,
   reading   |-> "receiving",
   probe     |-> probe,
   shown     |-> Published(c),
   reported  |-> c["cloud_connection_status"] # Absent \/ data.reported]

\* Mutant: the repair issue outlives the working credential.
StatusFrameKeepsIssue ==
  /\ sampled' = Unexpired(sampled)
  /\ cache' = Expire(cache, sampled)
  /\ \E probe \in BOOLEAN : data' = Online(cache', probe)
  /\ failures' = 0 /\ succeeded' = TRUE /\ UNCHANGED issue

\* A 0x80 frame ends the poll and _async_status publishes it.
StatusFrame ==
  /\ sampled' = Unexpired(sampled)
  /\ cache' = Expire(cache, sampled)
  /\ \E probe \in BOOLEAN : data' = Online(cache', probe)
  /\ failures' = 0 /\ succeeded' = TRUE /\ issue' = FALSE

\* A token rotation or a fast recovery: the socket changes, nobody is told.
ReplaceSocket ==
  /\ cache' = Orphaned(Survivors(cache, sampled))
  /\ sampled' = Unexpired(sampled)
  /\ data' = [data EXCEPT !.shown = Orphaned(@)]
  /\ UNCHANGED <<failures, succeeded, issue>>

\* Mutant: the first failure already shows the connection lost.
PendingLost == Offline(data.shown, succeeded)

\* _async_error below the threshold: the entities keep their values.
Pending ==
  [data EXCEPT !.reading = IF succeeded THEN "reconnecting" ELSE "waiting",
               !.shown = [Orphaned(@) EXCEPT !["cloud_connection_status"] = Absent]]

\* Mutant: the offline state is built from nothing.
LostBare == Offline(Nothing, succeeded)

\* Mutant: the offline state keeps every value.
LostKeepsAll == [data EXCEPT !.reading = "connection_lost"]

\* _async_error at the threshold: only the retained keys are carried over.
Lost ==
  [Offline([k \in Keys |-> IF k \in RetainedKeys THEN data.shown[k] ELSE Absent],
           succeeded)
     EXCEPT !.reported = data.reported]

\* A failed poll: the socket is dropped, then _async_error is called.
FailedPoll ==
  \E kind \in {"connection", "credentials"} :
    /\ cache' = Orphaned(Survivors(cache, sampled))
    /\ sampled' = Unexpired(sampled)
    /\ failures' = IF failures < Threshold THEN failures + 1 ELSE failures
    /\ data' = IF failures + 1 < Threshold THEN Pending ELSE Lost
    /\ issue' = (issue \/ kind = "credentials")
    /\ UNCHANGED succeeded

\* The entry is reloaded: session and coordinator start afresh.
Reload ==
  /\ cache' = Nothing /\ sampled' = [k \in FuelKeys |-> Absent]
  /\ data' = Offline(Nothing, FALSE)
  /\ failures' = 0 /\ succeeded' = FALSE
  /\ UNCHANGED issue

\* Time passes; an age past the maximum is not told from the maximum.
Older(v) == IF v # Absent /\ v < MaxAge THEN v + 1 ELSE v
Tick ==
  /\ sampled' = [k \in FuelKeys |-> Older(sampled[k])]
  /\ cache' = [k \in Keys |-> IF k \in FuelKeys THEN Older(cache[k]) ELSE cache[k]]
  /\ UNCHANGED <<data, failures, succeeded, issue>>

Next == \/ ApplianceFrame \/ StatusFrame \/ ReplaceSocket \/ FailedPoll
        \/ Reload \/ Tick

Spec == Init /\ [][Next]_vars

-----------------------------------------------------------------------------
(* Properties.                                                             *)

Ages == {Absent} \cup 0..MaxAge
Sources(k) == {Absent} \cup Reports(k)
                \cup (IF k = "cloud_connection_status" THEN {Earlier} ELSE {})
Values == {v \in [Keys -> Ages \cup {Earlier, Beyond}] :
             \A k \in Keys : v[k] \in IF k \in FuelKeys THEN Ages ELSE Sources(k)}
Data == [connected : BOOLEAN,
         reading   : {"waiting", "receiving", "reconnecting", "connection_lost"},
         probe     : BOOLEAN,
         shown     : Values,
         reported  : BOOLEAN]

\* Every variable has its type.
TypeOK ==
  /\ cache \in Values
  /\ sampled \in [FuelKeys -> Ages]
  /\ data \in Data
  /\ failures \in 0..Threshold /\ succeeded \in BOOLEAN
  /\ issue \in BOOLEAN

\* "Never extended by reuse": the age of a cached fuel value is the age of
\* its sample, whatever frames and sockets came in between.
SampleIsValue == \A k \in FuelKeys : cache[k] = sampled[k]

\* Only fuel sampled within the last minute is published by a status.
FuelFresh ==
  [][StatusFrame => \A k \in FuelKeys : data'.shown[k] # Absent => data'.shown[k] < MaxAge]_vars

\* "Device cloud status must be reported again on the new connection": no
\* callback leaves a cloud status that an earlier socket reported.
CloudStatusCurrent ==
  [][StatusFrame \/ FailedPoll => data'.shown["cloud_connection_status"] # Earlier]_vars

\* A transport failure cannot turn a slow-changing hub entity unknown, nor
\* forget the last reported cloud status.  Besides a reload, only a status
\* takes a retained value back, and only where the last the hub itself said
\* of it, on whatever socket, is out of range.
RetainedStays ==
  [][~Reload => /\ \A k \in RetainedKeys :
                     data.shown[k] # Absent =>
                       data'.shown[k] # Absent \/ (StatusFrame /\ cache[k] = Beyond)
                /\ data.reported => data'.reported]_vars

\* An appliance shown offline shows no live value, no fuel, no cloud status.
OfflineIsBare ==
  failures = Threshold =>
    /\ ~data.connected /\ ~data.probe
    /\ \A k \in Keys \ RetainedKeys : data.shown[k] = Absent

\* The connection entity is on exactly from the first success until the
\* Threshold-th failure in a row, and the reading status says which it is.
ShownAvailability ==
  /\ data.connected <=> succeeded /\ failures < Threshold
  /\ data.reading = IF ~succeeded THEN "waiting"
                    ELSE IF failures = 0 THEN "receiving"
                    ELSE IF failures < Threshold THEN "reconnecting" ELSE "connection_lost"

\* A working credential leaves no repair issue behind, one raised before a
\* restart included.
IssueMeansFailure == data.reading = "receiving" => ~issue

=============================================================================
