------------------------------- MODULE Entities -------------------------------
(***************************************************************************)
(* The entities an entry shows, over loads, unloads and restarts of Home   *)
(* Assistant (sensor.py, entity.py, __init__.py), on top of the data of    *)
(* Telemetry that creates them.                                            *)
(*                                                                         *)
(* Two kinds of sensors appear as they are reported: those of the hub, one *)
(* per key, and those of a probe slot beyond the ones every load starts    *)
(* with, a temperature and a reading status, which come together.  One     *)
(* such slot is modelled: data.probe says that it is reported.             *)
(*                                                                         *)
(* The entity registry, its delayed save and what a user may delete from   *)
(* it are Home Assistant's.                                                *)
(***************************************************************************)
EXTENDS Telemetry

CONSTANT HubSensors     \* the keys with a sensor of DYNAMIC_HUB_SENSORS

ASSUME EntitiesAssumption == HubSensors \subseteq Keys

SlotSensors == {"probe_temperature", "probe_reading_status"}
Sensors == HubSensors \cup SlotSensors

VARIABLES
  phase,        \* of the entry: unloaded, loaded or unloading
  known,        \* known_numbers holds the slot
  added,        \* added_dynamic_sensor_keys
  live,         \* the entities Home Assistant runs
  registry,     \* the ids of the slot in the entity registry; the others play no part
  saved         \* those on disk

entityVars == <<phase, known, added, live, registry, saved>>
allVars == <<vars, entityVars>>

EInit ==
  /\ Init
  /\ phase = "unloaded" /\ known = FALSE
  /\ added = {} /\ live = {} /\ registry = {} /\ saved = {}

-----------------------------------------------------------------------------

\* Mutant: the slot is known by its temperature only.
KnownByTemperature(ids) == "probe_temperature" \in ids

\* known_probe_numbers: either entity of a slot is enough.
Known(ids) == ids \cap SlotSensors # {}

\* Mutant: a slot that is reported later is left to the next load.
NewHubOnly(d, have, slots) ==
  {k \in HubSensors \ have : d.shown[k] # Absent}
    \cup IF slots /\ "probe_temperature" \notin have THEN SlotSensors ELSE {}

\* _async_add_dynamic_sensors: what the data has and was not added yet.
New(d, have, slots) ==
  {k \in HubSensors \ have : d.shown[k] # Absent}
    \cup IF (d.probe \/ slots) /\ "probe_temperature" \notin have THEN SlotSensors ELSE {}

\* async_setup_entry: a new coordinator publishes the idle state, the sensors
\* are set up, then the session starts; nothing else runs for the entry.
LoadEntry ==
  /\ phase = "unloaded" /\ phase' = "loaded"
  /\ known' = Known(registry)
  /\ LET permanent == IF known' THEN SlotSensors ELSE {} IN
     /\ added' = permanent \cup New(data, permanent, known')
     /\ live' = added' /\ registry' = registry \cup (added' \cap SlotSensors)
  /\ UNCHANGED <<vars, saved>>

\* The session goes on until it is closed.
Running == phase # "unloaded"

\* A step of the session that publishes: the listeners are called with it.
\* Home Assistant is taken to run no entity of a platform it has unloaded.
Publishes ==
  /\ Running /\ (StatusFrame \/ FailedPoll)
  /\ added' = added \cup New(data', added, known)
  /\ IF phase = "loaded"
       THEN live' = added' /\ registry' = registry \cup (added' \cap SlotSensors)
       ELSE UNCHANGED <<live, registry>>
  /\ UNCHANGED <<phase, known, saved>>

\* One that does not.
Proceeds ==
  /\ Running /\ (ApplianceFrame \/ ReplaceSocket)
  /\ UNCHANGED entityVars

\* async_unload_entry: the platforms are unloaded.  Where one of them fails
\* to, nothing follows and the entry stays here until Home Assistant restarts.
UnloadPlatforms ==
  /\ phase = "loaded" /\ phase' = "unloading" /\ live' = {}
  /\ UNCHANGED <<vars, known, added, registry, saved>>

\* The set-up is forgotten with its listeners.
Forget == known' = FALSE /\ added' = {}

\* Then async_close, and the listeners are removed.
CloseEntry ==
  /\ phase = "unloading" /\ phase' = "unloaded" /\ Reload /\ Forget
  /\ UNCHANGED <<live, registry, saved>>

\* Home Assistant stops, having saved its registry or not, and starts again.
Restart ==
  /\ registry' \in {registry, saved} /\ saved' = registry'
  /\ phase' = "unloaded" /\ live' = {} /\ Reload /\ Forget

SaveRegistry == saved' = registry /\ UNCHANGED <<vars, phase, known, added, live, registry>>

\* A user deletes an entity that is not running.
DeleteEntity ==
  /\ \E k \in registry \ live : registry' = registry \ {k}
  /\ UNCHANGED <<vars, phase, known, added, live, saved>>

TimePasses == Tick /\ UNCHANGED entityVars

ENext ==
  \/ LoadEntry \/ Publishes \/ Proceeds \/ UnloadPlatforms \/ CloseEntry
  \/ Restart \/ SaveRegistry \/ DeleteEntity \/ TimePasses

ESpec == EInit /\ [][ENext]_allVars

-----------------------------------------------------------------------------
(* Properties.                                                             *)

\* Whatever the hub has ever reported in this load can be seen: a value has
\* its sensor, a reported slot its two, also when they first appear after a
\* failure, a reconnect or a reload.
ReportedIsShown ==
  phase = "loaded" =>
    /\ \A k \in HubSensors : data.shown[k] # Absent => k \in live
    /\ data.probe => SlotSensors \subseteq live

\* "Keep known physical slots available even before new telemetry arrives":
\* a slot of which anything is left in the registry has both its entities in
\* every load, whatever was reported, deleted or lost in a crash.
KnownSlotsReturn ==
  phase = "loaded" /\ registry \cap SlotSensors # {} => SlotSensors \subseteq live

=============================================================================
