------------------------------- MODULE ConfigFlow -------------------------------
(***************************************************************************)
(* Setup and repair of a hub: the config flow (config_flow.py), the store  *)
(* of SiLabs pairing records (pairing_storage.py) and the entries they     *)
(* create.  Several flows run at once; each awaits Bluetooth, the cloud or *)
(* the store, and may be closed while it waits.                            *)
(*                                                                         *)
(* A companion stands for everything generated with it: its identifier,    *)
(* its cloud password, its signing keys and the name of its record.  The   *)
(* flow manager, the entry registry with its delayed save, the hubs and    *)
(* Weber's services are external.  The support page shows a report and     *)
(* returns to the menu it came from: it is no step of its own.             *)
(***************************************************************************)
EXTENDS Naturals, FiniteSets

CONSTANTS Flows, Hubs,
          Silabs,       \* the hubs that speak the SiLabs protocol
          Companions,   \* what generate_identity can return, each once
          Appliances,   \* the appliance identifiers a hub can report
          None

ASSUME ConfigFlowAssumption ==
  /\ Silabs \subseteq Hubs
  /\ None \notin Flows \cup Hubs \cup Companions \cup Appliances

VARIABLES
  flow,         \* the state of each config flow
  entries,      \* the entry of each hub address, in memory
  disk,         \* the entries as last saved
  store,        \* the companions with a pairing record
  made,         \* the companions generated so far
  registered,   \* the companions Weber's cloud knows
  stray,        \* registrations that run for no flow
  lost          \* a crash has undone a change to an entry

vars == <<flow, entries, disk, store, made, registered, stray, lost>>

Repairs == {"reauth", "reconfigure"}
Menus == {"no_devices", "protocol_qualification", "cloud_preparation_failed",
          "pairing_failed", "cloud_not_linked", "cloud_unavailable", "setup_failed"}
Forms == {"user", "confirm"}
Working == {"preparing", "pairing", "cloud"}        \* progress steps: a task runs
Suspended == {"qualifying", "saving", "retiring"}   \* a step awaits something
Steps == {"gone", "complete", "broken"} \cup Menus \cup Forms \cup Working \cup Suspended

Blank == [step |-> "gone", source |-> "user", uid |-> None, alive |-> FALSE,
          address |-> None, evidence |-> "none", identity |-> None, config |-> None,
          entry |-> None, result |-> None, data |-> None, old |-> None]

Init ==
  /\ flow = [f \in Flows |-> Blank]
  /\ entries = [h \in Hubs |-> None] /\ disk = entries
  /\ store = {} /\ made = {} /\ registered = {} /\ stray = {} /\ lost = FALSE

\* An entry is named by the companion that created it: the same address may
\* get another entry once its first is deleted.
Exists(id, h) == entries[h] # None /\ entries[h].id = id

Open(f) == flow[f].step # "gone" /\ flow[f].alive
Repairing(f) == flow[f].source \in Repairs
Becomes(f, r) == flow' = [flow EXCEPT ![f] = r]
Goto(f, step) == Becomes(f, [flow[f] EXCEPT !.step = step])

\* Home Assistant: another flow in progress has the unique identifier h.
Taken(f, h) == \E g \in Flows \ {f} : Open(g) /\ flow[g].uid = h
\* _async_in_progress(match_context={"entry_id"}): another flow repairs it.
UnderRepair(f, id) == \E g \in Flows \ {f} : Open(g) /\ flow[g].entry = id

\* classify_discovery of what h advertises: conclusive for a Saber hub, to
\* be settled over GATT for a SiLabs hub; where its company data was missed,
\* a hub of either kind is a Saber hub by its name; or it is not usable.
Advertised(h) ==
  {IF h \in Silabs THEN "needs_gatt" ELSE "saber", "name_only", "unqualified"}
\* The family an entry remembers, that of its hub, is enough for Saber only.
Persisted(h) == IF h \in Silabs THEN "unqualified" ELSE "saber"

\* Mutant: starting over keeps the cloud companion.
ResetSetupKeepsConfig(r) ==
  [Blank EXCEPT !.source = r.source, !.uid = r.uid, !.alive = r.alive,
                !.entry = r.entry, !.config = r.config]

\* _reset_setup: tasks cancelled, everything but the flow's context cleared.
ResetSetup(r) ==
  [Blank EXCEPT !.source = r.source, !.uid = r.uid, !.alive = r.alive, !.entry = r.entry]

-----------------------------------------------------------------------------
(* Starting a flow and choosing the hub.                                   *)

BeginUser(f) ==
  /\ flow[f].step = "gone"
  /\ Becomes(f, [Blank EXCEPT !.step = "user", !.alive = TRUE])
  /\ UNCHANGED <<entries, disk, store, made, registered, stray, lost>>

\* async_step_bluetooth, for an advertisement that is a Weber hub's.
Discovered(f, h) ==
  /\ flow[f].step = "gone" /\ ~Taken(f, h) /\ entries[h] = None
  /\ \E evidence \in Advertised(h) :
       Becomes(f, [Blank EXCEPT !.step = "confirm", !.alive = TRUE, !.uid = h,
                                !.address = h, !.evidence = evidence])
  /\ UNCHANGED <<entries, disk, store, made, registered, stray, lost>>

\* Mutant: a configured hub can be set up again.
UserStepConfigured(f) ==
  /\ Open(f) /\ flow[f].step = "user"
  /\ \E h \in Hubs, evidence \in {"saber", "needs_gatt"} :
       /\ ~Taken(f, h) /\ evidence \in Advertised(h)
       /\ Becomes(f, [flow[f] EXCEPT !.step = "confirm", !.uid = h,
                                     !.address = h, !.evidence = evidence])
  /\ UNCHANGED <<entries, disk, store, made, registered, stray, lost>>

\* async_step_user: submitted with a hub, or shown with none in sight.
UserStep(f) ==
  /\ Open(f) /\ flow[f].step = "user"
  /\ \/ \E h \in Hubs :
          IF Taken(f, h) \/ entries[h] # None
            THEN Becomes(f, Blank)
            ELSE \E evidence \in Advertised(h) :
                   Becomes(f, [flow[f] EXCEPT !.step = "confirm", !.uid = h,
                                              !.address = h, !.evidence = evidence])
     \/ Goto(f, "no_devices")
  /\ UNCHANGED <<entries, disk, store, made, registered, stray, lost>>

\* Mutant: a flow of the other source is not looked for.
RepairedAgain(f, h, r) ==
  \E evidence \in Advertised(h) \cup {Persisted(h)} :
    Becomes(f, [r EXCEPT !.step = "confirm", !.uid = h, !.address = h,
                         !.entry = entries[h].id, !.evidence = evidence])

\* _async_begin_repair: refused beside another flow for the entry, otherwise
\* the entry's address, and the best evidence at hand.
Repaired(f, h, r) ==
  IF UnderRepair(f, entries[h].id) \/ Taken(f, h)
    THEN Becomes(f, Blank)
    ELSE \E evidence \in Advertised(h) \cup {Persisted(h)} :
           Becomes(f, [r EXCEPT !.step = "confirm", !.uid = h, !.address = h,
                                !.entry = entries[h].id, !.evidence = evidence])

\* async_step_reauth and async_step_reconfigure.
BeginRepair(f, h) ==
  /\ flow[f].step = "gone" /\ entries[h] # None
  /\ \E source \in Repairs : Repaired(f, h, [Blank EXCEPT !.source = source, !.alive = TRUE])
  /\ UNCHANGED <<entries, disk, store, made, registered, stray, lost>>

\* search_again, choose_hub, start_over.  A repair whose entry was deleted
\* raises after the reset and stays, with nothing left, at its menu.
StartOver(f) ==
  /\ Open(f) /\ flow[f].step \in Menus
  /\ LET fresh == ResetSetup(flow[f]) IN
     \/ /\ Repairing(f) /\ Exists(flow[f].entry, flow[f].uid)
        /\ Repaired(f, flow[f].uid, fresh)
     \/ /\ Repairing(f) /\ ~Exists(flow[f].entry, flow[f].uid)
        /\ Becomes(f, [fresh EXCEPT !.step = flow[f].step])
     \/ ~Repairing(f) /\ flow[f].step = "no_devices" /\ Goto(f, "user")
     \/ /\ ~Repairing(f) /\ flow[f].step # "no_devices"
        /\ Becomes(f, [fresh EXCEPT !.step = "user"])
  /\ UNCHANGED <<entries, disk, store, made, registered, stray, lost>>

-----------------------------------------------------------------------------
(* Qualification, registration, pairing, association.                      *)

\* require_pairing_support of the adapter for this evidence: the Saber one
\* asks for no more than the family.
Qualified(evidence) == evidence \in {"saber", "name_only", "silabs"}

\* _start_cloud_preparation: an identity is generated once and then kept.
Prepare(f, r) ==
  IF r.identity # None
    THEN /\ Becomes(f, [r EXCEPT !.step = "preparing"])
         /\ UNCHANGED <<made, stray>>
    ELSE \E c \in Companions \ made :
           LET ready == [r EXCEPT !.step = "preparing", !.identity = c,
                                  !.config = IF @ = None THEN c ELSE @]
           IN  /\ made' = made \cup {c}
               /\ Becomes(f, IF r.alive THEN ready ELSE Blank)
               /\ stray' = IF r.alive THEN stray ELSE stray \cup {c}

\* async_step_confirm, submitted.
Confirm(f) ==
  /\ Open(f) /\ flow[f].step = "confirm"
  /\ LET e == flow[f].evidence IN
     \/ e = "needs_gatt" /\ Goto(f, "qualifying") /\ UNCHANGED <<made, stray>>
     \/ Qualified(e) /\ Prepare(f, flow[f])
     \/ /\ e # "needs_gatt" /\ ~Qualified(e)
        /\ Goto(f, "protocol_qualification") /\ UNCHANGED <<made, stray>>
  /\ UNCHANGED <<entries, disk, store, registered, lost>>

\* async_qualify_gatt returned: an appliance's services, others, or an error.
\* The step goes on even if its flow has been closed meanwhile.
GattRead(f) ==
  /\ flow[f].step = "qualifying"
  /\ \/ Prepare(f, [flow[f] EXCEPT !.evidence = "silabs"])
     \/ /\ \E e \in {"unqualified", "needs_gatt"} :
             Becomes(f, IF flow[f].alive
                          THEN [flow[f] EXCEPT !.step = "protocol_qualification",
                                               !.evidence = e]
                          ELSE Blank)
        /\ UNCHANGED <<made, stray>>
  /\ UNCHANGED <<entries, disk, store, registered, lost>>

\* _start_pairing: refused without a hub, a companion or their protocol.
StartPairing(f) ==
  LET r == flow[f] IN
  Goto(f, IF r.address # None /\ r.identity # None /\ Qualified(r.evidence)
            THEN "pairing" ELSE "pairing_failed")

\* Mutant: the hub is contacted whatever became of the registration.
PreparedAnyway(f) ==
  /\ Open(f) /\ flow[f].step = "preparing"
  /\ \/ registered' = registered \cup {flow[f].config} /\ Goto(f, "pairing")
     \/ Goto(f, "pairing") /\ UNCHANGED registered
  /\ UNCHANGED <<entries, disk, store, made, stray, lost>>

\* async_step_preparing, with its task done: pairing starts at once.  A
\* failed registration may still have reached the cloud.
Prepared(f) ==
  /\ Open(f) /\ flow[f].step = "preparing"
  /\ \/ registered' = registered \cup {flow[f].config} /\ StartPairing(f)
     \/ /\ \E step \in {"cloud_preparation_failed", "setup_failed"} : Goto(f, step)
        /\ registered' \in {registered, registered \cup {flow[f].config}}
  /\ UNCHANGED <<entries, disk, store, made, stray, lost>>

\* A hub approves only requests of its own protocol: it discards others.
Understood(r) == r.evidence = "silabs" <=> r.address \in Silabs

\* async_step_pairing, with its task done.
Paired(f) ==
  /\ Open(f) /\ flow[f].step = "pairing"
  /\ \/ \E a \in Appliances :
          Understood(flow[f]) /\ Becomes(f, [flow[f] EXCEPT !.step = "cloud",
                                     !.result = [appliance |-> a,
                                                 companion |-> flow[f].identity]])
     \/ \E step \in {"pairing_failed", "setup_failed"} : Goto(f, step)
  /\ UNCHANGED <<entries, disk, store, made, registered, stray, lost>>

\* Mutant: a hub that is not linked is paired again without asking.
CloudDoneRetries(f) ==
  /\ Open(f) /\ flow[f].step = "cloud"
  /\ Goto(f, "pairing")
  /\ UNCHANGED <<entries, disk, store, made, registered, stray, lost>>

\* async_step_cloud, with its task done.  The entry data is put together at
\* the end of the task from what the flow then holds.
CloudDone(f) ==
  /\ Open(f) /\ flow[f].step = "cloud"
  /\ LET r == flow[f] IN
     \/ Becomes(f, [r EXCEPT !.step = "complete",
                             !.data = [id |-> r.identity, companion |-> r.identity,
                                       password |-> r.config,
                                       appliance |-> r.result.appliance, ref |-> None]])
     \/ \E step \in {"cloud_not_linked", "cloud_unavailable", "setup_failed"} : Goto(f, step)
  /\ UNCHANGED <<entries, disk, store, made, registered, stray, lost>>

\* retry_preparation, retry_pairing, retry_cloud: the same identity.  After
\* a reset there is none: the first makes another, the last fails at once.
Retry(f) ==
  /\ Open(f)
  /\ \/ flow[f].step = "cloud_preparation_failed" /\ Prepare(f, flow[f])
     \/ flow[f].step = "pairing_failed" /\ StartPairing(f) /\ UNCHANGED <<made, stray>>
     \/ /\ flow[f].step \in {"cloud_not_linked", "cloud_unavailable"}
        /\ Goto(f, IF flow[f].result = None THEN "cloud_unavailable" ELSE "cloud")
        /\ UNCHANGED <<made, stray>>
  /\ UNCHANGED <<entries, disk, store, registered, lost>>

-----------------------------------------------------------------------------
(* Completion.                                                             *)

\* async_create_entry.  Home Assistant drops the result of a closed flow,
\* and would replace an entry that has the same unique identifier.
CreateEntry(f, data) ==
  LET h == flow[f].address IN
  /\ entries' = IF flow[f].alive THEN [entries EXCEPT ![h] = data] ELSE entries
  /\ Becomes(f, Blank)

\* Mutant: the updated entry keeps the reference of the replaced record.
UpdateEntryKeepsRef(f, data) ==
  LET h == flow[f].address
      old == entries[h] IN
  /\ Exists(flow[f].entry, h)
  /\ entries' = [entries EXCEPT ![h] = [data EXCEPT !.id = old.id, !.ref = old.ref]]
  /\ Becomes(f, [flow[f] EXCEPT !.step = "retiring", !.old = old.ref])

\* async_update_reload_and_abort: the data is merged into the entry; a
\* deleted entry cannot be updated.  A replaced record is then removed.
UpdateEntry(f, data) ==
  LET h == flow[f].address
      old == entries[h]
      ref == IF data.ref = None THEN old.ref ELSE data.ref IN
  IF ~Exists(flow[f].entry, h)
    THEN /\ Becomes(f, IF flow[f].alive THEN [flow[f] EXCEPT !.step = "broken"] ELSE Blank)
         /\ UNCHANGED entries
    ELSE /\ entries' = [entries EXCEPT ![h] = [data EXCEPT !.id = old.id, !.ref = ref]]
         /\ Becomes(f, IF old.ref \notin {None, data.ref}
                         THEN [flow[f] EXCEPT !.step = "retiring", !.old = old.ref]
                         ELSE Blank)

Finish(f, data) == IF Repairing(f) THEN UpdateEntry(f, data) ELSE CreateEntry(f, data)

\* Mutant: another appliance at the same address is accepted.
CompleteAnyHub(f) ==
  /\ Open(f) /\ flow[f].step = "complete"
  /\ IF flow[f].evidence = "silabs"
       THEN Goto(f, "saving") /\ UNCHANGED entries
       ELSE Finish(f, flow[f].data)
  /\ UNCHANGED <<disk, store, made, registered, stray, lost>>

\* async_step_complete, up to the point where it saves a SiLabs record.
Complete(f) ==
  /\ Open(f) /\ flow[f].step = "complete"
  /\ LET r == flow[f]
         deleted == Repairing(f) /\ ~Exists(r.entry, r.address)
         wrong == /\ Repairing(f) /\ ~deleted
                  /\ r.data.appliance # entries[r.address].appliance IN
     \/ deleted /\ Goto(f, "broken") /\ UNCHANGED entries
     \/ wrong /\ Becomes(f, Blank) /\ UNCHANGED entries
     \/ /\ ~deleted /\ ~wrong
        /\ IF r.evidence = "silabs"
             THEN Goto(f, "saving") /\ UNCHANGED entries
             ELSE Finish(f, r.data)
  /\ UNCHANGED <<disk, store, made, registered, stray, lost>>

\* _async_save_pairing_keys returned.
Saved(f) ==
  /\ flow[f].step = "saving"
  /\ LET c == flow[f].result.companion IN
     \/ /\ store' = store \cup {c}
        /\ Finish(f, [flow[f].data EXCEPT !.ref = c])
     \/ /\ Becomes(f, IF flow[f].alive THEN [flow[f] EXCEPT !.step = "setup_failed"] ELSE Blank)
        /\ UNCHANGED <<entries, store>>
  /\ UNCHANGED <<disk, made, registered, stray, lost>>

\* The replaced companion's record is removed; a failure is only logged.
Retired(f) ==
  /\ flow[f].step = "retiring"
  /\ store' \in {store, store \ {flow[f].old}}
  /\ Becomes(f, Blank)
  /\ UNCHANGED <<entries, disk, made, registered, stray, lost>>

-----------------------------------------------------------------------------
(* The surroundings.                                                       *)

\* What the threads of registrations in progress for these flows can still
\* bring about, cancelled or not.
MayRegister(F) ==
  {registered \cup C : C \in SUBSET {flow[f].config : f \in {g \in F : flow[g].step = "preparing"}}}

\* A flow is removed: async_remove cancels its tasks.  A step that is awaiting
\* something else runs on.
Removed(r) == IF r.step \in Suspended THEN [r EXCEPT !.alive = FALSE] ELSE Blank

\* The user closes the dialog.
Close(f) ==
  /\ Open(f)
  /\ Becomes(f, Removed(flow[f]))
  /\ registered' \in MayRegister({f})
  /\ UNCHANGED <<entries, disk, store, made, stray, lost>>

\* A registration that runs for no flow ends.
StrayEnds(c) ==
  /\ c \in stray
  /\ stray' = stray \ {c}
  /\ registered' \in {registered, registered \cup {c}}
  /\ UNCHANGED <<flow, entries, disk, store, made, lost>>

\* The user deletes an entry: async_remove_entry removes its record, and
\* Home Assistant removes the flows that reauthenticate it.
RemoveEntry(h) ==
  /\ entries[h] # None
  /\ entries' = [entries EXCEPT ![h] = None]
  /\ store' = store \ {entries[h].ref}
  /\ LET moot == {f \in Flows : /\ Open(f) /\ flow[f].source = "reauth"
                                /\ flow[f].entry = entries[h].id} IN
     /\ flow' = [f \in Flows |-> IF f \in moot THEN Removed(flow[f]) ELSE flow[f]]
     /\ registered' \in MayRegister(moot)
  /\ UNCHANGED <<disk, made, stray, lost>>

\* Entries are saved with a delay, records at once.
SaveEntries ==
  /\ disk # entries /\ disk' = entries
  /\ UNCHANGED <<flow, entries, store, made, registered, stray, lost>>

\* Home Assistant stops without saving and starts again.
Crash ==
  /\ entries' = disk /\ lost' = (lost \/ disk # entries)
  /\ flow' = [f \in Flows |-> Blank] /\ stray' = {}
  /\ \E sent \in MayRegister(Flows), late \in SUBSET stray : registered' = sent \cup late
  /\ UNCHANGED <<disk, store, made>>

Step(f) ==
  \/ BeginUser(f) \/ UserStep(f) \/ StartOver(f) \/ Confirm(f) \/ GattRead(f)
  \/ Prepared(f) \/ Paired(f) \/ CloudDone(f) \/ Retry(f)
  \/ Complete(f) \/ Saved(f) \/ Retired(f) \/ Close(f)
  \/ \E h \in Hubs : Discovered(f, h) \/ BeginRepair(f, h)

Next ==
  \/ \E f \in Flows : Step(f)
  \/ \E c \in Companions : StrayEnds(c)
  \/ \E h \in Hubs : RemoveEntry(h)
  \/ SaveEntries \/ Crash

Spec == Init /\ [][Next]_vars

\* Tasks end, their callers go on: asyncio, the services' and the radio's
\* timeouts, and Home Assistant's progress callbacks.
Progress(f) == GattRead(f) \/ Prepared(f) \/ Paired(f) \/ CloudDone(f)
               \/ Complete(f) \/ Saved(f) \/ Retired(f)
FairSpec == Spec /\ \A f \in Flows : WF_vars(Progress(f))
                 /\ \A c \in Companions : WF_vars(StrayEnds(c))

-----------------------------------------------------------------------------
(* Properties.                                                             *)

Entry == [id : Companions, companion : Companions, password : Companions,
          appliance : Appliances, ref : Companions \cup {None}]
OrNone(S) == S \cup {None}

\* Every variable has its type.
TypeOK ==
  /\ flow \in [Flows ->
       [step : Steps, source : {"user"} \cup Repairs, uid : OrNone(Hubs), alive : BOOLEAN,
        address : OrNone(Hubs), identity : OrNone(Companions), config : OrNone(Companions),
        evidence : {"none", "saber", "name_only", "silabs", "needs_gatt", "unqualified"},
        entry : OrNone(Companions), old : OrNone(Companions), data : OrNone(Entry),
        result : OrNone([appliance : Appliances, companion : Companions])]]
  /\ entries \in [Hubs -> OrNone(Entry)] /\ disk \in [Hubs -> OrNone(Entry)]
  /\ store \subseteq Companions /\ made \subseteq Companions
  /\ registered \subseteq made /\ stray \subseteq made /\ lost \in BOOLEAN

Live(h) == entries[h] # None

EntryWhole(h) ==
  Live(h) => /\ entries[h].password = entries[h].companion
             /\ entries[h].ref = IF h \in Silabs THEN entries[h].companion ELSE None
             /\ entries[h].companion \in registered

\* "Register the private companion before presenting it to the hub", and
\* present it in the hub's own protocol, or in Saber's to a hub known by its
\* name only; such a hub gets no further unless it speaks Saber.
FlowWhole(f) ==
  LET r == flow[f] IN
  r.step \in {"pairing", "cloud", "complete", "saving"} =>
    /\ r.identity \in registered /\ r.config = r.identity
    /\ \/ r.evidence = IF r.address \in Silabs THEN "silabs" ELSE "saber"
       \/ r.evidence = "name_only" /\ (r.step = "pairing" \/ r.address \notin Silabs)

\* An entry holds one generation of secrets: its companion, the password
\* registered with it and the record saved with it are never those of two
\* attempts, whatever was retried, repaired or started over; nor are those a
\* flow presents to its hub, and they are registered by then.
OneGeneration == (\A h \in Hubs : EntryWhole(h)) /\ (\A f \in Flows : FlowWhole(f))

\* The record an entry refers to exists: no repair, failed save or deletion
\* of another entry removes it.  Only a crash before the entry registry is
\* saved can take an entry back to a record that is gone.
RefStored ==
  ~lost => \A h \in Hubs : Live(h) /\ entries[h].ref # None => entries[h].ref \in store

\* Two flows never set up or repair the same hub at once.
OneFlowPerHub ==
  \A f, g \in Flows : f # g /\ Open(f) /\ Open(g) /\ flow[f].address # None
                      => flow[f].address # flow[g].address

\* A finished setup never replaces the entry another flow made meanwhile.
NeverReplaces ==
  [][\A h \in Hubs : Live(h) /\ entries'[h] # None /\ entries'[h].id # entries[h].id
       => Crash]_vars

\* A repair leaves an entry bound to its physical appliance.
RepairKeepsAppliance ==
  [][\A h \in Hubs : Live(h) /\ entries'[h] # None /\ entries'[h].id = entries[h].id
       => entries'[h].appliance = entries[h].appliance]_vars

\* async_remove: "Cancel private work when Home Assistant removes an
\* unfinished flow": no registration runs for a flow that was removed.
RemovedFlowIsQuiet == stray = {}

\* Every progress screen gives way to a form, a menu or the end of the flow.
NeverStuck ==
  \A f \in Flows : flow[f].step \in Working \cup Suspended \cup {"complete"}
                   ~> flow[f].step \in Menus \cup {"gone", "broken"}

=============================================================================
