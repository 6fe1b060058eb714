---------------------------- MODULE ConfigFlowProofs ----------------------------
(***************************************************************************)
(* Proofs about ConfigFlow for any number of flows, hubs and companions.   *)
(* Everything rests on who owns a companion: the flow that generated it,   *)
(* until it becomes that of an entry, until a repair replaces it; never    *)
(* two of them, although steps of closed flows run on.                     *)
(***************************************************************************)
EXTENDS ConfigFlow, TLAPS

Results == [appliance : Appliances, companion : Companions]
Evidence == {"none", "saber", "name_only", "silabs", "needs_gatt", "unqualified"}
FlowRecord ==
  [step : Steps, source : {"user"} \cup Repairs, uid : OrNone(Hubs), alive : BOOLEAN,
   address : OrNone(Hubs), identity : OrNone(Companions), config : OrNone(Companions),
   evidence : Evidence,
   entry : OrNone(Companions), old : OrNone(Companions), data : OrNone(Entry),
   result : OrNone(Results)]

Associating == {"cloud", "complete", "saving"}
CloudMenus == {"cloud_not_linked", "cloud_unavailable"}
\* The steps a flow enters with something in hand.
Exacting == Associating \cup CloudMenus
              \cup {"qualifying", "preparing", "pairing", "pairing_failed", "retiring"}

\* e is evidence there can be of the hub a.
Fits(e, a) ==
  /\ e = "saber" => a \in Hubs \ Silabs
  /\ e = "name_only" => a \in Hubs
  /\ e \in {"silabs", "needs_gatt"} => a \in Silabs

\* The companion is registered (reg: those that are) and the protocol known;
\* the hub has answered in it.
Presents(r, reg) == r.identity # None /\ r.identity \in reg /\ Qualified(r.evidence)
Linked(r, reg) == /\ Presents(r, reg) /\ Understood(r)
                  /\ r.result \in Results /\ r.result.companion = r.identity

\* What one flow holds at each of its steps.
FlowOK(r, reg) ==
  /\ Fits(r.evidence, r.address)
  /\ r.config = r.identity
  /\ r.step = "qualifying" => r.evidence = "needs_gatt"
  /\ r.step = "preparing" => r.identity # None
  /\ r.step = "pairing" => Presents(r, reg)
  /\ r.step = "pairing_failed" /\ r.identity # None => r.identity \in reg
  /\ r.step \in Associating => Linked(r, reg)
  /\ r.step \in CloudMenus /\ r.result # None => Linked(r, reg)
  /\ r.step \in {"complete", "saving"} =>
       /\ r.data \in Entry /\ r.data.ref = None /\ r.data.password = r.identity
       /\ r.data.id = r.identity /\ r.data.companion = r.identity
  /\ r.step = "saving" => r.address \in Silabs
  /\ r.step = "retiring" => r.old # None
  /\ r.address # None => r.uid = r.address
  /\ r.source \in Repairs => r.uid \in Hubs /\ r.entry # None
  /\ r.source \notin Repairs => r.entry = None

\* The entries t, in memory or on disk, are whole, each of its own companion.
Whole(t, reg) ==
  \A h \in Hubs : t[h] # None =>
    /\ t[h].password = t[h].companion /\ t[h].companion \in reg
    /\ t[h].ref = IF h \in Silabs THEN t[h].companion ELSE None
    /\ \A k \in Hubs \ {h} : t[k] # None => t[k].companion # t[h].companion

\* No flow will create an entry under a name that t, or a repair, has in use.
Named(t) ==
  \A h \in Hubs : t[h] # None =>
    t[h].id \in made /\ \A f \in Flows : flow[f].identity # t[h].id

Owned ==
  /\ \A f \in Flows : flow[f].identity # None =>
       /\ flow[f].identity \in made
       /\ \A g \in Flows \ {f} : flow[g].identity # flow[f].identity
       /\ \A h \in Hubs : Live(h) /\ entries[h].companion = flow[f].identity
                          => flow[f].step = "retiring"
  /\ \A f \in Flows : flow[f].step = "retiring" =>
       /\ flow[f].old \in made
       /\ \A h \in Hubs : Live(h) => entries[h].companion # flow[f].old
       /\ \A g \in Flows : flow[g].identity = flow[f].old => flow[g].step = "retiring"
  /\ \A f \in Flows : flow[f].entry # None =>
       flow[f].entry \in made /\ \A g \in Flows : flow[g].identity # flow[f].entry

Alone ==
  /\ \A f \in Flows, g \in Flows : f # g /\ Open(f) /\ Open(g) /\ flow[f].uid # None
       => flow[f].uid # flow[g].uid
  /\ \A f \in Flows : Open(f) /\ ~Repairing(f) /\ flow[f].address # None
       => entries[flow[f].address] = None

Bound ==
  /\ \A f \in Flows : /\ flow[f].step = "saving" /\ Repairing(f)
                      /\ Exists(flow[f].entry, flow[f].address)
       => entries[flow[f].address].appliance = flow[f].data.appliance
  /\ \A h \in Hubs : entries[h] # None /\ disk[h] # None /\ entries[h].id = disk[h].id
       => entries[h].appliance = disk[h].appliance

FlowsOK == \A f \in Flows : FlowOK(flow[f], registered)

Inv == /\ TypeOK /\ FlowsOK
       /\ Whole(entries, registered) /\ Whole(disk, registered) /\ Named(entries) /\ Named(disk)
       /\ Owned /\ Alone /\ Bound /\ RefStored

-----------------------------------------------------------------------------
(* One flow moves, the entries stay.                                       *)

LEMMA FlowOKGrows ==
  ASSUME NEW r, NEW reg, NEW more, reg \subseteq more, FlowOK(r, reg)
  PROVE  FlowOK(r, more)
BY DEF FlowOK, Presents, Linked

LEMMA WholeGrows ==
  ASSUME NEW t, NEW reg, NEW more, reg \subseteq more, Whole(t, reg)
  PROVE  Whole(t, more)
BY DEF Whole

LEMMA BlankFacts ==
  /\ Blank \in FlowRecord /\ \A reg : FlowOK(Blank, reg)
  /\ Blank.step = "gone" /\ Blank.identity = None /\ Blank.entry = None
  /\ Blank.uid = None /\ Blank.address = None
<1>1. Blank \in FlowRecord
  BY DEF Blank, FlowRecord, Steps, OrNone, Evidence
<1>2. \A reg : FlowOK(Blank, reg)
  BY DEF Blank, FlowOK, Fits, Associating, CloudMenus, Repairs
<1> QED
  BY <1>1, <1>2 DEF Blank

\* r may be the next record of f.
May(f, r) ==
  /\ r \in FlowRecord /\ FlowOK(r, registered')
  /\ r.step = "retiring" => flow[f].step = "retiring" /\ r.old = flow[f].old
  /\ \/ r.uid = None \/ ~r.alive \/ r.step = "gone"
     \/ r.uid = flow[f].uid /\ Open(f)
     \/ ~Taken(f, r.uid)
  /\ \/ r.identity = None
     \/ r.identity = flow[f].identity /\ (flow[f].step = "retiring" <=> r.step = "retiring")
     \/ r.identity \in made' \ made
  /\ \/ r.entry = None
     \/ r.entry = flow[f].entry
     \/ \E h \in Hubs : entries[h] # None /\ r.entry = entries[h].id
  /\ r.step # "gone" /\ r.alive /\ r.source \notin Repairs /\ r.address # None
       => entries[r.address] = None
  /\ r.step = "saving" /\ r.source \in Repairs /\ Exists(r.entry, r.address)
       => entries[r.address].appliance = r.data.appliance

\* Records are added, if anything.
StoreKept == store' = store \/ (store \subseteq store' /\ store' \subseteq Companions)

LEMMA MoveKeeps ==
  ASSUME Inv, NEW f \in Flows, NEW r, May(f, r), Becomes(f, r),
         UNCHANGED <<entries, disk, lost>>, StoreKept,
         registered \subseteq registered', made \subseteq made', made' \subseteq Companions,
         registered' \subseteq made', stray' \subseteq made'
  PROVE  Inv'
<1>1. /\ flow' \in [Flows -> FlowRecord] /\ flow'[f] = r
      /\ \A g \in Flows \ {f} : flow'[g] = flow[g]
  <2>1. flow \in [Flows -> FlowRecord] /\ r \in FlowRecord
    BY DEF Inv, TypeOK, FlowRecord, Results, Evidence, May
  <2>2. flow' = [flow EXCEPT ![f] = r]
    BY DEF Becomes
  <2> QED
    BY <2>1, <2>2
<1>2. TypeOK'
  BY <1>1 DEF Inv, TypeOK, FlowRecord, Results, Evidence, StoreKept
<1>3. FlowsOK'
  BY <1>1, FlowOKGrows DEF Inv, FlowsOK, May
<1>4. Whole(entries', registered') /\ Whole(disk', registered')
  BY WholeGrows DEF Inv
<1>5. None \notin made'
  BY ConfigFlowAssumption
<1>6. \A g \in Flows : flow[g].identity # None => flow[g].identity \in made
  BY DEF Inv, Owned
<1>7. ASSUME NEW g \in Flows
      PROVE  \/ flow'[g].identity = None
             \/ flow'[g].identity = flow[g].identity /\ (flow[g].step = "retiring"
                                                       <=> flow'[g].step = "retiring")
             \/ flow'[g].identity \in made' \ made /\ g = f
  BY <1>1 DEF May
<1>8. Named(entries)' /\ Named(disk)'
  <2>1. ASSUME NEW t, Named(t), NEW h \in Hubs, t[h] # None
        PROVE  t[h].id \in made' /\ \A g \in Flows : flow'[g].identity # t[h].id
    BY <1>5, <1>7, <2>1 DEF Named
  <2> QED
    BY <2>1 DEF Inv, Named
<1>9. Owned'
  <2>1. ASSUME NEW g \in Flows, flow'[g].identity # None
        PROVE  /\ flow'[g].identity \in made'
               /\ \A k \in Flows \ {g} : flow'[k].identity # flow'[g].identity
               /\ \A h \in Hubs : entries[h] # None /\ entries[h].companion = flow'[g].identity
                                  => flow'[g].step = "retiring"
    <3>1. flow'[g].identity \in made'
      BY <1>6, <1>7, <2>1
    <3>2. ASSUME NEW k \in Flows \ {g} PROVE flow'[k].identity # flow'[g].identity
      <4>1. flow[g].identity # None => flow[k].identity # flow[g].identity
        BY <3>2 DEF Inv, Owned
      <4> QED
        BY <1>5, <1>6, <1>7, <2>1, <4>1
    <3>3. ASSUME NEW h \in Hubs, entries[h] # None, entries[h].companion = flow'[g].identity
          PROVE  flow'[g].step = "retiring"
      <4>1. entries[h].companion \in made
        BY <3>3 DEF Inv, TypeOK, Whole
      <4>2. flow'[g].identity = flow[g].identity
        BY <1>7, <2>1, <3>3, <4>1
      <4> QED
        BY <1>7, <2>1, <3>3, <4>1, <4>2 DEF Inv, Owned, Live
    <3> QED
      BY <3>1, <3>2, <3>3
  <2>2. ASSUME NEW g \in Flows, flow'[g].step = "retiring"
        PROVE  /\ flow'[g].old \in made'
               /\ \A h \in Hubs : entries[h] # None => entries[h].companion # flow'[g].old
               /\ \A k \in Flows : flow'[k].identity = flow'[g].old => flow'[k].step = "retiring"
    <3>1. flow[g].step = "retiring" /\ flow'[g].old = flow[g].old
      BY <1>1, <2>2 DEF May
    <3>2. /\ flow[g].old \in made
          /\ \A h \in Hubs : entries[h] # None => entries[h].companion # flow[g].old
          /\ \A k \in Flows : flow[k].identity = flow[g].old => flow[k].step = "retiring"
      BY <2>2, <3>1 DEF Inv, Owned, Live
    <3> QED
      BY <1>5, <1>7, <3>1, <3>2
  <2>3. ASSUME NEW g \in Flows, flow'[g].entry # None
        PROVE  flow'[g].entry \in made' /\ \A k \in Flows : flow'[k].identity # flow'[g].entry
    <3>1. /\ flow'[g].entry \in made
          /\ \A k \in Flows : flow[k].identity # flow'[g].entry
      <4>1. CASE \E h \in Hubs : entries[h] # None /\ flow'[g].entry = entries[h].id
        BY <4>1 DEF Inv, Named
      <4>2. CASE flow'[g].entry = flow[g].entry
        BY <2>3, <4>2 DEF Inv, Owned
      <4> QED
        BY <1>1, <2>3, <4>1, <4>2 DEF May
    <3> QED
      BY <1>5, <1>7, <3>1
  <2> QED
    BY <2>1, <2>2, <2>3 DEF Owned, Live
<1>10. Alone'
  <2>1. ASSUME NEW g \in Flows, NEW k \in Flows, g # k, flow'[g].step # "gone", flow'[g].alive,
               flow'[k].step # "gone", flow'[k].alive, flow'[g].uid # None
        PROVE  flow'[g].uid # flow'[k].uid
    <3>1. CASE g # f /\ k # f
      BY <1>1, <2>1, <3>1 DEF Inv, Alone, Open
    <3>2. ASSUME NEW j \in Flows, j # f, flow[j].step # "gone", flow[j].alive,
                 r.step # "gone", r.alive, r.uid # None
          PROVE  flow[j].uid # r.uid
      BY <3>2 DEF May, Taken, Open, Inv, Alone
    <3>3. CASE g = f
      BY <1>1, <2>1, <3>2, <3>3
    <3>4. CASE k = f
      <4>1. flow[g].step # "gone" /\ flow[g].alive /\ r.step # "gone" /\ r.alive /\ flow'[g] = flow[g]
        BY <1>1, <2>1, <3>4
      <4>2. CASE r.uid = None
        BY <1>1, <2>1, <3>4, <4>1, <4>2
      <4>3. CASE r.uid # None
        BY <1>1, <2>1, <3>2, <3>4, <4>1, <4>3
      <4> QED
        BY <4>2, <4>3
    <3> QED
      BY <3>1, <3>3, <3>4
  <2>2. ASSUME NEW g \in Flows, flow'[g].step # "gone", flow'[g].alive,
               flow'[g].source \notin Repairs, flow'[g].address # None
        PROVE  entries[flow'[g].address] = None
    BY <1>1, <2>2 DEF May, Inv, Alone, Open, Repairing
  <2> QED
    BY <2>1, <2>2 DEF Alone, Open, Repairing
<1>11. Bound'
  <2>1. ASSUME NEW g \in Flows, flow'[g].step = "saving", flow'[g].source \in Repairs,
               Exists(flow'[g].entry, flow'[g].address)
        PROVE  entries[flow'[g].address].appliance = flow'[g].data.appliance
    BY <1>1, <2>1 DEF May, Inv, Bound, Repairing
  <2> QED
    BY <2>1 DEF Bound, Repairing, Exists, Inv
<1>12. RefStored'
  BY DEF Inv, RefStored, Live, StoreKept
<1> QED
  BY <1>2, <1>3, <1>4, <1>8, <1>9, <1>10, <1>11, <1>12 DEF Inv

\* What is known of the record of one flow.
LEMMA RecordFacts ==
  ASSUME Inv, NEW f \in Flows
  PROVE  /\ flow[f] \in FlowRecord /\ FlowOK(flow[f], registered)
         /\ flow[f].identity # None => flow[f].identity \in made
         /\ Open(f) /\ flow[f].source \notin Repairs /\ flow[f].address # None
              => entries[flow[f].address] = None
         /\ registered \subseteq made /\ stray \subseteq made /\ made \subseteq Companions
BY DEF Inv, TypeOK, FlowRecord, Results, Evidence, FlowsOK, Owned, Alone, Repairing

LEMMA EndKeeps ==
  ASSUME Inv, NEW f \in Flows, Becomes(f, Blank),
         StoreKept, registered \subseteq registered', registered' \subseteq made,
         UNCHANGED <<entries, disk, made, stray, lost>>
  PROVE  Inv'
<1>1. May(f, Blank)
  BY BlankFacts DEF May
<1> QED
  BY <1>1, RecordFacts, MoveKeeps DEF StoreKept

LEMMA BlankKeeps ==
  ASSUME Inv, NEW f \in Flows, Becomes(f, Blank),
         StoreKept,
         UNCHANGED <<entries, disk, made, registered, stray, lost>>
  PROVE  Inv'
BY RecordFacts, EndKeeps

\* A flow goes on to a step that asks for no more than it has.
Modest == Menus \cup Forms \cup {"preparing", "pairing", "cloud", "broken", "qualifying"}

LEMMA GotoKeeps ==
  ASSUME Inv, NEW f \in Flows, NEW step \in Modest, Open(f), flow[f].step # "retiring",
         FlowOK([flow[f] EXCEPT !.step = step], registered'), Goto(f, step),
         StoreKept,
         UNCHANGED <<entries, disk, made, lost, stray>>,
         registered \subseteq registered', registered' \subseteq made
  PROVE  Inv'
<1> DEFINE r == [flow[f] EXCEPT !.step = step]
<1>1. /\ flow[f] \in FlowRecord /\ stray \subseteq made /\ made \subseteq Companions
      /\ flow[f].source \notin Repairs /\ flow[f].address # None
              => entries[flow[f].address] = None
  BY RecordFacts
<1>2. step \in Steps /\ step # "retiring" /\ step # "saving"
  BY DEF Modest, Menus, Forms, Steps, Working, Suspended
<1>3. /\ r \in FlowRecord /\ r.step = step /\ r.uid = flow[f].uid /\ r.identity = flow[f].identity
      /\ r.entry = flow[f].entry /\ r.source = flow[f].source /\ r.address = flow[f].address
  BY <1>1, <1>2 DEF FlowRecord
<1>4. FlowOK(r, registered') /\ Becomes(f, r)
  BY DEF Goto
<1> HIDE DEF r
<1>5. May(f, r)
  BY <1>1, <1>2, <1>3, <1>4 DEF May
<1> QED
  BY <1>1, <1>4, <1>5, MoveKeeps DEF StoreKept

LEMMA AdvertisedFits ==
  ASSUME NEW h \in Hubs, NEW e \in Advertised(h) \cup {Persisted(h)}
  PROVE  e \in Evidence /\ Fits(e, h)
BY DEF Advertised, Persisted, Evidence, Fits

LEMMA BeginKeeps ==
  ASSUME Inv, NEW f \in Flows, BeginUser(f) \/ \E h \in Hubs : Discovered(f, h)
  PROVE  Inv'
<1>1. CASE BeginUser(f)
  <2> DEFINE r == [Blank EXCEPT !.step = "user", !.alive = TRUE]
  <2>1. /\ r \in FlowRecord /\ r.step = "user" /\ r.uid = None /\ r.identity = None
        /\ r.entry = None /\ r.address = None
    BY DEF Blank, FlowRecord, Steps, Forms, OrNone, Evidence
  <2>2. FlowOK(r, registered')
    BY DEF Blank, FlowOK, Fits, Associating, CloudMenus, Repairs
  <2>3. Becomes(f, r) /\ UNCHANGED <<entries, disk, store, made, registered, stray, lost>>
    BY <1>1 DEF BeginUser
  <2> HIDE DEF r
  <2>4. May(f, r)
    BY <2>1, <2>2 DEF May
  <2> QED
    BY <2>3, <2>4, RecordFacts, MoveKeeps DEF StoreKept
<1>2. ASSUME NEW h \in Hubs, Discovered(f, h) PROVE Inv'
  <2>1. PICK evidence \in Advertised(h) :
          Becomes(f, [Blank EXCEPT !.step = "confirm", !.alive = TRUE, !.uid = h,
                                   !.address = h, !.evidence = evidence])
    BY <1>2 DEF Discovered
  <2> DEFINE r == [Blank EXCEPT !.step = "confirm", !.alive = TRUE, !.uid = h,
                                !.address = h, !.evidence = evidence]
  <2>2. evidence \in Evidence /\ Fits(evidence, h)
    BY AdvertisedFits
  <2>3. /\ r \in FlowRecord /\ r.step = "confirm" /\ r.uid = h /\ r.identity = None
        /\ r.entry = None /\ r.address = h /\ r.source = "user"
    BY <2>2 DEF Blank, FlowRecord, Steps, Forms, OrNone
  <2>4. FlowOK(r, registered')
    BY <2>2 DEF Blank, FlowOK, Associating, CloudMenus, Repairs
  <2>5. /\ Becomes(f, r) /\ UNCHANGED <<entries, disk, store, made, registered, stray, lost>>
        /\ ~Taken(f, h) /\ entries[h] = None
    BY <1>2, <2>1 DEF Discovered
  <2> HIDE DEF r
  <2>6. May(f, r)
    BY <2>3, <2>4, <2>5 DEF May
  <2> QED
    BY <2>5, <2>6, RecordFacts, MoveKeeps DEF StoreKept
<1> QED
  BY <1>1, <1>2

LEMMA UserStepKeeps ==
  ASSUME Inv, NEW f \in Flows, UserStep(f)
  PROVE  Inv'
<1>0. /\ Open(f) /\ flow[f].step = "user"
      /\ UNCHANGED <<entries, disk, store, made, registered, stray, lost>>
  BY DEF UserStep
<1>1. flow[f] \in FlowRecord /\ FlowOK(flow[f], registered)
  BY RecordFacts
<1>2. ASSUME NEW h \in Hubs, NEW evidence \in Advertised(h), ~Taken(f, h), entries[h] = None,
             Becomes(f, [flow[f] EXCEPT !.step = "confirm", !.uid = h,
                                        !.address = h, !.evidence = evidence])
      PROVE  Inv'
  <2> DEFINE r == [flow[f] EXCEPT !.step = "confirm", !.uid = h,
                                  !.address = h, !.evidence = evidence]
  <2>1. evidence \in Evidence /\ Fits(evidence, h)
    BY AdvertisedFits
  <2>2. /\ r.step = "confirm" /\ r.uid = h /\ r.identity = flow[f].identity
        /\ r.entry = flow[f].entry /\ r.address = h
    BY <1>1 DEF FlowRecord
  <2>3. r.evidence = evidence /\ r.source = flow[f].source /\ r.config = flow[f].config
    BY <1>1 DEF FlowRecord
  <2>4. r \in FlowRecord
    <3>1. "confirm" \in Steps /\ h \in OrNone(Hubs)
      BY DEF Steps, Forms, OrNone
    <3> QED
      BY <1>1, <2>1, <3>1 DEF FlowRecord
  <2> HIDE DEF r
  <2>5. FlowOK(r, registered')
    <3>1. r.step \notin Exacting
      BY <2>2 DEF Exacting, Associating, CloudMenus
    <3>2. Fits(r.evidence, r.address)
      BY <2>1, <2>2, <2>3
    <3>3. r.config = r.identity /\ r.uid = r.address /\ r.address # None
      BY <1>1, <2>2, <2>3, ConfigFlowAssumption DEF FlowOK
    <3>4. /\ r.source \in Repairs => r.uid \in Hubs /\ r.entry # None
          /\ r.source \notin Repairs => r.entry = None
      BY <1>1, <2>2, <2>3, ConfigFlowAssumption DEF FlowOK
    <3> QED
      BY <3>1, <3>2, <3>3, <3>4 DEF FlowOK, Exacting, Associating, CloudMenus
  <2>6. May(f, r)
    BY <1>0, <1>2, <2>2, <2>5, <2>4 DEF May
  <2> QED
    BY <1>0, <1>2, <2>6, RecordFacts, MoveKeeps DEF r, StoreKept
<1>3. CASE Becomes(f, Blank)
  BY <1>0, <1>3, BlankKeeps DEF StoreKept
<1>4. CASE Goto(f, "no_devices")
  <2>1. FlowOK([flow[f] EXCEPT !.step = "no_devices"], registered')
    BY <1>0, <1>1 DEF FlowRecord, FlowOK, Associating, CloudMenus
  <2> QED
    BY <1>0, <1>4, <2>1, RecordFacts, GotoKeeps DEF Modest, Menus, StoreKept
<1> QED
  BY <1>2, <1>3, <1>4 DEF UserStep

LEMMA RepairedKeeps ==
  ASSUME Inv, NEW f \in Flows, NEW h \in Hubs, entries[h] # None,
         NEW source \in Repairs, NEW r,
         r = [Blank EXCEPT !.source = source, !.alive = TRUE, !.uid = r.uid, !.entry = r.entry],
         Repaired(f, h, r), UNCHANGED <<entries, disk, store, made, registered, stray, lost>>
  PROVE  Inv'
<1>1. CASE Becomes(f, Blank)
  BY <1>1, BlankKeeps DEF StoreKept
<1>2. ASSUME NEW evidence \in Advertised(h) \cup {Persisted(h)}, ~Taken(f, h),
             Becomes(f, [r EXCEPT !.step = "confirm", !.uid = h, !.address = h,
                                  !.entry = entries[h].id, !.evidence = evidence])
      PROVE  Inv'
  <2> DEFINE q == [r EXCEPT !.step = "confirm", !.uid = h, !.address = h,
                            !.entry = entries[h].id, !.evidence = evidence]
  <2>1. evidence \in Evidence /\ Fits(evidence, h)
    BY AdvertisedFits
  <2>2. entries[h].id \in Companions /\ None \notin Hubs \cup Companions
    BY ConfigFlowAssumption DEF Inv, TypeOK, Entry, OrNone
  <2>3. /\ q \in FlowRecord /\ q.step = "confirm" /\ q.uid = h /\ q.identity = None
        /\ q.entry = entries[h].id /\ q.address = h /\ q.source = source
    BY <2>1, <2>2 DEF Blank, FlowRecord, Steps, Forms, OrNone
  <2>4. FlowOK(q, registered')
    BY <2>1, <2>2 DEF Blank, FlowOK, Associating, CloudMenus
  <2> HIDE DEF q
  <2>5. May(f, q)
    BY <1>2, <2>3, <2>4 DEF May
  <2> QED
    BY <1>2, <2>5, RecordFacts, MoveKeeps DEF q, StoreKept
<1> QED
  BY <1>1, <1>2 DEF Repaired

LEMMA RestartKeeps ==
  ASSUME Inv, NEW f \in Flows, StartOver(f) \/ \E h \in Hubs : BeginRepair(f, h)
  PROVE  Inv'
<1>1. ASSUME NEW h \in Hubs, BeginRepair(f, h) PROVE Inv'
  <2>1. PICK source \in Repairs : Repaired(f, h, [Blank EXCEPT !.source = source, !.alive = TRUE])
    BY <1>1 DEF BeginRepair
  <2> DEFINE r == [Blank EXCEPT !.source = source, !.alive = TRUE]
  <2>2. r = [Blank EXCEPT !.source = source, !.alive = TRUE, !.uid = r.uid, !.entry = r.entry]
    BY DEF Blank
  <2> HIDE DEF r
  <2> QED
    BY <1>1, <2>1, <2>2, RepairedKeeps DEF BeginRepair, r
<1>2. CASE StartOver(f)
  <2>0. /\ Open(f) /\ flow[f].step \in Menus
        /\ UNCHANGED <<entries, disk, store, made, registered, stray, lost>>
    BY <1>2 DEF StartOver
  <2>1. flow[f] \in FlowRecord /\ FlowOK(flow[f], registered)
    BY RecordFacts
  <2>2. CASE Repairing(f) /\ Exists(flow[f].entry, flow[f].uid)
    <3> DEFINE r == ResetSetup(flow[f])
    <3>1. Repaired(f, flow[f].uid, r)
      BY <1>2, <2>2 DEF StartOver
    <3>2. flow[f].uid \in Hubs /\ flow[f].source \in Repairs /\ flow[f].alive = TRUE
      BY <2>0, <2>1, <2>2 DEF FlowRecord, FlowOK, Repairing, Open
    <3>3. r = [Blank EXCEPT !.source = flow[f].source, !.alive = TRUE, !.uid = r.uid,
                            !.entry = r.entry]
      BY <3>2 DEF ResetSetup, Blank
    <3> HIDE DEF r
    <3> QED
      BY <2>0, <2>2, <3>1, <3>2, <3>3, RepairedKeeps DEF Exists
  <2>3. CASE ~Repairing(f) /\ Goto(f, "user")
    <3>1. FlowOK([flow[f] EXCEPT !.step = "user"], registered')
      BY <2>0, <2>1 DEF FlowRecord, FlowOK, Associating, CloudMenus
    <3>2. flow[f].step # "retiring"
      BY <2>0 DEF Menus
    <3> QED
      BY <2>0, <2>3, <3>1, <3>2, RecordFacts, GotoKeeps DEF Modest, Forms, StoreKept
  <2>4. ASSUME NEW step \in Menus \cup {"user"},
               Becomes(f, [ResetSetup(flow[f]) EXCEPT !.step = step])
        PROVE  Inv'
    <3> DEFINE r == [ResetSetup(flow[f]) EXCEPT !.step = step]
    <3>1. /\ r.step = step /\ r.uid = flow[f].uid /\ r.identity = None /\ r.config = None
          /\ r.entry = flow[f].entry /\ r.address = None /\ r.evidence = "none"
          /\ r.source = flow[f].source /\ r.result = None
      BY DEF ResetSetup, Blank
    <3>2. r \in FlowRecord
      <4>1. step \in Steps
        BY DEF Steps, Forms
      <4> QED
        BY <2>1, <4>1 DEF ResetSetup, Blank, FlowRecord, OrNone, Evidence
    <3>3. Becomes(f, r)
      BY <2>4
    <3> HIDE DEF r
    <3>4. step \notin Associating \cup {"qualifying", "preparing", "pairing", "retiring"}
      BY DEF Menus, Associating
    <3>5. FlowOK(r, registered')
      BY <2>1, <3>1, <3>4 DEF FlowOK, Fits, Associating
    <3>6. May(f, r)
      BY <2>0, <3>1, <3>2, <3>4, <3>5 DEF May, Associating
    <3> QED
      BY <2>0, <3>3, <3>6, RecordFacts, MoveKeeps DEF StoreKept
  <2> QED
    BY <1>2, <2>0, <2>2, <2>3, <2>4 DEF StartOver
<1> QED
  BY <1>1, <1>2

\* The flow gets its identity, or keeps the one it has.
LEMMA PrepareKeeps ==
  ASSUME Inv, NEW f \in Flows, NEW e \in Evidence,
         flow[f].step \in {"confirm", "qualifying", "cloud_preparation_failed"},
         Fits(e, flow[f].address),
         Prepare(f, [flow[f] EXCEPT !.evidence = e]),
         UNCHANGED <<entries, disk, store, registered, lost>>
  PROVE  Inv'
<1> DEFINE r == [flow[f] EXCEPT !.evidence = e]
<1>1. /\ flow[f] \in FlowRecord /\ FlowOK(flow[f], registered)
      /\ registered \subseteq made /\ stray \subseteq made /\ made \subseteq Companions
      /\ None \notin Companions
      /\ flow[f].alive /\ flow[f].source \notin Repairs /\ flow[f].address # None
              => entries[flow[f].address] = None
  BY RecordFacts, ConfigFlowAssumption DEF Open
<1>2. /\ r.evidence = e /\ r.alive = flow[f].alive /\ r.uid = flow[f].uid
      /\ r.identity = flow[f].identity /\ r.config = flow[f].config
  BY <1>1 DEF FlowRecord
<1>3. r.entry = flow[f].entry /\ r.source = flow[f].source /\ r.address = flow[f].address
  BY <1>1 DEF FlowRecord
<1>4. r \in FlowRecord
  BY <1>1 DEF FlowRecord
<1>5. Prepare(f, r)
  OBVIOUS
<1> HIDE DEF r
<1>6. ASSUME NEW q, q.step = "preparing", q.evidence = r.evidence, q.identity # None,
             q.config = q.identity, q.uid = r.uid, q.entry = r.entry, q.source = r.source,
             q.address = r.address
      PROVE  FlowOK(q, registered)
  <2>1. q.step \notin Exacting \ {"preparing"}
    BY <1>6 DEF Exacting, Associating, CloudMenus
  <2>2. Fits(q.evidence, q.address)
    BY <1>2, <1>3, <1>6
  <2>3. /\ q.address # None => q.uid = q.address
        /\ q.source \in Repairs => q.uid \in Hubs /\ q.entry # None
        /\ q.source \notin Repairs => q.entry = None
    BY <1>1, <1>2, <1>3, <1>6 DEF FlowOK
  <2> QED
    BY <1>6, <2>1, <2>2, <2>3 DEF FlowOK, Exacting, Associating, CloudMenus
<1>7. ASSUME NEW q \in FlowRecord, FlowOK(q, registered), q.step = "preparing",
             q.alive = r.alive, q.uid = r.uid, q.entry = r.entry, q.source = r.source,
             q.address = r.address, q.identity = flow[f].identity \/ q.identity \in made' \ made
      PROVE  May(f, q)
  BY <1>1, <1>2, <1>3, <1>7 DEF May, Open
<1>8. CASE r.identity # None
  <2> DEFINE q == [r EXCEPT !.step = "preparing"]
  <2>1. Becomes(f, q) /\ UNCHANGED <<made, stray>>
    BY <1>5, <1>8 DEF Prepare
  <2>2. /\ q.step = "preparing" /\ q.alive = r.alive /\ q.uid = r.uid /\ q.evidence = r.evidence
        /\ q.entry = r.entry /\ q.source = r.source /\ q.address = r.address
    BY <1>4 DEF FlowRecord
  <2>3. q.identity = r.identity /\ q.config = r.config
    BY <1>4 DEF FlowRecord
  <2>4. q \in FlowRecord
    BY <1>4 DEF FlowRecord, Steps, Working
  <2>5. q.config = q.identity
    BY <1>1, <1>2, <2>3 DEF FlowOK
  <2> HIDE DEF q
  <2>6. FlowOK(q, registered)
    BY <1>6, <1>8, <2>2, <2>3, <2>5
  <2>7. May(f, q)
    BY <1>2, <1>7, <2>2, <2>3, <2>4, <2>6
  <2> QED
    BY <1>1, <2>1, <2>7, MoveKeeps DEF StoreKept
<1>9. CASE r.identity = None
  <2>1. PICK c \in Companions \ made :
          LET ready == [r EXCEPT !.step = "preparing", !.identity = c,
                                 !.config = IF @ = None THEN c ELSE @]
          IN  /\ made' = made \cup {c}
              /\ Becomes(f, IF r.alive THEN ready ELSE Blank)
              /\ stray' = IF r.alive THEN stray ELSE stray \cup {c}
    BY <1>5, <1>9 DEF Prepare
  <2> DEFINE q == [r EXCEPT !.step = "preparing", !.identity = c,
                            !.config = IF @ = None THEN c ELSE @]
  <2>2. r.config = None
    BY <1>1, <1>2, <1>9 DEF FlowOK
  <2>3. /\ q.step = "preparing" /\ q.alive = r.alive /\ q.uid = r.uid
        /\ q.entry = r.entry /\ q.source = r.source /\ q.address = r.address
        /\ q.identity = c
    BY <1>4 DEF FlowRecord
  <2>4. q.config = c /\ q.evidence = r.evidence
    BY <1>4, <2>2 DEF FlowRecord
  <2>5. q \in FlowRecord
    <3>1. "preparing" \in Steps /\ c \in OrNone(Companions)
      BY DEF Steps, Working, OrNone
    <3> QED
      BY <1>4, <2>2, <3>1 DEF FlowRecord
  <2>6. Becomes(f, IF r.alive THEN q ELSE Blank)
    BY <2>1
  <2>7. made' = made \cup {c} /\ stray' \subseteq made'
    BY <1>1, <2>1
  <2> HIDE DEF q
  <2>8. FlowOK(q, registered)
    BY <1>1, <1>6, <2>3, <2>4
  <2>9. May(f, q)
    BY <1>7, <2>3, <2>5, <2>7, <2>8
  <2>10. May(f, Blank)
    BY BlankFacts DEF May
  <2> QED
    BY <1>1, <2>6, <2>7, <2>9, <2>10, MoveKeeps DEF StoreKept
<1> QED
  BY <1>8, <1>9

\* A step that presents no more than before can follow any other.
LEMMA BackOK ==
  ASSUME NEW r \in FlowRecord, NEW reg, NEW step \in Menus \cup Forms \cup {"broken"},
         FlowOK(r, reg),
         step = "pairing_failed" /\ r.identity # None => r.identity \in reg,
         step \in CloudMenus /\ r.result # None => Linked(r, reg)
  PROVE  FlowOK([r EXCEPT !.step = step], reg)
<1> DEFINE q == [r EXCEPT !.step = step]
<1>1. /\ q.step = step /\ q.evidence = r.evidence /\ q.address = r.address /\ q.config = r.config
      /\ q.identity = r.identity /\ q.result = r.result
  BY DEF FlowRecord
<1>2. /\ q.uid = r.uid /\ q.source = r.source /\ q.entry = r.entry
  BY DEF FlowRecord
<1>3. step \notin Associating \cup {"qualifying", "preparing", "pairing", "retiring"}
  BY DEF Menus, Forms, Associating
<1> HIDE DEF q
<1>4. step \in CloudMenus /\ q.result # None => Linked(q, reg)
  BY <1>1 DEF Linked, Presents, Understood
<1>5. FlowOK(q, reg)
  BY <1>1, <1>2, <1>3, <1>4 DEF FlowOK, Associating
<1> QED
  BY <1>5 DEF q

LEMMA ConfirmKeeps ==
  ASSUME Inv, NEW f \in Flows, Confirm(f)
  PROVE  Inv'
<1>0. /\ Open(f) /\ flow[f].step = "confirm"
      /\ UNCHANGED <<entries, disk, store, registered, lost>>
  BY DEF Confirm
<1>1. flow[f] \in FlowRecord /\ FlowOK(flow[f], registered)
  BY RecordFacts
<1>2. CASE flow[f].evidence = "needs_gatt" /\ Goto(f, "qualifying") /\ UNCHANGED <<made, stray>>
  <2>1. FlowOK([flow[f] EXCEPT !.step = "qualifying"], registered')
    BY <1>0, <1>1, <1>2 DEF FlowRecord, FlowOK, Associating, CloudMenus
  <2> QED
    BY <1>0, <1>2, <2>1, RecordFacts, GotoKeeps DEF Modest, StoreKept
<1>3. CASE Prepare(f, flow[f])
  <2>1. flow[f] = [flow[f] EXCEPT !.evidence = flow[f].evidence]
    BY <1>1 DEF FlowRecord
  <2>2. flow[f].evidence \in Evidence /\ Fits(flow[f].evidence, flow[f].address)
    BY <1>1 DEF FlowOK, FlowRecord
  <2>3. Prepare(f, [flow[f] EXCEPT !.evidence = flow[f].evidence])
    BY <1>3, <2>1
  <2> QED
    BY <1>0, <2>2, <2>3, PrepareKeeps
<1>4. CASE Goto(f, "protocol_qualification") /\ UNCHANGED <<made, stray>>
  <2>1. FlowOK([flow[f] EXCEPT !.step = "protocol_qualification"], registered')
    BY <1>0, <1>1, BackOK DEF Menus, CloudMenus
  <2> QED
    BY <1>0, <1>4, <2>1, RecordFacts, GotoKeeps DEF Modest, Menus, StoreKept
<1> QED
  BY <1>2, <1>3, <1>4 DEF Confirm

LEMMA GattReadKeeps ==
  ASSUME Inv, NEW f \in Flows, GattRead(f)
  PROVE  Inv'
<1>0. flow[f].step = "qualifying" /\ UNCHANGED <<entries, disk, store, registered, lost>>
  BY DEF GattRead
<1>1. /\ flow[f] \in FlowRecord /\ FlowOK(flow[f], registered)
      /\ Open(f) /\ flow[f].source \notin Repairs /\ flow[f].address # None
           => entries[flow[f].address] = None
  BY RecordFacts
<1>2. flow[f].address \in Silabs
  BY <1>0, <1>1 DEF FlowOK, Fits
<1>3. CASE Prepare(f, [flow[f] EXCEPT !.evidence = "silabs"])
  <2>1. "silabs" \in Evidence /\ Fits("silabs", flow[f].address)
    BY <1>2 DEF Evidence, Fits
  <2> QED
    BY <1>0, <1>3, <2>1, PrepareKeeps
<1>4. ASSUME NEW e \in {"unqualified", "needs_gatt"}, flow[f].alive, UNCHANGED <<made, stray>>,
             Becomes(f, [flow[f] EXCEPT !.step = "protocol_qualification", !.evidence = e])
      PROVE  Inv'
  <2> DEFINE r == [flow[f] EXCEPT !.step = "protocol_qualification", !.evidence = e]
  <2>1. /\ r.step = "protocol_qualification" /\ r.evidence = e /\ r.uid = flow[f].uid
        /\ r.identity = flow[f].identity /\ r.config = flow[f].config
    BY <1>1 DEF FlowRecord
  <2>2. r.entry = flow[f].entry /\ r.source = flow[f].source /\ r.address = flow[f].address
    BY <1>1 DEF FlowRecord
  <2>3. r \in FlowRecord
    BY <1>1 DEF FlowRecord, Steps, Menus, Evidence
  <2> HIDE DEF r
  <2>4. r.step \notin Exacting /\ Fits(r.evidence, r.address)
    BY <1>2, <2>1, <2>2 DEF Exacting, Associating, CloudMenus, Fits
  <2>5. FlowOK(r, registered')
    BY <1>1, <2>1, <2>2, <2>4 DEF FlowOK, Exacting, Associating, CloudMenus
  <2>6. May(f, r)
    BY <1>0, <1>1, <1>4, <2>1, <2>2, <2>3, <2>5 DEF May, Open
  <2> QED
    BY <1>0, <1>4, <2>6, RecordFacts, MoveKeeps DEF r, StoreKept
<1>5. CASE Becomes(f, Blank) /\ UNCHANGED <<made, stray>>
  BY <1>0, <1>5, BlankKeeps DEF StoreKept
<1> QED
  BY <1>3, <1>4, <1>5 DEF GattRead

\* Going on to a menu or a form.
LEMMA BackKeeps ==
  ASSUME Inv, NEW f \in Flows, NEW step \in Menus \cup Forms \cup {"broken"},
         Open(f), flow[f].step # "retiring", Goto(f, step),
         StoreKept,
         UNCHANGED <<entries, disk, made, lost, stray>>,
         registered \subseteq registered', registered' \subseteq made,
         step = "pairing_failed" /\ flow[f].identity # None => flow[f].identity \in registered',
         step \in CloudMenus /\ flow[f].result # None => Linked(flow[f], registered')
  PROVE  Inv'
<1>1. flow[f] \in FlowRecord /\ FlowOK(flow[f], registered')
  BY RecordFacts, FlowOKGrows
<1>2. FlowOK([flow[f] EXCEPT !.step = step], registered')
  BY <1>1, BackOK
<1> QED
  BY <1>2, GotoKeeps DEF Modest, StoreKept

\* The hub is contacted, with a companion that is registered, or not.
LEMMA StartPairingKeeps ==
  ASSUME Inv, NEW f \in Flows, Open(f), flow[f].step \in {"preparing", "pairing_failed"},
         StartPairing(f), flow[f].identity # None => flow[f].identity \in registered',
         UNCHANGED <<entries, disk, store, made, lost, stray>>,
         registered \subseteq registered', registered' \subseteq made
  PROVE  Inv'
<1>1. flow[f] \in FlowRecord /\ FlowOK(flow[f], registered)
  BY RecordFacts
<1>2. CASE flow[f].identity # None /\ Qualified(flow[f].evidence) /\ Goto(f, "pairing")
  <2> DEFINE r == [flow[f] EXCEPT !.step = "pairing"]
  <2>1. /\ r.step = "pairing" /\ r.evidence = flow[f].evidence /\ r.uid = flow[f].uid
        /\ r.identity = flow[f].identity /\ r.config = flow[f].config
    BY <1>1 DEF FlowRecord
  <2>2. r.entry = flow[f].entry /\ r.source = flow[f].source /\ r.address = flow[f].address
    BY <1>1 DEF FlowRecord
  <2> HIDE DEF r
  <2>3. Presents(r, registered')
    BY <1>2, <2>1 DEF Presents
  <2>4. FlowOK(r, registered')
    BY <1>1, <2>1, <2>2, <2>3 DEF FlowOK, Associating, CloudMenus
  <2> QED
    BY <1>2, <2>4, GotoKeeps DEF Modest, r, StoreKept
<1>3. CASE Goto(f, "pairing_failed")
  BY <1>3, BackKeeps DEF Menus, CloudMenus, StoreKept
<1> QED
  BY <1>2, <1>3 DEF StartPairing

LEMMA PreparedKeeps ==
  ASSUME Inv, NEW f \in Flows, Prepared(f)
  PROVE  Inv'
<1>0. /\ Open(f) /\ flow[f].step = "preparing"
      /\ UNCHANGED <<entries, disk, store, made, lost, stray>>
  BY DEF Prepared
<1>1. /\ flow[f] \in FlowRecord /\ FlowOK(flow[f], registered) /\ registered \subseteq made
      /\ flow[f].identity # None => flow[f].identity \in made
  BY RecordFacts
<1>2. flow[f].identity # None /\ flow[f].config = flow[f].identity
  BY <1>0, <1>1 DEF FlowOK
<1>3. registered \subseteq registered' /\ registered' \subseteq made
  BY <1>1, <1>2 DEF Prepared
<1>4. CASE registered' = registered \cup {flow[f].config} /\ StartPairing(f)
  BY <1>0, <1>2, <1>3, <1>4, StartPairingKeeps
<1>5. ASSUME NEW step \in {"cloud_preparation_failed", "setup_failed"}, Goto(f, step) PROVE Inv'
  <2>1. step # "pairing_failed" /\ step \notin CloudMenus /\ step \in Menus
    BY DEF CloudMenus, Menus
  <2> QED
    BY <1>0, <1>3, <1>5, <2>1, BackKeeps DEF StoreKept
<1> QED
  BY <1>4, <1>5 DEF Prepared

LEMMA PairedKeeps ==
  ASSUME Inv, NEW f \in Flows, Paired(f)
  PROVE  Inv'
<1>0. /\ Open(f) /\ flow[f].step = "pairing"
      /\ UNCHANGED <<entries, disk, store, made, registered, stray, lost>>
  BY DEF Paired
<1>1. /\ flow[f] \in FlowRecord /\ FlowOK(flow[f], registered) /\ registered \subseteq made
      /\ flow[f].source \notin Repairs /\ flow[f].address # None
           => entries[flow[f].address] = None
  BY <1>0, RecordFacts
<1>2. Presents(flow[f], registered)
  BY <1>0, <1>1 DEF FlowOK
<1>3. ASSUME NEW a \in Appliances, Understood(flow[f]),
             Becomes(f, [flow[f] EXCEPT !.step = "cloud",
                                        !.result = [appliance |-> a,
                                                    companion |-> flow[f].identity]])
      PROVE  Inv'
  <2> DEFINE got == [appliance |-> a, companion |-> flow[f].identity]
             r == [flow[f] EXCEPT !.step = "cloud", !.result = got]
  <2>1. got \in Results /\ got.companion = flow[f].identity
    BY <1>1, <1>2 DEF FlowRecord, OrNone, Results, Presents
  <2> HIDE DEF got
  <2>3. /\ r.step = "cloud" /\ r.evidence = flow[f].evidence /\ r.uid = flow[f].uid
        /\ r.identity = flow[f].identity /\ r.config = flow[f].config
    BY <1>1 DEF FlowRecord
  <2>4. /\ r.entry = flow[f].entry /\ r.source = flow[f].source /\ r.address = flow[f].address
        /\ r.result = got
    BY <1>1 DEF FlowRecord
  <2>5. r \in FlowRecord
    <3>1. "cloud" \in Steps /\ got \in OrNone(Results)
      BY <2>1 DEF Steps, Working, OrNone
    <3> QED
      BY <1>1, <3>1 DEF FlowRecord
  <2>6. Becomes(f, r)
    BY <1>3 DEF got
  <2> HIDE DEF r
  <2>9. Linked(r, registered)
    BY <1>2, <1>3, <2>1, <2>3, <2>4 DEF Linked, Presents, Understood
  <2>7. FlowOK(r, registered')
    BY <1>0, <1>1, <2>3, <2>4, <2>9 DEF FlowOK, Associating, CloudMenus
  <2>8. May(f, r)
    BY <1>0, <1>1, <2>3, <2>4, <2>5, <2>7 DEF May
  <2> QED
    BY <1>0, <2>6, <2>8, RecordFacts, MoveKeeps DEF StoreKept
<1>4. ASSUME NEW step \in {"pairing_failed", "setup_failed"}, Goto(f, step) PROVE Inv'
  <2>1. step \notin CloudMenus /\ step \in Menus
    BY DEF CloudMenus, Menus
  <2>2. flow[f].identity \in registered
    BY <1>2 DEF Presents
  <2> QED
    BY <1>0, <1>1, <1>4, <2>1, <2>2, BackKeeps DEF StoreKept
<1> QED
  BY <1>3, <1>4 DEF Paired

LEMMA CloudDoneKeeps ==
  ASSUME Inv, NEW f \in Flows, CloudDone(f)
  PROVE  Inv'
<1>0. /\ Open(f) /\ flow[f].step = "cloud"
      /\ UNCHANGED <<entries, disk, store, made, registered, stray, lost>>
  BY DEF CloudDone
<1>1. /\ flow[f] \in FlowRecord /\ FlowOK(flow[f], registered) /\ registered \subseteq made
      /\ flow[f].source \notin Repairs /\ flow[f].address # None
           => entries[flow[f].address] = None
  BY <1>0, RecordFacts
<1>2. /\ Linked(flow[f], registered) /\ flow[f].result \in Results
      /\ flow[f].config = flow[f].identity /\ flow[f].identity \in Companions
  BY <1>0, <1>1 DEF FlowOK, Linked, Presents, Associating, FlowRecord, OrNone
<1>3. ASSUME Becomes(f, [flow[f] EXCEPT !.step = "complete",
                   !.data = [id |-> flow[f].identity, companion |-> flow[f].identity,
                             password |-> flow[f].config,
                             appliance |-> flow[f].result.appliance, ref |-> None]])
      PROVE  Inv'
  <2> DEFINE d == [id |-> flow[f].identity, companion |-> flow[f].identity,
                   password |-> flow[f].config,
                   appliance |-> flow[f].result.appliance, ref |-> None]
             r == [flow[f] EXCEPT !.step = "complete", !.data = d]
  <2>1. /\ d \in Entry /\ d.id = flow[f].identity /\ d.companion = flow[f].identity
        /\ d.password = flow[f].identity /\ d.ref = None
    BY <1>2 DEF Entry, Results
  <2> HIDE DEF d
  <2>2. /\ r.step = "complete" /\ r.evidence = flow[f].evidence /\ r.uid = flow[f].uid
        /\ r.identity = flow[f].identity /\ r.config = flow[f].config
    BY <1>1 DEF FlowRecord
  <2>3. /\ r.entry = flow[f].entry /\ r.source = flow[f].source /\ r.address = flow[f].address
        /\ r.result = flow[f].result /\ r.data = d
    BY <1>1 DEF FlowRecord
  <2>4. r \in FlowRecord
    <3>1. "complete" \in Steps /\ d \in OrNone(Entry)
      BY <2>1 DEF Steps, OrNone
    <3> QED
      BY <1>1, <3>1 DEF FlowRecord
  <2>5. Becomes(f, r)
    BY <1>3 DEF d
  <2> HIDE DEF r
  <2>8. Linked(r, registered)
    BY <1>2, <2>2, <2>3 DEF Linked, Presents, Understood
  <2>6. FlowOK(r, registered')
    BY <1>0, <1>1, <2>1, <2>2, <2>3, <2>8 DEF FlowOK, Associating, CloudMenus
  <2>7. May(f, r)
    BY <1>0, <1>1, <2>2, <2>3, <2>4, <2>6 DEF May
  <2> QED
    BY <1>0, <2>5, <2>7, RecordFacts, MoveKeeps DEF StoreKept
<1>4. ASSUME NEW step \in {"cloud_not_linked", "cloud_unavailable", "setup_failed"}, Goto(f, step)
      PROVE  Inv'
  <2>1. step \in Menus
    BY DEF Menus
  <2> QED
    BY <1>0, <1>1, <1>2, <1>4, <2>1, BackKeeps DEF StoreKept
<1> QED
  BY <1>3, <1>4 DEF CloudDone

LEMMA RetryKeeps ==
  ASSUME Inv, NEW f \in Flows, Retry(f)
  PROVE  Inv'
<1>0. Open(f) /\ UNCHANGED <<entries, disk, store, registered, lost>>
  BY DEF Retry
<1>1. flow[f] \in FlowRecord /\ FlowOK(flow[f], registered) /\ registered \subseteq made
  BY RecordFacts
<1>2. CASE flow[f].step = "cloud_preparation_failed" /\ Prepare(f, flow[f])
  <2>1. flow[f] = [flow[f] EXCEPT !.evidence = flow[f].evidence]
    BY <1>1 DEF FlowRecord
  <2>2. flow[f].evidence \in Evidence /\ Fits(flow[f].evidence, flow[f].address)
    BY <1>1 DEF FlowOK, FlowRecord
  <2>3. Prepare(f, [flow[f] EXCEPT !.evidence = flow[f].evidence])
    BY <1>2, <2>1
  <2> QED
    BY <1>0, <1>2, <2>2, <2>3, PrepareKeeps
<1>3. CASE flow[f].step = "pairing_failed" /\ StartPairing(f) /\ UNCHANGED <<made, stray>>
  <2>1. flow[f].identity # None => flow[f].identity \in registered
    BY <1>1, <1>3 DEF FlowOK
  <2> QED
    BY <1>0, <1>1, <1>3, <2>1, StartPairingKeeps
<1>4. CASE /\ flow[f].step \in CloudMenus /\ flow[f].result = None
           /\ Goto(f, "cloud_unavailable") /\ UNCHANGED <<made, stray>>
  <2>1. flow[f].step # "retiring"
    BY <1>4 DEF CloudMenus
  <2> QED
    BY <1>0, <1>1, <1>4, <2>1, BackKeeps DEF Menus, StoreKept
<1>5. CASE /\ flow[f].step \in CloudMenus /\ flow[f].result # None
           /\ Goto(f, "cloud") /\ UNCHANGED <<made, stray>>
  <2> DEFINE r == [flow[f] EXCEPT !.step = "cloud"]
  <2>1. /\ r.step = "cloud" /\ r.evidence = flow[f].evidence /\ r.uid = flow[f].uid
        /\ r.identity = flow[f].identity /\ r.config = flow[f].config
    BY <1>1 DEF FlowRecord
  <2>2. /\ r.entry = flow[f].entry /\ r.source = flow[f].source /\ r.address = flow[f].address
        /\ r.result = flow[f].result
    BY <1>1 DEF FlowRecord
  <2> HIDE DEF r
  <2>3. Linked(flow[f], registered)
    BY <1>1, <1>5 DEF FlowOK
  <2>4. Linked(r, registered)
    BY <2>1, <2>2, <2>3 DEF Linked, Presents, Understood
  <2>5. FlowOK(r, registered')
    BY <1>0, <1>1, <2>1, <2>2, <2>4 DEF FlowOK, Associating, CloudMenus
  <2>6. flow[f].step # "retiring"
    BY <1>5 DEF CloudMenus
  <2> QED
    BY <1>0, <1>1, <1>5, <2>5, <2>6, GotoKeeps DEF Modest, r, StoreKept
<1> QED
  BY <1>2, <1>3, <1>4, <1>5 DEF Retry, CloudMenus

\* Registrations in progress are of companions that were generated.
LEMMA MayRegisterFacts ==
  ASSUME Inv, NEW F \in SUBSET Flows, NEW reg \in MayRegister(F)
  PROVE  registered \subseteq reg /\ reg \subseteq made
<1>1. ASSUME NEW f \in F, flow[f].step = "preparing" PROVE flow[f].config \in made
  BY <1>1, RecordFacts DEF FlowOK
<1>2. PICK C \in SUBSET {flow[f].config : f \in {g \in F : flow[g].step = "preparing"}} :
        reg = registered \cup C
  BY DEF MayRegister
<1>3. ASSUME NEW c \in C PROVE c \in made
  <2>1. PICK f \in {g \in F : flow[g].step = "preparing"} : c = flow[f].config
    BY <1>2, <1>3
  <2> QED
    BY <1>1, <2>1
<1>4. registered \subseteq made
  BY DEF Inv, TypeOK
<1> QED
  BY <1>2, <1>3, <1>4

LEMMA CloseKeeps ==
  ASSUME Inv, NEW f \in Flows, Close(f)
  PROVE  Inv'
<1>0. Open(f) /\ UNCHANGED <<entries, disk, store, made, stray, lost>>
  BY DEF Close
<1>4. registered \subseteq registered' /\ registered' \subseteq made
  BY MayRegisterFacts DEF Close
<1>1. flow[f] \in FlowRecord /\ FlowOK(flow[f], registered')
  BY <1>4, RecordFacts, FlowOKGrows
<1>2. CASE Becomes(f, [flow[f] EXCEPT !.alive = FALSE])
  <2> DEFINE r == [flow[f] EXCEPT !.alive = FALSE]
  <2>1. /\ r.step = flow[f].step /\ r.evidence = flow[f].evidence /\ r.uid = flow[f].uid
        /\ r.identity = flow[f].identity /\ r.config = flow[f].config /\ r.alive = FALSE
    BY <1>1 DEF FlowRecord
  <2>2. /\ r.entry = flow[f].entry /\ r.source = flow[f].source /\ r.address = flow[f].address
        /\ r.result = flow[f].result /\ r.data = flow[f].data /\ r.old = flow[f].old
    BY <1>1 DEF FlowRecord
  <2>3. r \in FlowRecord
    BY <1>1 DEF FlowRecord
  <2> HIDE DEF r
  <2>4. FlowOK(r, registered')
    BY <1>1, <2>1, <2>2 DEF FlowOK, Linked, Presents, Understood
  <2>5. r.step = "saving" /\ r.source \in Repairs /\ Exists(r.entry, r.address)
          => entries[r.address].appliance = r.data.appliance
    BY <2>1, <2>2 DEF Inv, Bound, Repairing
  <2>6. May(f, r)
    BY <2>1, <2>2, <2>3, <2>4, <2>5 DEF May
  <2> QED
    BY <1>0, <1>2, <1>4, <2>6, RecordFacts, MoveKeeps DEF r, StoreKept
<1>3. CASE Becomes(f, Blank)
  BY <1>0, <1>3, <1>4, EndKeeps DEF StoreKept
<1> QED
  BY <1>2, <1>3 DEF Close, Removed

-----------------------------------------------------------------------------
(* An entry is written.                                                    *)

\* e is what the flow f makes of the entry of h.
Makes(f, h, e) ==
  /\ e \in Entry /\ e.companion = flow[f].identity /\ e.password = e.companion
  /\ e.ref = IF h \in Silabs THEN e.companion ELSE None
  /\ \/ entries[h] = None /\ e.id = flow[f].identity /\ Open(f) /\ flow[f].uid = h
     \/ entries[h] # None /\ e.id = entries[h].id /\ e.appliance = entries[h].appliance

LEMMA WrittenKeeps ==
  ASSUME Inv, NEW f \in Flows, NEW h \in Hubs, NEW e, Makes(f, h, e), NEW r, Becomes(f, r),
         flow[f].step \in {"complete", "saving"}, flow[f].identity \in registered,
         flow[f].identity # None,
         \/ r = Blank
         \/ /\ r = [flow[f] EXCEPT !.step = "retiring", !.old = entries[h].ref]
            /\ entries[h] # None /\ entries[h].ref # None,
         entries' = [entries EXCEPT ![h] = e],
         StoreKept, e.ref # None => e.ref \in store',
         UNCHANGED <<disk, made, registered, stray, lost>>
  PROVE  Inv'
<1>0. /\ flow[f] \in FlowRecord /\ FlowOK(flow[f], registered)
      /\ registered \subseteq made /\ stray \subseteq made /\ made \subseteq Companions
      /\ None \notin Hubs \cup Companions
  BY RecordFacts, ConfigFlowAssumption
<1>1. /\ e \in Entry /\ entries \in [Hubs -> OrNone(Entry)] /\ e.companion = flow[f].identity
      /\ entries'[h] = e /\ \A k \in Hubs \ {h} : entries'[k] = entries[k]
  BY DEF Makes, Inv, TypeOK
<1>2. /\ r \in FlowRecord /\ FlowOK(r, registered) /\ r.step \in {"gone", "retiring"}
      /\ r.identity # None => r.identity = flow[f].identity /\ r.step = "retiring"
      /\ r.entry # None => r.entry = flow[f].entry
      /\ r.step = "retiring" => /\ entries[h] # None /\ entries[h].ref # None
                                /\ r.old = entries[h].ref /\ r.identity = flow[f].identity
      /\ r.uid # None => r.uid = flow[f].uid /\ r.alive = flow[f].alive
      /\ r.step = "retiring" => /\ r.source = flow[f].source /\ r.address = flow[f].address
                                /\ r.uid = flow[f].uid /\ r.alive = flow[f].alive
  <2>1. CASE r = Blank
    BY <2>1, BlankFacts
  <2>2. CASE /\ r = [flow[f] EXCEPT !.step = "retiring", !.old = entries[h].ref]
             /\ entries[h] # None /\ entries[h].ref # None
    <3>1. entries[h].ref \in OrNone(Companions) /\ "retiring" \in Steps
      BY <1>1, <2>2 DEF OrNone, Entry, Steps, Suspended
    <3>2. /\ r.step = "retiring" /\ r.old = entries[h].ref /\ r.evidence = flow[f].evidence
          /\ r.uid = flow[f].uid /\ r.identity = flow[f].identity /\ r.config = flow[f].config
      BY <1>0, <2>2 DEF FlowRecord
    <3>3. /\ r.entry = flow[f].entry /\ r.source = flow[f].source /\ r.address = flow[f].address
          /\ r.alive = flow[f].alive
      BY <1>0, <2>2 DEF FlowRecord
    <3>4. r \in FlowRecord
      BY <1>0, <2>2, <3>1 DEF FlowRecord
    <3>5. FlowOK(r, registered)
      BY <1>0, <2>2, <3>2, <3>3 DEF FlowOK, Associating, CloudMenus
    <3> QED
      BY <2>2, <3>2, <3>3, <3>4, <3>5
  <2> QED
    BY <2>1, <2>2
<1>3. /\ flow' \in [Flows -> FlowRecord] /\ flow'[f] = r
      /\ \A g \in Flows \ {f} : flow'[g] = flow[g]
  <2>1. flow \in [Flows -> FlowRecord]
    BY DEF Inv, TypeOK, FlowRecord, Results, Evidence
  <2> QED
    BY <1>2, <2>1 DEF Becomes
<1>4. TypeOK'
  <2>1. entries' \in [Hubs -> OrNone(Entry)]
    BY <1>1 DEF OrNone
  <2> QED
    BY <1>3, <2>1 DEF Inv, TypeOK, FlowRecord, Results, Evidence, StoreKept
<1>5. FlowsOK'
  BY <1>2, <1>3 DEF Inv, FlowsOK
<1>6. \A g \in Flows \ {f} : flow[g].identity # flow[f].identity
  BY DEF Inv, Owned
<1>7. \A k \in Hubs : entries[k] # None => entries[k].companion # flow[f].identity
  BY DEF Inv, Owned, Live
<1>8. Whole(entries', registered')
  <2>1. ASSUME NEW k \in Hubs, entries'[k] # None
        PROVE  /\ entries'[k].password = entries'[k].companion
               /\ entries'[k].companion \in registered
               /\ entries'[k].ref = IF k \in Silabs THEN entries'[k].companion ELSE None
    BY <1>1, <2>1 DEF Makes, Inv, Whole
  <2>2. ASSUME NEW k \in Hubs, NEW j \in Hubs \ {k}, entries'[k] # None, entries'[j] # None
        PROVE  entries'[j].companion # entries'[k].companion
    <3>1. CASE k # h /\ j # h
      BY <1>1, <2>2, <3>1 DEF Inv, Whole
    <3>2. CASE k = h
      BY <1>1, <1>7, <2>2, <3>2
    <3>3. CASE j = h
      BY <1>1, <1>7, <2>2, <3>3
    <3> QED
      BY <3>1, <3>2, <3>3
  <2> QED
    BY <2>1, <2>2 DEF Whole
<1>9. \A g \in Flows : flow'[g].identity # None => flow'[g].identity = flow[g].identity
  BY <1>2, <1>3
<1>10. Named(disk)'
  BY <1>0, <1>9 DEF Inv, Named
<1>11. Named(entries)'
  <2>1. ASSUME NEW k \in Hubs, entries'[k] # None
        PROVE  entries'[k].id \in made /\ \A g \in Flows : flow'[g].identity # entries'[k].id
    <3>1. CASE entries[k] # None /\ entries'[k].id = entries[k].id
      <4>1. /\ entries[k].id \in made /\ entries[k].id # None
            /\ \A g \in Flows : flow[g].identity # entries[k].id
        BY <1>0, <3>1 DEF Inv, Named
      <4> QED
        BY <1>9, <3>1, <4>1
    <3>2. CASE k = h /\ entries[h] = None /\ e.id = flow[f].identity
      <4>1. r.identity = None
        BY <1>2, <3>2
      <4> QED
        BY <1>0, <1>1, <1>3, <1>6, <3>2, <4>1
    <3> QED
      BY <1>1, <2>1, <3>1, <3>2 DEF Makes
  <2> QED
    BY <2>1 DEF Named
<1>12. Owned'
  <2>1. ASSUME NEW g \in Flows, flow'[g].identity # None
        PROVE  /\ flow'[g].identity \in made
               /\ \A k \in Flows \ {g} : flow'[k].identity # flow'[g].identity
               /\ \A k \in Hubs : /\ entries'[k] # None
                                  /\ entries'[k].companion = flow'[g].identity
                                => flow'[g].step = "retiring"
    <3>1. flow'[g].identity = flow[g].identity /\ flow[g].identity # None
      BY <1>9, <2>1
    <3>2. flow[g].identity \in made /\ \A k \in Flows \ {g} : flow[k].identity # flow[g].identity
      BY <3>1 DEF Inv, Owned
    <3>3. \A k \in Flows \ {g} : flow'[k].identity # flow'[g].identity
      BY <1>9, <2>1, <3>1, <3>2
    <3>4. ASSUME NEW k \in Hubs, entries'[k] # None, entries'[k].companion = flow'[g].identity
          PROVE  flow'[g].step = "retiring"
      <4>1. CASE g = f
        BY <1>2, <1>3, <2>1, <4>1
      <4>2. CASE g # f /\ k = h
        BY <1>1, <1>6, <3>1, <3>4, <4>2
      <4>3. CASE g # f /\ k # h
        BY <1>1, <1>3, <3>1, <3>4, <4>3 DEF Inv, Owned, Live
      <4> QED
        BY <4>1, <4>2, <4>3
    <3> QED
      BY <3>1, <3>2, <3>3, <3>4
  <2>2. ASSUME NEW g \in Flows, flow'[g].step = "retiring"
        PROVE  /\ flow'[g].old \in made
               /\ \A k \in Hubs : entries'[k] # None => entries'[k].companion # flow'[g].old
               /\ \A k \in Flows : flow'[k].identity = flow'[g].old => flow'[k].step = "retiring"
    <3>1. CASE g = f
      <4>1. /\ entries[h] # None /\ entries[h].ref # None /\ r.old = entries[h].ref
            /\ r.identity = flow[f].identity
        BY <1>2, <1>3, <2>2, <3>1
      <4>2. r.old = entries[h].companion /\ r.old \in made /\ r.old # None
        BY <1>0, <4>1 DEF Inv, Whole
      <4>3. \A k \in Hubs : entries'[k] # None => entries'[k].companion # r.old
        BY <1>1, <1>7, <4>1, <4>2 DEF Inv, Whole
      <4>4. ASSUME NEW k \in Flows, flow'[k].identity = r.old PROVE flow'[k].step = "retiring"
        <5>1. flow[k].identity = entries[h].companion /\ flow[k].identity # None
          BY <1>9, <4>2, <4>4
        <5>2. k # f
          BY <1>7, <4>1, <5>1
        <5> QED
          BY <1>3, <4>1, <5>1, <5>2 DEF Inv, Owned, Live
      <4> QED
        BY <1>3, <3>1, <4>2, <4>3, <4>4
    <3>2. CASE g # f
      <4>1. flow'[g] = flow[g] /\ flow[g].step = "retiring"
        BY <1>3, <2>2, <3>2
      <4>2. /\ flow[g].old \in made /\ flow[g].old # None
            /\ \A k \in Hubs : entries[k] # None => entries[k].companion # flow[g].old
            /\ \A k \in Flows : flow[k].identity = flow[g].old => flow[k].step = "retiring"
        BY <1>0, <4>1 DEF Inv, Owned, Live
      <4>3. flow[f].identity # flow[g].old
        BY <4>2
      <4>4. \A k \in Hubs : entries'[k] # None => entries'[k].companion # flow[g].old
        BY <1>1, <4>2, <4>3
      <4>5. \A k \in Flows : flow'[k].identity = flow[g].old => flow'[k].step = "retiring"
        BY <1>2, <1>3, <4>2, <4>3
      <4> QED
        BY <4>1, <4>2, <4>4, <4>5
    <3> QED
      BY <3>1, <3>2
  <2>3. ASSUME NEW g \in Flows, flow'[g].entry # None
        PROVE  flow'[g].entry \in made /\ \A k \in Flows : flow'[k].identity # flow'[g].entry
    <3>1. flow'[g].entry = flow[g].entry
      BY <1>2, <1>3, <2>3
    <3> QED
      BY <1>0, <1>9, <2>3, <3>1 DEF Inv, Owned
  <2> QED
    BY <2>1, <2>2, <2>3 DEF Owned, Live
<1>13. Alone'
  <2>1. ASSUME NEW g \in Flows, flow'[g].step # "gone", flow'[g].alive
        PROVE  Open(g) /\ flow'[g].uid = flow[g].uid /\ flow'[g].address = flow[g].address
               /\ flow'[g].source = flow[g].source
    <3>1. CASE g = f
      <4>1. r.step = "retiring"
        BY <1>2, <1>3, <2>1, <3>1
      <4>2. flow[f].step # "gone"
        OBVIOUS
      <4> QED
        BY <1>2, <1>3, <2>1, <3>1, <4>1 DEF Open
    <3>2. CASE g # f
      BY <1>3, <2>1, <3>2 DEF Open
    <3> QED
      BY <3>1, <3>2
  <2>2. ASSUME NEW g \in Flows, NEW k \in Flows, g # k, flow'[g].step # "gone", flow'[g].alive,
               flow'[k].step # "gone", flow'[k].alive, flow'[g].uid # None
        PROVE  flow'[g].uid # flow'[k].uid
    BY <2>1, <2>2 DEF Inv, Alone
  <2>3. ASSUME NEW g \in Flows, flow'[g].step # "gone", flow'[g].alive,
               flow'[g].source \notin Repairs, flow'[g].address # None
        PROVE  entries'[flow'[g].address] = None
    <3>1. /\ Open(g) /\ flow[g].source \notin Repairs /\ flow'[g].address = flow[g].address
          /\ flow[g].address # None /\ flow[g].address \in Hubs
      BY <2>1, <2>3, RecordFacts DEF FlowRecord, OrNone
    <3>2. entries[flow[g].address] = None
      BY <3>1, RecordFacts
    <3>3. flow[g].address # h
      <4>1. CASE entries[h] # None
        BY <3>2, <4>1
      <4>2. CASE Open(f) /\ flow[f].uid = h /\ entries[h] = None
        <5>1. g # f
          BY <1>2, <1>3, <2>3, <4>2
        <5>2. flow[g].uid = flow[g].address
          BY <3>1, RecordFacts DEF FlowOK
        <5> QED
          BY <1>0, <3>1, <4>2, <5>1, <5>2 DEF Inv, Alone
      <4> QED
        BY <4>1, <4>2 DEF Makes
    <3> QED
      BY <1>1, <3>1, <3>2, <3>3
  <2> QED
    BY <2>2, <2>3 DEF Alone, Open, Repairing
<1>14. Bound'
  <2>1. ASSUME NEW g \in Flows, flow'[g].step = "saving", flow'[g].source \in Repairs,
               entries'[flow'[g].address] # None,
               entries'[flow'[g].address].id = flow'[g].entry
        PROVE  entries'[flow'[g].address].appliance = flow'[g].data.appliance
    <3>1. flow'[g] = flow[g]
      BY <1>2, <1>3, <2>1
    <3>2. /\ flow[g].address \in Hubs /\ flow[g].entry # None /\ flow[g].entry # flow[f].identity
      <4>1. FlowOK(flow[g], registered) /\ flow[g].step = "saving" /\ flow[g].source \in Repairs
        BY <2>1, <3>1, RecordFacts
      <4>2. flow[g].address \in Hubs /\ flow[g].entry # None
        BY <4>1, ConfigFlowAssumption DEF FlowOK
      <4> QED
        BY <4>2 DEF Inv, Owned
    <3>3. Exists(flow[g].entry, flow[g].address)
            => entries[flow[g].address].appliance = flow[g].data.appliance
      BY <2>1, <3>1 DEF Inv, Bound, Repairing
    <3>4. CASE flow[g].address # h
      BY <1>1, <2>1, <3>1, <3>2, <3>3, <3>4 DEF Exists
    <3>5. CASE flow[g].address = h
      BY <1>1, <2>1, <3>1, <3>2, <3>3, <3>5 DEF Exists, Makes
    <3> QED
      BY <3>4, <3>5
  <2>2. ASSUME NEW k \in Hubs, entries'[k] # None, disk[k] # None, entries'[k].id = disk[k].id
        PROVE  entries'[k].appliance = disk[k].appliance
    <3>1. disk[k].id # flow[f].identity
      BY <2>2 DEF Inv, Named
    <3>2. CASE k # h
      BY <1>1, <2>2, <3>2 DEF Inv, Bound
    <3>3. CASE k = h
      BY <1>1, <2>2, <3>1, <3>3 DEF Inv, Bound, Makes
    <3> QED
      BY <3>2, <3>3
  <2> QED
    BY <2>1, <2>2 DEF Bound, Exists, Repairing
<1>15. RefStored'
  <2>1. ASSUME ~lost, NEW k \in Hubs, entries'[k] # None, entries'[k].ref # None
        PROVE  entries'[k].ref \in store'
    <3>1. CASE k = h
      BY <1>1, <2>1, <3>1
    <3>2. CASE k # h
      BY <1>1, <2>1, <3>2 DEF Inv, RefStored, Live, StoreKept
    <3> QED
      BY <3>1, <3>2
  <2> QED
    BY <2>1 DEF RefStored, Live
<1>16. Whole(disk', registered')
  BY DEF Inv
<1> QED
  BY <1>4, <1>5, <1>8, <1>10, <1>11, <1>12, <1>13, <1>14, <1>15, <1>16 DEF Inv

\* async_create_entry, or the update of a repaired entry.
LEMMA FinishKeeps ==
  ASSUME Inv, NEW f \in Flows, flow[f].step \in {"complete", "saving"},
         NEW d \in Entry, d.id = flow[f].identity, d.companion = flow[f].identity,
         d.password = flow[f].identity,
         d.ref = IF flow[f].address \in Silabs THEN flow[f].identity ELSE None,
         flow[f].source \in Repairs /\ Exists(flow[f].entry, flow[f].address) =>
           entries[flow[f].address].appliance = d.appliance,
         Finish(f, d), StoreKept, d.ref # None => d.ref \in store',
         UNCHANGED <<disk, made, registered, stray, lost>>
  PROVE  Inv'
<1> DEFINE h == flow[f].address
<1>0. /\ flow[f] \in FlowRecord /\ FlowOK(flow[f], registered) /\ entries \in [Hubs -> OrNone(Entry)]
      /\ Open(f) /\ flow[f].source \notin Repairs /\ flow[f].address # None
              => entries[flow[f].address] = None
      /\ None \notin Hubs \cup Companions
  BY RecordFacts, ConfigFlowAssumption DEF Inv, TypeOK
<1>1. /\ flow[f].identity # None /\ flow[f].identity \in registered /\ h \in Hubs
      /\ flow[f].uid = h
  BY <1>0, ConfigFlowAssumption
     DEF FlowOK, Fits, Linked, Presents, Associating, Qualified
<1> HIDE DEF h
<1>2. CASE ~Repairing(f)
  <2>1. /\ entries' = IF flow[f].alive THEN [entries EXCEPT ![h] = d] ELSE entries
        /\ Becomes(f, Blank)
    BY <1>2 DEF Finish, CreateEntry, h
  <2>2. CASE flow[f].alive
    <3>1. Open(f) /\ entries[h] = None
      BY <1>0, <1>1, <1>2, <2>2 DEF Open, Repairing, h
    <3>2. Makes(f, h, d)
      BY <1>1, <3>1 DEF Makes, h
    <3> QED
      BY <1>1, <2>1, <2>2, <3>2, WrittenKeeps
  <2>3. CASE ~flow[f].alive
    BY <2>1, <2>3, BlankKeeps
  <2> QED
    BY <2>2, <2>3
<1>3. CASE Repairing(f)
  <2>1. UpdateEntry(f, d)
    BY <1>3 DEF Finish
  <2>2. CASE ~Exists(flow[f].entry, h)
    <3>1. /\ Becomes(f, IF flow[f].alive THEN [flow[f] EXCEPT !.step = "broken"] ELSE Blank)
          /\ UNCHANGED entries
      BY <2>1, <2>2 DEF UpdateEntry, h
    <3>2. CASE flow[f].alive
      <4>1. Goto(f, "broken") /\ Open(f)
        BY <3>1, <3>2 DEF Goto, Open
      <4>2. "broken" \notin CloudMenus
        BY DEF CloudMenus
      <4> QED
        BY <3>1, <4>1, <4>2, RecordFacts, BackKeeps
    <3>3. CASE ~flow[f].alive
      BY <3>1, <3>3, BlankKeeps
    <3> QED
      BY <3>2, <3>3
  <2>3. CASE Exists(flow[f].entry, h)
    <3> DEFINE old == entries[h]
               ref == IF d.ref = None THEN old.ref ELSE d.ref
               e == [d EXCEPT !.id = old.id, !.ref = ref]
    <3>1. old # None /\ old \in Entry /\ old.ref \in OrNone(Companions)
      BY <1>0, <1>1, <2>3 DEF Exists, OrNone, Entry
    <3>2. old.ref = IF h \in Silabs THEN old.companion ELSE None
      BY <1>1, <3>1 DEF Inv, Whole
    <3>3. ref = IF h \in Silabs THEN flow[f].identity ELSE None
      BY <1>1, <3>2 DEF h
    <3>4. /\ e \in Entry /\ e.id = old.id /\ e.ref = ref /\ e.companion = d.companion
          /\ e.password = d.password /\ e.appliance = d.appliance
      BY <1>0, <1>1, <3>1, <3>3 DEF Entry, OrNone
    <3>5. /\ entries' = [entries EXCEPT ![h] = e]
          /\ Becomes(f, IF old.ref \notin {None, d.ref}
                          THEN [flow[f] EXCEPT !.step = "retiring", !.old = old.ref]
                          ELSE Blank)
      BY <2>1, <2>3 DEF UpdateEntry, h
    <3>6. old.appliance = d.appliance
      BY <1>3, <2>3 DEF Repairing, h
    <3>7. e.ref # None => e.ref \in store'
      BY <1>0, <1>1, <3>3, <3>4 DEF h
    <3> HIDE DEF e, ref
    <3>8. Makes(f, h, e)
      BY <3>1, <3>3, <3>4, <3>6 DEF Makes
    <3>9. CASE old.ref \notin {None, d.ref}
      BY <1>1, <3>1, <3>5, <3>7, <3>8, <3>9, WrittenKeeps
    <3>10. CASE old.ref \in {None, d.ref}
      BY <1>1, <3>5, <3>7, <3>8, <3>10, WrittenKeeps
    <3> QED
      BY <3>9, <3>10
  <2> QED
    BY <2>2, <2>3
<1> QED
  BY <1>2, <1>3

LEMMA CompleteKeeps ==
  ASSUME Inv, NEW f \in Flows, Complete(f)
  PROVE  Inv'
<1>0. /\ Open(f) /\ flow[f].step = "complete"
      /\ UNCHANGED <<disk, store, made, registered, stray, lost>>
  BY DEF Complete
<1>1. /\ flow[f] \in FlowRecord /\ FlowOK(flow[f], registered)
      /\ flow[f].source \notin Repairs /\ flow[f].address # None
              => entries[flow[f].address] = None
  BY <1>0, RecordFacts
<1>2. /\ flow[f].data \in Entry /\ flow[f].data.ref = None
      /\ flow[f].data.id = flow[f].identity /\ flow[f].data.companion = flow[f].identity
      /\ flow[f].data.password = flow[f].identity
      /\ Linked(flow[f], registered)
  BY <1>0, <1>1 DEF FlowOK, Associating
<1>7. flow[f].evidence = "silabs" <=> flow[f].address \in Silabs
  BY <1>2 DEF Linked, Understood
<1>3. CASE Goto(f, "broken") /\ UNCHANGED entries
  <2>1. "broken" \notin CloudMenus
    BY DEF CloudMenus
  <2> QED
    BY <1>0, <1>3, <2>1, RecordFacts, BackKeeps DEF StoreKept
<1>4. CASE Becomes(f, Blank) /\ UNCHANGED entries
  BY <1>0, <1>4, BlankKeeps DEF StoreKept
<1>5. ASSUME Repairing(f) => /\ Exists(flow[f].entry, flow[f].address)
                             /\ flow[f].data.appliance = entries[flow[f].address].appliance,
             flow[f].address \in Silabs, Goto(f, "saving"), UNCHANGED entries
      PROVE  Inv'
  <2> DEFINE r == [flow[f] EXCEPT !.step = "saving"]
  <2>1. /\ r.step = "saving" /\ r.evidence = flow[f].evidence /\ r.uid = flow[f].uid
        /\ r.identity = flow[f].identity /\ r.config = flow[f].config
    BY <1>1 DEF FlowRecord
  <2>2. /\ r.entry = flow[f].entry /\ r.source = flow[f].source /\ r.address = flow[f].address
        /\ r.result = flow[f].result /\ r.data = flow[f].data
    BY <1>1 DEF FlowRecord
  <2>3. r \in FlowRecord
    BY <1>1 DEF FlowRecord, Steps, Suspended
  <2> HIDE DEF r
  <2>6. Linked(r, registered)
    BY <1>2, <2>1, <2>2 DEF Linked, Presents, Understood
  <2>4. FlowOK(r, registered')
    BY <1>0, <1>1, <1>2, <1>5, <2>1, <2>2, <2>6 DEF FlowOK, CloudMenus
  <2>5. May(f, r)
    BY <1>0, <1>1, <1>5, <2>1, <2>2, <2>3, <2>4 DEF May, Repairing
  <2> QED
    BY <1>0, <1>5, <2>5, RecordFacts, MoveKeeps DEF r, Goto, StoreKept
<1>6. ASSUME Repairing(f) => /\ Exists(flow[f].entry, flow[f].address)
                             /\ flow[f].data.appliance = entries[flow[f].address].appliance,
             flow[f].address \notin Silabs, Finish(f, flow[f].data)
      PROVE  Inv'
  BY <1>0, <1>2, <1>6, FinishKeeps DEF StoreKept, Repairing
<1> QED
  BY <1>3, <1>4, <1>5, <1>6, <1>7 DEF Complete

LEMMA SavedKeeps ==
  ASSUME Inv, NEW f \in Flows, Saved(f)
  PROVE  Inv'
<1> DEFINE c == flow[f].result.companion
<1>0. flow[f].step = "saving" /\ UNCHANGED <<disk, made, registered, stray, lost>>
  BY DEF Saved
<1>1. /\ flow[f] \in FlowRecord /\ FlowOK(flow[f], registered) /\ store \subseteq Companions
      /\ registered \subseteq made
  BY RecordFacts DEF Inv, TypeOK
<1>2. /\ flow[f].data \in Entry /\ flow[f].data.ref = None
      /\ flow[f].data.id = flow[f].identity /\ flow[f].data.companion = flow[f].identity
      /\ flow[f].data.password = flow[f].identity
  BY <1>0, <1>1 DEF FlowOK
<1>3. c = flow[f].identity /\ c \in Companions /\ flow[f].address \in Silabs
  BY <1>0, <1>1 DEF FlowOK, Linked, Associating, Results
<1> HIDE DEF c
<1>4. CASE store' = store \cup {c} /\ Finish(f, [flow[f].data EXCEPT !.ref = c])
  <2> DEFINE d == [flow[f].data EXCEPT !.ref = c]
  <2>1. /\ d \in Entry /\ d.id = flow[f].identity /\ d.companion = flow[f].identity
        /\ d.password = flow[f].identity /\ d.ref = flow[f].identity
        /\ d.appliance = flow[f].data.appliance
    BY <1>2, <1>3 DEF Entry
  <2>2. Finish(f, d)
    BY <1>4
  <2>3. flow[f].source \in Repairs /\ Exists(flow[f].entry, flow[f].address) =>
          entries[flow[f].address].appliance = flow[f].data.appliance
    BY <1>0 DEF Inv, Bound, Repairing
  <2>4. StoreKept /\ d.ref \in store'
    BY <1>1, <1>3, <1>4, <2>1 DEF StoreKept
  <2> HIDE DEF d
  <2> QED
    BY <1>0, <1>3, <2>1, <2>2, <2>3, <2>4, FinishKeeps
<1>5. CASE /\ Becomes(f, IF flow[f].alive THEN [flow[f] EXCEPT !.step = "setup_failed"] ELSE Blank)
           /\ UNCHANGED <<entries, store>>
  <2>1. CASE flow[f].alive
    <3>1. Goto(f, "setup_failed") /\ Open(f)
      BY <1>0, <1>5, <2>1 DEF Goto, Open
    <3>2. "setup_failed" \notin CloudMenus /\ "setup_failed" \in Menus
      BY DEF CloudMenus, Menus
    <3> QED
      BY <1>0, <1>1, <1>5, <3>1, <3>2, BackKeeps DEF StoreKept
  <2>2. CASE ~flow[f].alive
    BY <1>0, <1>5, <2>2, BlankKeeps DEF StoreKept
  <2> QED
    BY <2>1, <2>2
<1> QED
  BY <1>4, <1>5 DEF Saved, c

-----------------------------------------------------------------------------
(* Records and entries are removed, saved and lost.                        *)

\* Flow f ends, stays, or runs on without its dialog.
Fades(f) ==
  \/ flow'[f] = Blank
  \/ flow'[f] = flow[f]
  \/ flow'[f] = [flow[f] EXCEPT !.alive = FALSE]

\* Flows fade and entries disappear: nobody comes to own anything.
LEMMA FadeKeeps ==
  ASSUME Inv, DOMAIN flow' = Flows, flow' = [f \in Flows |-> flow'[f]], \A f \in Flows : Fades(f),
         entries' \in [Hubs -> OrNone(Entry)],
         \A h \in Hubs : entries'[h] \in {entries[h], None},
         registered \subseteq registered', registered' \subseteq made,
         UNCHANGED <<disk, made, stray, lost>>, store' \subseteq store, RefStored'
  PROVE  Inv'
<1>1. flow \in [Flows -> FlowRecord] /\ \A f \in Flows : FlowOK(flow[f], registered)
  BY DEF Inv, TypeOK, FlowsOK, FlowRecord, Results, Evidence
<1>2. ASSUME NEW f \in Flows
      PROVE  /\ flow'[f] \in FlowRecord
             /\ FlowOK(flow'[f], registered)
             /\ flow'[f].step # "gone" => flow'[f].step = flow[f].step
             /\ flow'[f].identity # None => /\ flow'[f].identity = flow[f].identity
                                            /\ flow'[f].step = flow[f].step
  <2>1. CASE flow'[f] = Blank
    BY <2>1, BlankFacts
  <2>2. CASE flow'[f] = flow[f]
    BY <1>1, <2>2
  <2>3. CASE flow'[f] = [flow[f] EXCEPT !.alive = FALSE]
    <3> DEFINE r == [flow[f] EXCEPT !.alive = FALSE]
    <3>0. flow[f] \in FlowRecord
      BY <1>1
    <3>1. r \in FlowRecord
      BY <3>0 DEF FlowRecord
    <3>2. /\ r.step = flow[f].step /\ r.evidence = flow[f].evidence /\ r.uid = flow[f].uid
          /\ r.identity = flow[f].identity /\ r.config = flow[f].config
      BY <3>0 DEF FlowRecord
    <3>3. /\ r.entry = flow[f].entry /\ r.source = flow[f].source
          /\ r.address = flow[f].address /\ r.old = flow[f].old
          /\ r.result = flow[f].result /\ r.data = flow[f].data
      BY <3>0 DEF FlowRecord
    <3>4. flow'[f] = r
      BY <2>3
    <3>5. FlowOK(flow[f], registered)
      BY <1>1
    <3> HIDE DEF r
    <3>6. FlowOK(r, registered)
      BY <3>2, <3>3, <3>5 DEF FlowOK, Linked, Presents, Understood
    <3> QED
      BY <3>1, <3>2, <3>4, <3>6
  <2> QED
    BY <2>1, <2>2, <2>3 DEF Fades
<1>3. ASSUME NEW f \in Flows, flow'[f].step # "gone"
      PROVE  /\ flow'[f].old = flow[f].old /\ flow'[f].entry = flow[f].entry
             /\ flow'[f].source = flow[f].source /\ flow'[f].address = flow[f].address
             /\ flow'[f].uid = flow[f].uid /\ flow'[f].data = flow[f].data
             /\ flow'[f].alive => flow[f].alive
  BY <1>1, <1>3, BlankFacts DEF Fades, FlowRecord
<1>4. ASSUME NEW f \in Flows
      PROVE  flow'[f].entry # None => flow'[f].entry = flow[f].entry
  BY <1>1, BlankFacts DEF Fades, FlowRecord
<1>5. TypeOK'
  BY <1>2 DEF Inv, TypeOK, FlowRecord, Results, Evidence
<1>6. FlowsOK'
  BY <1>2, FlowOKGrows DEF FlowsOK
<1>7. Whole(entries, registered)' /\ Whole(disk, registered)'
  BY DEF Inv, Whole
<1>8. Named(entries)' /\ Named(disk)'
  <2>1. \A h \in Hubs : /\ entries[h] # None => entries[h].id \in Companions
                        /\ disk[h] # None => disk[h].id \in Companions
    BY DEF Inv, TypeOK, Entry, OrNone
  <2>2. \A f \in Flows : flow'[f].identity = None \/ flow'[f].identity = flow[f].identity
    BY <1>2
  <2>3. None \notin Companions
    BY ConfigFlowAssumption
  <2>4. Named(entries)'
    BY <2>1, <2>2, <2>3 DEF Inv, Named
  <2>5. Named(disk)'
    BY <2>1, <2>2, <2>3 DEF Inv, Named
  <2> QED
    BY <2>4, <2>5
<1>9. Owned'
  <2>1. ASSUME NEW f \in Flows, flow'[f].identity # None
        PROVE  /\ flow'[f].identity \in made'
               /\ \A g \in Flows \ {f} : flow'[g].identity # flow'[f].identity
               /\ \A h \in Hubs : Live(h)' /\ entries'[h].companion = flow'[f].identity
                                  => flow'[f].step = "retiring"
    BY <1>2, <2>1 DEF Inv, Owned, Live
  <2>2. ASSUME NEW f \in Flows, flow'[f].step = "retiring"
        PROVE  /\ flow'[f].old \in made'
               /\ \A h \in Hubs : Live(h)' => entries'[h].companion # flow'[f].old
               /\ \A g \in Flows : flow'[g].identity = flow'[f].old => flow'[g].step = "retiring"
    <3>1. flow[f].step = "retiring" /\ flow'[f].old = flow[f].old
      BY <1>2, <1>3, <2>2
    <3>2. /\ flow[f].old \in made /\ \A h \in Hubs : Live(h) => entries[h].companion # flow[f].old
          /\ \A g \in Flows : flow[g].identity = flow[f].old => flow[g].step = "retiring"
      BY <3>1 DEF Inv, Owned
    <3>3. flow[f].old # None
      BY <3>2, ConfigFlowAssumption DEF Inv, TypeOK
    <3> QED
      BY <1>2, <3>1, <3>2, <3>3 DEF Live
  <2>3. ASSUME NEW f \in Flows, flow'[f].entry # None
        PROVE  flow'[f].entry \in made' /\ \A g \in Flows : flow'[g].identity # flow'[f].entry
    BY <1>2, <1>4, <2>3 DEF Inv, Owned
  <2> QED
    BY <2>1, <2>2, <2>3 DEF Owned
<1>10. \A f \in Flows : Open(f)' => /\ Open(f) /\ flow'[f].uid = flow[f].uid
                                    /\ flow'[f].address = flow[f].address
                                    /\ (Repairing(f)' <=> Repairing(f))
  BY <1>2, <1>3 DEF Open, Repairing
<1>11. Alone'
  BY <1>1, <1>10, ConfigFlowAssumption DEF Inv, Alone, FlowRecord, OrNone
<1>12. Bound'
  <2>1. \A h \in Hubs : entries'[h] # None => entries'[h] = entries[h]
    OBVIOUS
  <2>2. ASSUME NEW f \in Flows, flow'[f].step = "saving"
        PROVE  flow'[f].address \in Hubs
    BY <1>2, <2>2, ConfigFlowAssumption DEF FlowOK
  <2>3. ASSUME NEW f \in Flows, flow'[f].step = "saving"
        PROVE  /\ flow[f].step = "saving" /\ flow'[f].source = flow[f].source
               /\ flow'[f].entry = flow[f].entry /\ flow'[f].address = flow[f].address
               /\ flow'[f].data = flow[f].data
    BY <1>2, <1>3, <2>3
  <2> QED
    BY <2>1, <2>2, <2>3 DEF Inv, Bound, Repairing, Exists
<1> QED
  BY <1>5, <1>6, <1>7, <1>8, <1>9, <1>11, <1>12 DEF Inv

LEMMA RetiredKeeps ==
  ASSUME Inv, NEW f \in Flows, Retired(f)
  PROVE  Inv'
<1>0. /\ flow[f].step = "retiring" /\ Becomes(f, Blank) /\ store' \subseteq store
      /\ store \ {flow[f].old} \subseteq store'
      /\ UNCHANGED <<entries, disk, made, registered, stray, lost>>
  BY DEF Retired
<1>1. \A h \in Hubs : Live(h) => entries[h].companion # flow[f].old
  BY <1>0 DEF Inv, Owned
<1>2. RefStored'
  BY <1>0, <1>1 DEF Inv, RefStored, Live, Whole
<1>3. /\ DOMAIN flow' = Flows /\ flow' = [g \in Flows |-> flow'[g]]
      /\ \A g \in Flows : Fades(g)
  BY <1>0 DEF Inv, TypeOK, Becomes, Fades
<1>4. \A h \in Hubs : entries'[h] \in {entries[h], None}
  BY <1>0
<1>5. entries' \in [Hubs -> OrNone(Entry)]
  BY <1>0 DEF Inv, TypeOK
<1>6. registered \subseteq made
  BY RecordFacts
<1> QED
  BY <1>0, <1>2, <1>3, <1>4, <1>5, <1>6, FadeKeeps

LEMMA RemoveEntryKeeps ==
  ASSUME Inv, NEW h \in Hubs, RemoveEntry(h)
  PROVE  Inv'
<1>1. entries' = [entries EXCEPT ![h] = None] /\ entries \in [Hubs -> OrNone(Entry)]
  BY DEF RemoveEntry, Inv, TypeOK
<1>2. \A k \in Hubs : entries'[k] = IF k = h THEN None ELSE entries[k]
  BY <1>1
<1>3. entries' \in [Hubs -> OrNone(Entry)] /\ \A k \in Hubs : entries'[k] \in {entries[k], None}
  BY <1>1, <1>2 DEF OrNone
<1>4. \A f \in Flows : Fades(f)
  BY DEF RemoveEntry, Fades, Removed
<1>5. DOMAIN flow' = Flows /\ flow' = [f \in Flows |-> flow'[f]]
  BY DEF RemoveEntry
<1>6. UNCHANGED <<disk, made, stray, lost>> /\ store' = store \ {entries[h].ref}
  BY DEF RemoveEntry
<1>9. registered \subseteq registered' /\ registered' \subseteq made
  BY MayRegisterFacts DEF RemoveEntry
<1>7. ASSUME NEW k \in Hubs \ {h}, entries[k] # None, entries[k].ref # None
      PROVE  entries[k].ref # entries[h].ref
  <2>1. entries[h] # None /\ entries[h].companion \in Companions
    BY <1>1 DEF RemoveEntry, OrNone, Entry
  <2>2. /\ entries[k].ref = entries[k].companion
        /\ entries[h].ref = None \/ entries[h].ref = entries[h].companion
        /\ entries[k].companion # entries[h].companion
    BY <1>7, <2>1 DEF Inv, Whole
  <2> QED
    BY <1>7, <2>2
<1>8. RefStored'
  BY <1>2, <1>6, <1>7 DEF Inv, RefStored, Live
<1> QED
  BY <1>3, <1>4, <1>5, <1>6, <1>8, <1>9, FadeKeeps

\* What is saved is as good as what was in memory.
LEMMA SaveEntriesKeeps ==
  ASSUME Inv, SaveEntries
  PROVE  Inv'
<1>1. disk' = entries /\ UNCHANGED <<flow, entries, store, made, registered, stray, lost>>
  BY DEF SaveEntries
<1>2. TypeOK' /\ FlowsOK' /\ RefStored'
  BY <1>1 DEF Inv, TypeOK, FlowsOK, RefStored, Live
<1>3. /\ Whole(entries, registered)' /\ Whole(disk, registered)'
      /\ Named(entries)' /\ Named(disk)'
  BY <1>1 DEF Inv, Whole, Named
<1>4. Owned' /\ Alone'
  BY <1>1 DEF Inv, Owned, Alone, Live, Open, Repairing
<1>5. Bound'
  BY <1>1 DEF Inv, Bound, Repairing, Exists
<1> QED
  BY <1>2, <1>3, <1>4, <1>5 DEF Inv

\* After a crash only the saved entries are left.
LEMMA CrashKeeps ==
  ASSUME Inv, Crash
  PROVE  Inv'
<1>1. /\ entries' = disk /\ lost' = (lost \/ disk # entries) /\ stray' = {}
      /\ UNCHANGED <<disk, store, made>>
      /\ flow' = [f \in Flows |-> Blank]
  BY DEF Crash
<1>11. registered \subseteq registered' /\ registered' \subseteq made
  BY MayRegisterFacts, RecordFacts DEF Crash, Inv, TypeOK
<1>2. \A f \in Flows : flow'[f] = Blank
  BY <1>1
<1>3. \A f \in Flows : flow'[f] \in FlowRecord /\ FlowOK(flow'[f], registered')
  BY <1>2, BlankFacts
<1>4. flow' \in [Flows -> FlowRecord]
  BY <1>1, BlankFacts
<1>5. TypeOK'
  BY <1>1, <1>4, <1>11 DEF Inv, TypeOK, FlowRecord, Results, Evidence
<1>6. FlowsOK'
  BY <1>3 DEF FlowsOK
<1>7. Whole(entries, registered)' /\ Whole(disk, registered)'
  BY <1>1, <1>11 DEF Inv, Whole
<1>8. Named(entries)' /\ Named(disk)'
  <2>1. \A h \in Hubs : disk[h] # None => disk[h].id # None
    BY ConfigFlowAssumption DEF Inv, TypeOK, Entry, OrNone
  <2> QED
    BY <1>1, <1>2, <2>1, BlankFacts DEF Inv, Named
<1>9. Owned' /\ Alone' /\ Bound'
  BY <1>1, <1>2, BlankFacts DEF Inv, Owned, Alone, Bound, Open, Repairing, Live, Exists
<1>10. RefStored'
  <2>1. CASE disk = entries
    BY <1>1, <2>1 DEF Inv, RefStored, Live, TypeOK
  <2>2. CASE disk # entries
    BY <1>1, <2>2 DEF RefStored
  <2> QED
    BY <2>1, <2>2
<1> QED
  BY <1>5, <1>6, <1>7, <1>8, <1>9, <1>10 DEF Inv

\* A late registration only adds to what Weber's cloud knows.
LEMMA StrayEndsKeeps ==
  ASSUME Inv, NEW c \in Companions, StrayEnds(c)
  PROVE  Inv'
<1>1. /\ stray' \subseteq stray /\ c \in stray
      /\ registered \subseteq registered' /\ registered' \subseteq registered \cup {c}
      /\ UNCHANGED <<flow, entries, disk, store, made, lost>>
  BY DEF StrayEnds
<1>2. TypeOK'
  BY <1>1 DEF Inv, TypeOK
<1>3. FlowsOK'
  BY <1>1, FlowOKGrows DEF Inv, FlowsOK
<1>4. Whole(entries, registered)' /\ Whole(disk, registered)'
  BY <1>1, WholeGrows DEF Inv
<1>5. Named(entries)' /\ Named(disk)'
  BY <1>1 DEF Inv, Named
<1>6. Owned' /\ Alone' /\ Bound' /\ RefStored'
  BY <1>1 DEF Inv, Owned, Alone, Bound, RefStored, Open, Repairing, Live, Exists
<1> QED
  BY <1>2, <1>3, <1>4, <1>5, <1>6 DEF Inv

-----------------------------------------------------------------------------
(* The theorems.                                                           *)

LEMMA InitInv == Init => Inv
<1> SUFFICES ASSUME Init PROVE Inv
  OBVIOUS
<1>1. /\ \A f \in Flows : flow[f] = Blank
      /\ \A h \in Hubs : entries[h] = None /\ disk[h] = None
      /\ disk = entries /\ store = {} /\ made = {} /\ registered = {} /\ stray = {} /\ lost = FALSE
  BY DEF Init
<1>2. flow \in [Flows -> FlowRecord]
  BY BlankFacts DEF Init
<1>3. TypeOK
  BY <1>1, <1>2 DEF Init, TypeOK, FlowRecord, Results, Evidence, OrNone
<1>4. FlowsOK
  BY <1>1, BlankFacts DEF FlowsOK
<1>5. Whole(entries, registered) /\ Whole(disk, registered) /\ Named(entries) /\ Named(disk)
  BY <1>1 DEF Whole, Named
<1>6. Owned /\ Alone /\ Bound /\ RefStored
  BY <1>1, BlankFacts DEF Owned, Alone, Bound, RefStored, Open, Live
<1> QED
  BY <1>3, <1>4, <1>5, <1>6 DEF Inv

LEMMA NextKeeps == Inv /\ [Next]_vars => Inv'
<1> SUFFICES ASSUME Inv, [Next]_vars PROVE Inv'
  OBVIOUS
<1>1. ASSUME NEW f \in Flows, Step(f) PROVE Inv'
  <2>1. CASE BeginUser(f) \/ \E h \in Hubs : Discovered(f, h)
    BY <2>1, BeginKeeps
  <2>2. CASE UserStep(f)
    BY <2>2, UserStepKeeps
  <2>3. CASE StartOver(f) \/ \E h \in Hubs : BeginRepair(f, h)
    BY <2>3, RestartKeeps
  <2>4. CASE Confirm(f)
    BY <2>4, ConfirmKeeps
  <2>5. CASE GattRead(f)
    BY <2>5, GattReadKeeps
  <2>6. CASE Prepared(f)
    BY <2>6, PreparedKeeps
  <2>7. CASE Paired(f)
    BY <2>7, PairedKeeps
  <2>8. CASE CloudDone(f)
    BY <2>8, CloudDoneKeeps
  <2>9. CASE Retry(f)
    BY <2>9, RetryKeeps
  <2>10. CASE Complete(f)
    BY <2>10, CompleteKeeps
  <2>11. CASE Saved(f)
    BY <2>11, SavedKeeps
  <2>12. CASE Retired(f)
    BY <2>12, RetiredKeeps
  <2>13. CASE Close(f)
    BY <2>13, CloseKeeps
  <2> QED
    BY <1>1, <2>1, <2>2, <2>3, <2>4, <2>5, <2>6, <2>7, <2>8, <2>9, <2>10, <2>11, <2>12,
       <2>13 DEF Step
<1>2. ASSUME NEW c \in Companions, StrayEnds(c) PROVE Inv'
  BY <1>2, StrayEndsKeeps
<1>3. ASSUME NEW h \in Hubs, RemoveEntry(h) PROVE Inv'
  BY <1>3, RemoveEntryKeeps
<1>4. CASE SaveEntries
  BY <1>4, SaveEntriesKeeps
<1>5. CASE Crash
  BY <1>5, CrashKeeps
<1>6. CASE UNCHANGED vars
  <2>1. UNCHANGED <<flow, entries, disk, store, made, registered, stray, lost>>
    BY <1>6 DEF vars
  <2>2. TypeOK' /\ FlowsOK'
    BY <2>1 DEF Inv, TypeOK, FlowsOK
  <2>3. /\ Whole(entries, registered)' /\ Whole(disk, registered)'
        /\ Named(entries)' /\ Named(disk)'
    BY <2>1 DEF Inv, Named
  <2>4. Owned' /\ Alone' /\ Bound' /\ RefStored'
    BY <2>1 DEF Inv, Owned, Alone, Bound, RefStored, Open, Repairing, Live, Exists
  <2> QED
    BY <2>2, <2>3, <2>4 DEF Inv
<1> QED
  BY <1>1, <1>2, <1>3, <1>4, <1>5, <1>6 DEF Next

LEMMA Invariance == Spec => []Inv
<1> QED
  BY InitInv, NextKeeps, PTL DEF Spec

\* Every variable keeps its type.
THEOREM TypeCorrect == Spec => []TypeOK
<1>1. Inv => TypeOK
  BY DEF Inv
<1> QED
  BY <1>1, Invariance, PTL

\* An entry, and what a flow presents to its hub, is of one generation of
\* secrets, registered in time: any number of flows and repairs, closed,
\* retried and started over in any order.
THEOREM OneGenerationTrue == Spec => []OneGeneration
<1>1. Inv => OneGeneration
  <2> SUFFICES ASSUME Inv PROVE OneGeneration
    OBVIOUS
  <2>1. \A h \in Hubs : EntryWhole(h)
    BY DEF Inv, Whole, EntryWhole, Live
  <2>2. ASSUME NEW f \in Flows PROVE FlowWhole(f)
    <3>1. FlowOK(flow[f], registered)
      BY DEF Inv, FlowsOK
    <3> QED
      BY <3>1 DEF FlowWhole, FlowOK, Fits, Linked, Presents, Understood, Associating, Qualified
  <2> QED
    BY <2>1, <2>2 DEF OneGeneration
<1> QED
  BY <1>1, Invariance, PTL

\* Until a crash takes the entries back, the record an entry refers to is
\* stored, although closed flows go on removing the records they replaced.
THEOREM RefStoredTrue == Spec => []RefStored
<1>1. Inv => RefStored
  BY DEF Inv
<1> QED
  BY <1>1, Invariance, PTL

\* No two flows in progress are for the same hub.
THEOREM OneFlowPerHubTrue == Spec => []OneFlowPerHub
<1>1. Inv => OneFlowPerHub
  <2> SUFFICES ASSUME Inv, NEW f \in Flows, NEW g \in Flows, f # g, Open(f), Open(g),
                      flow[f].address # None, flow[f].address = flow[g].address
               PROVE  FALSE
    BY DEF OneFlowPerHub
  <2>1. flow[f].uid = flow[f].address /\ flow[g].uid = flow[g].address
    BY DEF Inv, FlowsOK, FlowOK
  <2> QED
    BY <2>1 DEF Inv, Alone
<1> QED
  BY <1>1, Invariance, PTL

\* What a step leaves of the entries: gone, or the same entry of the same appliance.
StaysBound ==
  \A h \in Hubs : Live(h) /\ entries'[h] # None =>
    entries'[h].id = entries[h].id /\ entries'[h].appliance = entries[h].appliance

LEMMA FinishStays ==
  ASSUME Inv, NEW f \in Flows, flow[f].step \in {"complete", "saving"},
         NEW d \in Entry, flow[f].address \in Hubs,
         Repairing(f) /\ Exists(flow[f].entry, flow[f].address) =>
           entries[flow[f].address].appliance = d.appliance,
         Finish(f, d)
  PROVE  StaysBound
<1> DEFINE h == flow[f].address
<1>0. entries \in [Hubs -> OrNone(Entry)]
  BY DEF Inv, TypeOK
<1>1. CASE UNCHANGED entries
  BY <1>1 DEF StaysBound
<1>2. CASE ~Repairing(f) /\ flow[f].alive
  <2>1. entries' = [entries EXCEPT ![h] = d]
    BY <1>2 DEF Finish, CreateEntry
  <2>2. entries[h] = None
    BY <1>2, ConfigFlowAssumption DEF Inv, Alone, Open
  <2> QED
    BY <1>0, <2>1, <2>2 DEF StaysBound, Live
<1>3. CASE Repairing(f) /\ Exists(flow[f].entry, h)
  <2> DEFINE e == [d EXCEPT !.id = entries[h].id,
                            !.ref = IF d.ref = None THEN entries[h].ref ELSE d.ref]
  <2>1. entries' = [entries EXCEPT ![h] = e]
    BY <1>3 DEF Finish, UpdateEntry
  <2>2. e.id = entries[h].id /\ e.appliance = entries[h].appliance
    BY <1>3 DEF Entry
  <2> QED
    BY <1>0, <2>1, <2>2 DEF StaysBound
<1> QED
  BY <1>1, <1>2, <1>3 DEF Finish, CreateEntry, UpdateEntry

LEMMA StepStays ==
  ASSUME Inv, [Next]_vars, ~Crash
  PROVE  StaysBound
<1>1. CASE UNCHANGED entries
  BY <1>1 DEF StaysBound
<1>2. ASSUME NEW f \in Flows, Complete(f) PROVE StaysBound
  <2>1. flow[f].step = "complete" /\ FlowOK(flow[f], registered) /\ flow[f] \in FlowRecord
    BY <1>2, RecordFacts DEF Complete
  <2>2. flow[f].data \in Entry /\ flow[f].address \in Hubs
    BY <2>1, ConfigFlowAssumption DEF FlowOK, Fits, Linked, Presents, Associating, Qualified
  <2>3. CASE UNCHANGED entries
    BY <2>3 DEF StaysBound
  <2>4. CASE /\ Finish(f, flow[f].data)
             /\ Repairing(f) /\ Exists(flow[f].entry, flow[f].address) =>
                  entries[flow[f].address].appliance = flow[f].data.appliance
    BY <2>1, <2>2, <2>4, FinishStays
  <2> QED
    BY <1>2, <2>3, <2>4 DEF Complete
<1>3. ASSUME NEW f \in Flows, Saved(f) PROVE StaysBound
  <2> DEFINE d == [flow[f].data EXCEPT !.ref = flow[f].result.companion]
  <2>1. flow[f].step = "saving" /\ FlowOK(flow[f], registered)
    BY <1>3, RecordFacts DEF Saved
  <2>2. flow[f].data \in Entry /\ flow[f].address \in Hubs /\ flow[f].result \in Results
    BY <2>1, ConfigFlowAssumption DEF FlowOK, Linked, Associating
  <2>3. d \in Entry /\ d.appliance = flow[f].data.appliance
    BY <2>2 DEF Entry, Results
  <2>4. CASE UNCHANGED entries
    BY <2>4 DEF StaysBound
  <2>5. CASE Finish(f, d)
    <3>1. Repairing(f) /\ Exists(flow[f].entry, flow[f].address) =>
            entries[flow[f].address].appliance = d.appliance
      BY <2>1, <2>3 DEF Inv, Bound
    <3> HIDE DEF d
    <3> QED
      BY <2>1, <2>2, <2>3, <2>5, <3>1, FinishStays
  <2> QED
    BY <1>3, <2>4, <2>5 DEF Saved
<1>4. ASSUME NEW h \in Hubs, RemoveEntry(h) PROVE StaysBound
  <2>1. \A k \in Hubs : entries'[k] \in {entries[k], None}
    BY <1>4 DEF RemoveEntry, Inv, TypeOK
  <2> QED
    BY <2>1 DEF StaysBound
<1>5. ASSUME NEW f \in Flows, Step(f), ~Complete(f), ~Saved(f) PROVE UNCHANGED entries
  BY <1>5 DEF Step, BeginUser, UserStep, StartOver, Confirm, GattRead, Prepared, Paired,
     CloudDone, Retry, Retired, Close, Discovered, BeginRepair
<1> QED
  BY <1>1, <1>2, <1>3, <1>4, <1>5 DEF Next, StrayEnds, SaveEntries, vars

\* A finished setup replaces no entry: while it was under way no other flow
\* could make one at its address, and none made before had its name.
THEOREM NeverReplacesTrue == Spec => NeverReplaces
<1>1. Inv /\ [Next]_vars =>
        [\A h \in Hubs : Live(h) /\ entries'[h] # None /\ entries'[h].id # entries[h].id
           => Crash]_vars
  BY StepStays DEF StaysBound
<1> QED
  BY <1>1, Invariance, PTL DEF Spec, NeverReplaces

\* A repair changes an entry only for the appliance it was made for, although
\* the entry may be deleted or made anew between the check and the save; nor does a
\* crash bring back another appliance under the same entry.
THEOREM RepairKeepsApplianceTrue == Spec => RepairKeepsAppliance
<1>1. ASSUME Inv, [Next]_vars, NEW h \in Hubs, Live(h), entries'[h] # None,
             entries'[h].id = entries[h].id
      PROVE  entries'[h].appliance = entries[h].appliance
  <2>1. CASE Crash
    BY <1>1, <2>1 DEF Crash, Inv, Bound, Live
  <2>2. CASE ~Crash
    BY <1>1, <2>2, StepStays DEF StaysBound
  <2> QED
    BY <2>1, <2>2
<1>2. Inv /\ [Next]_vars =>
        [\A h \in Hubs : Live(h) /\ entries'[h] # None /\ entries'[h].id = entries[h].id
           => entries'[h].appliance = entries[h].appliance]_vars
  BY <1>1
<1> QED
  BY <1>2, Invariance, PTL DEF Spec, RepairKeepsAppliance

=============================================================================
