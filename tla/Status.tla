--------------------------------- MODULE Status ---------------------------------
(***************************************************************************)
(* From the records of a message to what Home Assistant shows: the readers *)
(* of saber_frames.py and capabilities.py over what parse_tlv found, and   *)
(* normalize_state of state.py over what they return.                      *)
(*                                                                         *)
(* Python's None is the empty sequence, a value v is <<v>>.  Enumerations  *)
(* stay their codes, Unlisted where the code's table has no name for one;  *)
(* temperatures are in tenths of a degree Celsius.  Of the fields that are *)
(* read in the same way, one of each kind is kept.                         *)
(***************************************************************************)
EXTENDS Framing

Unlisted == 256
MaxSlots == 16
Opt(v) == <<v>>

\* Where the records of a tag are; whether there is one of them only.
At(records, t) == {i \in DOMAIN records : records[i].tag = t}
Once(records, t) == \E i \in DOMAIN records : At(records, t) = {i}

\* _last: the bytes of the last record of a tag.
Latest(I) == CHOOSE i \in I : \A j \in I : j <= i
Last(records, t) ==
  IF At(records, t) = {} THEN <<>> ELSE records[Latest(At(records, t))].value

\* _u8, and _i16, _u16, _i32, _u32 with their widths.
U8(v) == IF v = <<>> THEN <<>> ELSE Opt(v[1])
Wide(v, width, signed) ==
  IF Len(v) < width THEN <<>> ELSE Opt(FromBytes(SubSeq(v, 1, width), signed))

\* Python's or: 0 and None give way.
Or(a, b) == IF a \in {<<>>, <<0>>} THEN b ELSE a
\* _lookup names what is not there, too; _optional_lookup does not.
LookedUp(v, codes) == IF v # <<>> /\ v[1] \in codes THEN v ELSE Opt(Unlisted)
Named(v, codes) == IF v = <<>> \/ v[1] \in codes THEN v ELSE Opt(Unlisted)

\* Mutant: the code for a sensor that has no reading is shown as one.
TemperatureRaw(v) == v
\* _dc_temperature: of a sensor that has no reading, none.
NoReading == -32768
Temperature(v) == IF v = Opt(NoReading) THEN <<>> ELSE v
\* _idealized_level.
Level(v, stops) == IF v = <<>> THEN v ELSE Opt((v[1] * stops) \div 256 + 1)
Flag(v) == IF v = <<>> THEN v ELSE Opt(v[1] > 0)
OneBased(v) == IF v = <<>> THEN v ELSE Opt(v[1] + 1)

-----------------------------------------------------------------------------
(* The rows nested in a cook status.                                       *)

\* parse_probe_session_status_tlv.
ProbeRow(f) ==
  [number    |-> OneBased(U8(Last(f, 1))),
   state     |-> LookedUp(U8(Last(f, 12)), 0..10),
   type      |-> LookedUp(Or(U8(Last(f, 19)), U8(Last(f, 4))), 0..3),
   remaining |-> Wide(Last(f, 5), 4, FALSE),
   battery   |-> U8(Last(f, 22)),
   temp      |-> Temperature(Wide(Last(f, 10), 2, TRUE)),
   ambient   |-> Temperature(Wide(Last(f, 25), 2, TRUE))]

\* parse_timed_session_status_tlv, parse_timer_session_status_tlv.
TimerRow(f) ==
  [number    |-> OneBased(U8(Last(f, 1))),
   state     |-> LookedUp(U8(Last(f, 12)), 0..10),
   remaining |-> Wide(Last(f, 5), 4, FALSE)]

\* parse_burner_status_tlv: sear stations have two stops.
BurnerRow(f) ==
  LET type == U8(Last(f, 2)) IN
  [number |-> OneBased(U8(Last(f, 1))),
   type   |-> Named(type, 0..14),
   state  |-> Named(U8(Last(f, 3)), 0..3),
   target |-> Level(U8(Last(f, 4)), IF type \in {<<7>>, <<13>>, <<14>>} THEN 2 ELSE 10),
   flame  |-> Flag(U8(Last(f, 6)))]

RowOf(tag, f) ==
  CASE tag = 4 -> ProbeRow(f)
    [] tag \in {5, 6} -> TimerRow(f)
    [] tag = 7 -> BurnerRow(f)

\* The records that nest a row.
Nested(records) == {i \in DOMAIN records : records[i].tag \in 4..7}

\* parse_cook_session_status_payload: rows are those of the nested records,
\* by place and with their tag.  A whole-degree display temperature replaces
\* the other.
CookStatus(f, rows) ==
  [actual    |-> Temperature(Wide(Last(f, 13), 2, TRUE)),
   display   |-> LET whole == Wide(Last(f, 15), 2, TRUE) IN
                 IF whole = <<>> THEN Temperature(Wide(Last(f, 2), 2, TRUE))
                                 ELSE Opt(10 * whole[1]),
   target    |-> Temperature(Wide(Last(f, 1), 2, TRUE)),
   mode      |-> Named(U8(Last(f, 3)), 0..10),
   intensity |-> Level(U8(Last(f, 11)), 10),
   rows      |-> rows]

-----------------------------------------------------------------------------
(* The hub's own status and its capabilities.                              *)

\* A fuel field counts if it is there once and is one byte long.
Single(f, t) == IF Once(f, t) /\ Len(Last(f, t)) = 1 THEN Last(f, t) ELSE <<>>
Percent(v) == IF v # <<>> /\ v[1] \in 0..100 THEN v ELSE <<>>

\* Mutant: a fuel field is read however often it is there.
ApplianceStatusAnyFuel(f) ==
  [battery      |-> U8(Last(f, 1)),
   charging     |-> LET c == U8(Last(f, 2)) IN IF c = <<>> THEN c ELSE Opt(c[1] = 1),
   wifi         |-> Wide(Last(f, 10), 4, TRUE),
   device       |-> Named(U8(Last(f, 17)), 0..3),
   fuel_level   |-> Named(U8(Last(f, 20)), 0..5),
   fuel_percent |-> Percent(U8(Last(f, 27)))]

\* parse_appliance_status_payload, and what the session keeps of its fuel.
ApplianceStatus(f) ==
  [battery      |-> U8(Last(f, 1)),
   charging     |-> LET c == U8(Last(f, 2)) IN IF c = <<>> THEN c ELSE Opt(c[1] = 1),
   wifi         |-> Wide(Last(f, 10), 4, TRUE),
   device       |-> Named(U8(Last(f, 17)), 0..3),
   fuel_level   |-> Named(Single(f, 20), 0..5),
   fuel_percent |-> Percent(Single(f, 27))]

\* Only what a frame reports replaces what an earlier one reported.
Merged(cache, status) ==
  [k \in DOMAIN status |-> IF status[k] = <<>> THEN cache[k] ELSE status[k]]

CapabilityWidth ==
  [t \in {1, 2, 6, 8, 9, 12, 21, 22, 23, 24} |->
     IF t \in {8, 9, 21} THEN 8 ELSE IF t = 22 THEN 4 ELSE 1]

\* Mutant: a repeated capability is read like any other field.
CapabilitiesRepeated(f, tail) ==
  IF \/ tail # <<>>
     \/ \E i \in DOMAIN f : f[i].tag \in DOMAIN CapabilityWidth
                            /\ Len(f[i].value) # CapabilityWidth[f[i].tag]
  THEN Refused
  ELSE [ok |-> TRUE,
        value |-> [t \in DOMAIN CapabilityWidth \cap {f[i].tag : i \in DOMAIN f} |->
                     Unsigned(Last(f, t))]]

\* parse_capabilities: all of them, or an error.
Capabilities(f, tail) ==
  LET seen == DOMAIN CapabilityWidth \cap {f[i].tag : i \in DOMAIN f} IN
  IF \/ tail # <<>>
     \/ \E t \in seen : ~Once(f, t) \/ Len(Last(f, t)) # CapabilityWidth[t]
  THEN Refused
  ELSE [ok |-> TRUE, value |-> [t \in seen |-> Unsigned(Last(f, t))]]

-----------------------------------------------------------------------------
(* normalize_state, connected.                                             *)

ActiveSessionStates == {3, 4, 5, 6, 9, 10}
ActiveCookModes == 1..10

\* The rows of a tag with a usable number, the first of each number.
FirstRows(rows, t, limit) ==
  LET tagged == {i \in DOMAIN rows : rows[i].tag = t}
      number(i) == rows[i].row.number
  IN  {rows[i].row : i \in {j \in tagged :
         /\ number(j) # <<>> /\ number(j)[1] <= limit
         /\ \A k \in tagged : k < j => number(k) # number(j)}}

Normalize(cook, appliance) ==
  LET probes == FirstRows(cook.rows, 4, MaxSlots)
      timed == FirstRows(cook.rows, 5, MaxSlots)
      timers == FirstRows(cook.rows, 6, MaxSlots)
      burners == FirstRows(cook.rows, 7, MaxSlots)
      sessions == probes \cup timed \cup timers
      holding == /\ appliance.device = Opt(1)
                 /\ cook.mode # <<>> /\ cook.mode[1] \in ActiveCookModes
  IN
  [grill     |-> IF cook.actual # <<>> THEN cook.actual ELSE cook.display,
   target    |-> cook.target,
   mode      |-> cook.mode,
   intensity |-> IF cook.intensity # <<>> /\ cook.intensity[1] \in 1..10
                   THEN cook.intensity ELSE <<>>,
   hub       |-> [appliance EXCEPT !.battery = Percent(@)],
   probes    |-> probes, timed |-> timed, timers |-> timers, burners |-> burners,
   cooking   |->
     IF sessions = {} /\ burners = {} /\ cook.mode = <<>> THEN <<>>
     ELSE Opt(\/ \E r \in probes : r.state # <<>> /\ r.state[1] \in ActiveSessionStates
              \/ \E r \in timed \cup timers : r.state # <<>> /\ r.state[1] \in ActiveSessionStates
              \/ \E r \in burners : r.state # <<>> /\ r.state[1] \in {2, 3}
              \/ holding)]

=============================================================================
