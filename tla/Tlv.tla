---------------------------------- MODULE Tlv ----------------------------------
(***************************************************************************)
(* parse_tlv (saber_frames.py): the scan of a message body into one-byte   *)
(* tag, one-byte length records.  Every payload of the hub, over Bluetooth *)
(* or the cloud, goes through it.  One action per way through the loop.    *)
(*                                                                         *)
(* The dictionary of the code is kept as the list of its records in the    *)
(* order found, and the entry it makes under the tag -1 as the tail, empty *)
(* where the code makes none.                                              *)
(***************************************************************************)
EXTENDS Integers, Sequences

S == INSTANCE SequencesExt

CONSTANT MaxRecords         \* MAX_TLV_RECORDS

Byte == 0..255

ASSUME TlvAssumption == MaxRecords \in Nat

VARIABLES
  payload,
  index,        \* as in the code: the bytes read so far
  found,        \* the records of fields, oldest first; its length is records
  tail,         \* fields[-1]
  scanning

tlvVars == <<payload, index, found, tail, scanning>>

\* parse_tlv(p) is called.
Start(p) ==
  /\ payload' = p /\ index' = 0 /\ found' = <<>> /\ tail' = <<>> /\ scanning' = TRUE

Rest == SubSeq(payload, index + 1, Len(payload))
Header == index + 2 <= Len(payload)
End == index + 2 + payload[index + 2]

\* The loop is left: what is not consumed becomes the tail.
Leave ==
  /\ tail' = Rest /\ scanning' = FALSE
  /\ UNCHANGED <<payload, index, found>>

\* Mutant: the last record may lack its last byte.
TakeShort ==
  /\ scanning /\ Header /\ Len(found) < MaxRecords /\ End <= Len(payload) + 1
  /\ found' = Append(found, [tag   |-> payload[index + 1],
                             value |-> IF End <= Len(payload) THEN SubSeq(payload, index + 3, End)
                                                              ELSE SubSeq(payload, index + 3, End - 1)])
  /\ index' = End
  /\ UNCHANGED <<payload, tail, scanning>>

\* One more record.
Take ==
  /\ scanning /\ Header /\ Len(found) < MaxRecords /\ End <= Len(payload)
  /\ found' = Append(found, [tag   |-> payload[index + 1],
                             value |-> SubSeq(payload, index + 3, End)])
  /\ index' = End
  /\ UNCHANGED <<payload, tail, scanning>>

\* More records than the code takes.
Excess == scanning /\ Header /\ Len(found) >= MaxRecords /\ Leave

\* A record runs past the end.
Overrun == scanning /\ Header /\ Len(found) < MaxRecords /\ End > Len(payload) /\ Leave

\* No further header: the end, or half a header.
Finish == scanning /\ ~Header /\ Leave

Scan == Take \/ Excess \/ Overrun \/ Finish

\* The scans of one payload after another.
Begin == payload = <<>> /\ index = 0 /\ found = <<>> /\ tail = <<>> /\ scanning = FALSE
TlvSpec == Begin /\ [][Scan \/ \E p \in Seq(Byte) : Start(p)]_tlvVars

-----------------------------------------------------------------------------
(* What a scan promises.                                                   *)

\* Records laid out one after the other, as the hub writes them.
Laid(r) == <<r.tag, Len(r.value)>> \o r.value
Bytes(records) == S!FlattenSeq([i \in DOMAIN records |-> Laid(records[i])])

\* Where record i begins, if at says where each record ends.
Begins(at, i) == IF i = 1 THEN 0 ELSE at[i - 1]

\* The payload cut into n records that end at the positions at.
Cut(p, n, at) ==
  /\ Begins(at, n + 1) = Len(p)
  /\ \A i \in 1..n : /\ Begins(at, i) + 2 <= Len(p)
                     /\ at[i] = Begins(at, i) + 2 + p[Begins(at, i) + 2]

\* Where a byte of the payload, read as a length, would end a record.
Ends(p) == {i + p[i] : i \in 2..Len(p)} \cap 0..Len(p)

\* The payload is some number of whole records, within the limit.
WellFormed(p) ==
  \E n \in 0..MaxRecords : \E at \in [1..n -> Ends(p)] : Cut(p, n, at)

\* A cut of what has been read into the records found: they are the bytes
\* of the payload, in order, nothing skipped and nothing read twice.
Tiles(at) ==
  /\ Begins(at, Len(found) + 1) = index
  /\ \A i \in 1..Len(found) :
       LET from == Begins(at, i) IN
       /\ from + 2 <= Len(payload)
       /\ at[i] = from + 2 + payload[from + 2]
       /\ found[i] = [tag   |-> payload[from + 1],
                      value |-> SubSeq(payload, from + 3, at[i])]

\* Every record reported is a record of the payload.
RecordsTile == \E at \in [1..Len(found) -> 0..Len(payload)] : Tiles(at)

\* A finished scan reports a tail exactly when the payload is not well
\* formed: no truncated, overlong or excessive message passes for a whole
\* one, and no whole message is refused.
TailIffMalformed == ~scanning => (tail = <<>> <=> WellFormed(payload))

=============================================================================
