------------------------------- MODULE CodecProofs -------------------------------
(***************************************************************************)
(* Proofs about the codecs, for every message: the scan of Tlv for every   *)
(* payload and every limit on the records; the checksum, the numbers and   *)
(* the frames of Framing; and what the scan finds in a list of records     *)
(* laid out and cut anywhere.                                              *)
(*                                                                         *)
(* Whether a payload is well formed is a matter of cuts of all of it; the  *)
(* strengthening of the scan's invariant says where a scan stands in any   *)
(* such cut.                                                               *)
(***************************************************************************)
EXTENDS Tlv, Framing, SequenceTheorems, WellFoundedInduction, TLAPS

Records == [tag : Byte, value : Seq(Byte)]

TlvTypeOK ==
  /\ payload \in Seq(Byte) /\ tail \in Seq(Byte) /\ scanning \in BOOLEAN
  /\ found \in Seq(Records) /\ Len(found) <= MaxRecords
  /\ index \in 0..Len(payload)

\* Any cut of the payload has the records found, and goes on where the scan
\* stands.
InEveryCut ==
  \A n \in 0..MaxRecords : \A at \in [1..n -> 0..Len(payload)] :
    Cut(payload, n, at) => Len(found) <= n /\ Begins(at, Len(found) + 1) = index

\* A scan that has stopped could not have gone on.
Stopped ==
  ~scanning =>
    /\ tail = <<>> <=> index = Len(payload)
    /\ index < Len(payload) =>
         index + 2 > Len(payload) \/ Len(found) >= MaxRecords \/ End > Len(payload)

TlvInv == TlvTypeOK /\ RecordsTile /\ InEveryCut /\ Stopped

-----------------------------------------------------------------------------
\* What is cut off the end of a sequence.
LEMMA RestType ==
  ASSUME TlvTypeOK PROVE Rest \in Seq(Byte) /\ (Rest = <<>> <=> index = Len(payload))
<1>1. index \in Nat /\ Len(payload) \in Nat /\ index <= Len(payload)
  BY LenProperties DEF TlvTypeOK
<1>2. /\ Rest \in Seq(Byte)
      /\ Len(Rest) = IF index + 1 <= Len(payload) THEN Len(payload) - index ELSE 0
  BY <1>1, SubSeqProperties DEF TlvTypeOK, Rest
<1>3. Rest = <<>> <=> Len(Rest) = 0
  BY <1>2, EmptySeq
<1> QED
  BY <1>1, <1>2, <1>3

\* A scan that starts has found nothing,
LEMMA StartInv ==
  ASSUME NEW p \in Seq(Byte),
         payload' = p, index' = 0, found' = <<>>, tail' = <<>>,
         scanning' \in BOOLEAN, ~scanning' => p = <<>>
  PROVE  TlvInv'
<1>1. Len(p) \in Nat /\ Len(found') = 0 /\ (p = <<>> <=> Len(p) = 0)
  BY LenProperties, EmptySeq
<1>2. TlvTypeOK'
  BY <1>1, TlvAssumption DEF TlvTypeOK
<1>3. RecordsTile'
  <2> DEFINE at == [i \in 1..0 |-> 0]
  <2>1. at \in [1..Len(found') -> 0..Len(payload')]
    BY <1>1
  <2>2. Tiles(at)'
    BY <1>1, <2>1 DEF Tiles, Begins
  <2> QED
    BY <2>1, <2>2 DEF RecordsTile
<1>4. InEveryCut'
  BY <1>1 DEF InEveryCut, Cut, Begins
<1>5. Stopped'
  BY <1>1 DEF Stopped
<1> QED
  BY <1>2, <1>3, <1>4, <1>5 DEF TlvInv

\* one that stops could not have gone on,
LEMMA LeaveInv ==
  ASSUME TlvInv, Leave,
         index < Len(payload) =>
           index + 2 > Len(payload) \/ Len(found) >= MaxRecords \/ End > Len(payload)
  PROVE  TlvInv'
<1> USE DEF TlvInv, Leave
<1>1. TlvTypeOK'
  BY RestType DEF TlvTypeOK
<1>2. RecordsTile' /\ InEveryCut'
  BY DEF RecordsTile, Tiles, Begins, InEveryCut
<1>3. Stopped'
  BY RestType DEF Stopped, End
<1> QED
  BY <1>1, <1>2, <1>3

\* and one that goes on has read one record more.
LEMMA TakeInv == ASSUME TlvInv, Take PROVE TlvInv'
<1> DEFINE k == Len(found)
           r == [tag |-> payload[index + 1], value |-> SubSeq(payload, index + 3, End)]
<1>1. /\ k \in Nat /\ Len(payload) \in Nat /\ index \in Nat /\ index + 2 <= Len(payload)
      /\ payload[index + 1] \in Byte /\ payload[index + 2] \in Byte
      /\ End \in Nat /\ index + 2 <= End /\ End <= Len(payload) /\ k < MaxRecords
  <2>1. k \in Nat /\ Len(payload) \in Nat /\ index \in Nat /\ index + 2 <= Len(payload)
    BY LenProperties DEF TlvInv, TlvTypeOK, Take, Header
  <2>2. payload[index + 1] \in Byte /\ payload[index + 2] \in Byte
    BY <2>1, ElementOfSeq DEF TlvInv, TlvTypeOK
  <2>3. payload[index + 2] \in Nat
    BY <2>2 DEF Byte
  <2>4. End <= Len(payload) /\ k < MaxRecords
    BY DEF Take
  <2>5. End \in Nat /\ index + 2 <= End
    BY <2>1, <2>3 DEF End
  <2> QED
    BY <2>1, <2>2, <2>4, <2>5
<1>2. r \in Records
  BY <1>1, SubSeqProperties DEF Records, TlvInv, TlvTypeOK
<1>3. /\ found' \in Seq(Records) /\ Len(found') = k + 1 /\ found'[k + 1] = r
      /\ \A i \in 1..k : found'[i] = found[i]
  BY <1>2, AppendProperties DEF Take, TlvInv, TlvTypeOK
<1>4. payload' = payload /\ index' = End /\ tail' = tail /\ scanning /\ scanning'
  BY DEF Take
<1>5. TlvTypeOK'
  BY <1>1, <1>3, <1>4, TlvAssumption DEF TlvInv, TlvTypeOK
<1>6. RecordsTile'
  <2>1. PICK at \in [1..k -> 0..Len(payload)] : Tiles(at)
    BY DEF TlvInv, RecordsTile
  <2>0. PICK e \in Nat, m \in Nat : e = End /\ m = k + 1
    BY <1>1
  <2> DEFINE more == [i \in 1..m |-> IF i = m THEN e ELSE at[i]]
  <2>2. more \in [1..Len(found') -> 0..Len(payload')]
    <3>1. ASSUME NEW i \in 1..m PROVE more[i] \in 0..Len(payload)
      <4>1. CASE i = m
        BY <1>1, <2>0, <4>1
      <4>2. CASE i # m
        <5>1. i \in 1..k
          BY <1>1, <2>0, <4>2
        <5> QED
          BY <4>2, <5>1
      <4> QED
        BY <4>1, <4>2
    <3>2. more \in [1..m -> 0..Len(payload)]
      BY <3>1
    <3>3. m = Len(found') /\ payload' = payload
      BY <1>3, <1>4, <2>0
    <3> HIDE DEF more
    <3> QED
      BY <3>2, <3>3
  <2>3. more[m] = index' /\ Begins(more, m + 1) = index' /\ Begins(more, m) = index
    <3>1. m \in Nat /\ m = k + 1 /\ k \in Nat /\ (m + 1) - 1 = m /\ m + 1 # 1 /\ m \in 1..m
      BY <1>1, <2>0
    <3>2. more[m] = index'
      BY <1>4, <2>0, <3>1
    <3>3. Begins(more, m + 1) = more[m]
      BY <3>1 DEF Begins
    <3>4. Begins(at, m) = index
      BY <2>1, <3>1 DEF Tiles
    <3>5. ASSUME m # 1 PROVE more[m - 1] = at[m - 1]
      BY <3>1, <3>5
    <3>6. Begins(more, m) = Begins(at, m)
      <4> HIDE DEF more
      <4> QED
        BY <3>5 DEF Begins
    <3> QED
      BY <3>2, <3>3, <3>4, <3>6
  <2>4. ASSUME NEW i \in 1..m
        PROVE  /\ Begins(more, i) + 2 <= Len(payload)
               /\ more[i] = Begins(more, i) + 2 + payload[Begins(more, i) + 2]
               /\ found'[i] = [tag   |-> payload[Begins(more, i) + 1],
                               value |-> SubSeq(payload, Begins(more, i) + 3, more[i])]
    <3>1. CASE i = m
      <4>1. Begins(more, i) = index /\ more[i] = End /\ found'[i] = r
        BY <1>1, <1>3, <1>4, <2>0, <2>3, <3>1
      <4>2. End = index + 2 + payload[index + 2]
        BY DEF End
      <4> HIDE DEF more
      <4> QED
        BY <1>1, <4>1, <4>2
    <3>2. CASE i \in 1..k
      <4>1. Begins(more, i) = Begins(at, i) /\ more[i] = at[i]
        BY <1>1, <2>0, <3>2 DEF Begins
      <4> HIDE DEF more
      <4> QED
        BY <1>3, <2>1, <3>2, <4>1 DEF Tiles
    <3> QED
      BY <1>1, <2>0, <3>1, <3>2
  <2>5. Tiles(more)'
    <3>0. m = Len(found') /\ payload' = payload
      BY <1>3, <1>4, <2>0
    <3> HIDE DEF more, k
    <3>1. /\ \A i \in 1..Len(found') :
               /\ Begins(more, i) + 2 <= Len(payload')
               /\ more[i] = Begins(more, i) + 2 + payload'[Begins(more, i) + 2]
               /\ found'[i] = [tag   |-> payload'[Begins(more, i) + 1],
                               value |-> SubSeq(payload', Begins(more, i) + 3, more[i])]
      BY <3>0, <2>4
    <3> QED
      BY <3>0, <2>3, <3>1 DEF Tiles
  <2> QED
    BY <2>2, <2>5 DEF RecordsTile
<1>7. InEveryCut'
  <2> SUFFICES ASSUME NEW n \in 0..MaxRecords, NEW at \in [1..n -> 0..Len(payload)],
                      Cut(payload, n, at)
               PROVE  k + 1 <= n /\ Begins(at, (k + 1) + 1) = End
    BY <1>3, <1>4 DEF InEveryCut
  <2>1. k <= n /\ Begins(at, k + 1) = index
    BY DEF TlvInv, InEveryCut
  <2>2. k # n
    BY <1>1, <2>1 DEF Cut, Begins
  <2>3. k + 1 \in 1..n
    BY <1>1, <2>1, <2>2, TlvAssumption
  <2>4. at[k + 1] = index + 2 + payload[index + 2]
    BY <2>1, <2>3 DEF Cut, Begins
  <2> QED
    BY <1>1, <2>3, <2>4 DEF End, Begins
<1>8. Stopped'
  BY <1>4 DEF Stopped
<1> QED
  BY <1>5, <1>6, <1>7, <1>8 DEF TlvInv

\* The first scan has not begun.
LEMMA BeginInv == Begin => TlvInv
<1> SUFFICES ASSUME Begin PROVE TlvInv
  OBVIOUS
<1>1. Len(payload) = 0 /\ Len(found) = 0
  BY DEF Begin
<1>2. RecordsTile
  <2> DEFINE at == [i \in 1..0 |-> 0]
  <2>1. at \in [1..Len(found) -> 0..Len(payload)] /\ Tiles(at)
    BY <1>1 DEF Begin, Tiles, Begins
  <2> QED
    BY <2>1 DEF RecordsTile
<1>3. TlvTypeOK
  <2>1. payload \in Seq(Byte) /\ tail \in Seq(Byte) /\ found \in Seq(Records)
    BY DEF Begin
  <2>2. Len(found) <= MaxRecords /\ index \in 0..Len(payload)
    BY <1>1, TlvAssumption DEF Begin
  <2>3. scanning \in BOOLEAN
    BY DEF Begin
  <2> QED
    BY <2>1, <2>2, <2>3 DEF TlvTypeOK
<1>4. InEveryCut
  BY <1>1 DEF Begin, InEveryCut, Cut, Begins
<1>5. Stopped
  BY <1>1 DEF Begin, Stopped
<1> QED
  BY <1>2, <1>3, <1>4, <1>5 DEF TlvInv

\* A turn of the loop keeps the invariant,
LEMMA ScanKeeps == TlvInv /\ Scan => TlvInv'
<1> SUFFICES ASSUME TlvInv, Scan PROVE TlvInv'
  OBVIOUS
<1>1. CASE Take
  BY <1>1, TakeInv
<1>2. CASE Excess
  BY <1>2, LeaveInv DEF Excess
<1>3. CASE Overrun
  BY <1>3, LeaveInv DEF Overrun
<1>4. CASE Finish
  <2>1. index + 2 > Len(payload)
    BY <1>4, LenProperties DEF Finish, Header, TlvInv, TlvTypeOK
  <2> QED
    BY <1>4, <2>1, LeaveInv DEF Finish
<1> QED
  BY <1>1, <1>2, <1>3, <1>4 DEF Scan

\* and so does a step that is none.
LEMMA RestKeeps == TlvInv /\ UNCHANGED tlvVars => TlvInv'
<1> SUFFICES ASSUME TlvInv, UNCHANGED tlvVars PROVE TlvInv'
  OBVIOUS
<1> QED
  BY DEF TlvInv, TlvTypeOK, RecordsTile, Tiles, Begins, InEveryCut, Stopped, End, tlvVars

\* Type correctness and the scan's invariant.
THEOREM TlvInvariant == TlvSpec => []TlvInv
<1>1. TlvInv /\ [Scan \/ \E p \in Seq(Byte) : Start(p)]_tlvVars => TlvInv'
  <2> SUFFICES ASSUME TlvInv, [Scan \/ \E p \in Seq(Byte) : Start(p)]_tlvVars PROVE TlvInv'
    OBVIOUS
  <2>1. CASE \E p \in Seq(Byte) : Start(p)
    BY <2>1, StartInv DEF Start
  <2> QED
    BY <2>1, ScanKeeps, RestKeeps
<1> QED
  BY <1>1, BeginInv, PTL DEF TlvSpec

\* A scan never reports a record the payload does not hold.
THEOREM RecordsReal == TlvSpec => []RecordsTile
BY TlvInvariant, PTL DEF TlvInv

\* A scan that has stopped tells a malformed payload by its tail.
LEMMA TailOf == TlvInv => TailIffMalformed
<1> SUFFICES ASSUME TlvInv, ~scanning PROVE tail = <<>> <=> WellFormed(payload)
  BY DEF TailIffMalformed
<1>0. Len(found) \in Nat /\ Len(payload) \in Nat /\ index \in 0..Len(payload)
  BY LenProperties DEF TlvInv, TlvTypeOK
<1>1. ASSUME tail = <<>> PROVE WellFormed(payload)
  <2>1. index = Len(payload)
    BY <1>1 DEF TlvInv, Stopped
  <2>2. PICK at \in [1..Len(found) -> 0..Len(payload)] : Tiles(at)
    BY DEF TlvInv, RecordsTile
  <2>3. Cut(payload, Len(found), at)
    BY <2>1, <2>2 DEF Cut, Tiles
  <2>4. Len(found) \in 0..MaxRecords
    BY <1>0 DEF TlvInv, TlvTypeOK
  <2>5. ASSUME NEW i \in 1..Len(found) PROVE at[i] \in Ends(payload)
    <3> DEFINE b == Begins(at, i)
    <3>1. b \in 0..Len(payload)
      BY <1>0, <2>2 DEF Begins
    <3>2. b + 2 <= Len(payload) /\ at[i] = (b + 2) + payload[b + 2]
      BY <2>2 DEF Tiles
    <3>3. b + 2 \in 2..Len(payload)
      BY <1>0, <3>1, <3>2
    <3> HIDE DEF b
    <3> QED
      BY <2>2, <3>2, <3>3 DEF Ends
  <2>6. at \in [1..Len(found) -> Ends(payload)]
    BY <2>2, <2>5
  <2> QED
    BY <2>3, <2>4, <2>6 DEF WellFormed
<1>2. ASSUME tail # <<>>, WellFormed(payload) PROVE FALSE
  <2>1. index < Len(payload)
    BY <1>0, <1>2 DEF TlvInv, Stopped
  <2>2. PICK n \in 0..MaxRecords : \E at \in [1..n -> Ends(payload)] : Cut(payload, n, at)
    BY <1>2 DEF WellFormed
  <2>3. PICK at \in [1..n -> 0..Len(payload)] : Cut(payload, n, at)
    BY <2>2 DEF Ends
  <2>4. Len(found) <= n /\ Begins(at, Len(found) + 1) = index
    BY <2>3 DEF TlvInv, InEveryCut
  <2>5. Len(found) < n
    BY <1>0, <2>1, <2>3, <2>4 DEF Cut
  <2>6. index + 2 <= Len(payload) /\ at[Len(found) + 1] = End /\ End <= Len(payload)
    <3>1. Len(found) + 1 \in 1..n /\ n \in Nat
      BY <1>0, <2>5
    <3>2. at[Len(found) + 1] \in 0..Len(payload)
      BY <3>1
    <3>3. /\ index + 2 <= Len(payload)
          /\ at[Len(found) + 1] = index + 2 + payload[index + 2]
      BY <2>3, <2>4, <3>1 DEF Cut
    <3> QED
      BY <1>0, <3>2, <3>3 DEF End
  <2> QED
    BY <1>0, <2>1, <2>5, <2>6, TlvAssumption DEF TlvInv, Stopped
<1> QED
  BY <1>1, <1>2

\* Whatever the payload and the limit, malformed and tail are the same.
THEOREM MalformedIsMarked == TlvSpec => []TailIffMalformed
BY TailOf, TlvInvariant, PTL

-----------------------------------------------------------------------------
(* Induction over the naturals, without an operator as a parameter.        *)

\* Any set of naturals has a least element.
LEMMA Least ==
  ASSUME NEW T \in SUBSET Nat, T # {}
  PROVE  \E x \in T : \A y \in T : x <= y
<1>1. PICK x \in T : \A y \in T : ~ (<<y, x>> \in OpToRel(<, Nat))
  BY NatLessThanWellFounded, WFMin
<1>2. \A y \in T : ~(y < x)
  BY <1>1 DEF OpToRel
<1> QED
  BY <1>2

\* What holds of 0 and of every successor holds of all up to n.
LEMMA UpTo ==
  ASSUME NEW n \in Nat, NEW T, 0 \in T, \A i \in 0..(n - 1) : i \in T => i + 1 \in T
  PROVE  \A i \in 0..n : i \in T
<1> SUFFICES ASSUME NEW k \in 0..n, k \notin T PROVE FALSE
  OBVIOUS
<1> DEFINE U == (0..n) \ T
<1>1. U \in SUBSET Nat /\ U # {}
  OBVIOUS
<1>2. PICK x \in U : \A y \in U : x <= y
  <2> HIDE DEF U
  <2> QED
    BY <1>1, Least
<1>3. x # 0 /\ x - 1 \in 0..(n - 1)
  BY <1>2
<1>4. x - 1 \in T
  BY <1>2, <1>3
<1> QED
  BY <1>2, <1>3, <1>4

\* The last of a set of places.
LEMMA Greatest ==
  ASSUME NEW n \in Nat, NEW I \in SUBSET (1..n), I # {}
  PROVE  \E i \in I : \A j \in I : j <= i
<1> DEFINE T == {n - i : i \in I}
<1>1. T \in SUBSET Nat /\ T # {}
  <2>1. \A i \in I : i \in Int /\ n - i \in Nat
    OBVIOUS
  <2> QED
    BY <2>1
<1>2. PICK x \in T : \A y \in T : x <= y
  <2> HIDE DEF T
  <2> QED
    BY <1>1, Least
<1>3. PICK i \in I : x = n - i
  BY <1>2
<1>4. ASSUME NEW j \in I PROVE j <= i
  <2>1. n - j \in T
    OBVIOUS
  <2> HIDE DEF T
  <2>2. i \in 1..n /\ j \in 1..n
    OBVIOUS
  <2>3. n - i <= n - j
    BY <1>2, <1>3, <2>1
  <2> QED
    BY <2>2, <2>3
<1> QED
  BY <1>4

\* A function defined by recursion up to n exists.
Steps(n, R) == [1..n -> [R -> R]]
Iterates(g, n, R, c, step) ==
  g \in [0..n -> R] /\ g[0] = c /\ \A i \in 1..n : g[i] = step[i][g[i - 1]]

\* A function given by its first value and its steps exists.
LEMMA Recursion ==
  ASSUME NEW n \in Nat, NEW R, NEW c \in R, NEW step \in Steps(n, R)
  PROVE  \E g : Iterates(g, n, R, c, step)
<1> DEFINE T == {k \in 0..n : \E g \in [0..k -> R] :
                    g[0] = c /\ \A i \in 1..k : g[i] = step[i][g[i - 1]]}
<1>0. step \in [1..n -> [R -> R]]
  BY DEF Steps
<1>1. 0 \in T
  <2> DEFINE g == [i \in 0..0 |-> c]
  <2>1. g \in [0..0 -> R] /\ g[0] = c /\ \A i \in 1..0 : g[i] = step[i][g[i - 1]]
    OBVIOUS
  <2>2. 0 \in 0..n
    OBVIOUS
  <2> HIDE DEF g
  <2> QED
    BY <2>1, <2>2
<1>2. ASSUME NEW k \in 0..(n - 1), k \in T PROVE k + 1 \in T
  <2>1. PICK g \in [0..k -> R] : g[0] = c /\ \A i \in 1..k : g[i] = step[i][g[i - 1]]
    BY <1>2
  <2> DEFINE h == [i \in 0..(k + 1) |-> IF i = k + 1 THEN step[k + 1][g[k]] ELSE g[i]]
  <2>2. step[k + 1] \in [R -> R] /\ g[k] \in R
    BY <1>0, <2>1
  <2>3. h \in [0..(k + 1) -> R] /\ h[0] = c
    BY <2>1, <2>2
  <2>4. ASSUME NEW i \in 1..(k + 1) PROVE h[i] = step[i][h[i - 1]]
    <3>1. i \in 0..(k + 1) /\ i - 1 \in 0..k /\ i - 1 \in 0..(k + 1) /\ i - 1 # k + 1
      OBVIOUS
    <3>2. h[i - 1] = g[i - 1]
      BY <3>1
    <3>3. CASE i = k + 1
      BY <3>1, <3>2, <3>3
    <3>4. CASE i # k + 1
      <4>1. i \in 1..k
        BY <3>4
      <4> QED
        BY <2>1, <3>1, <3>2, <3>4, <4>1
    <3> QED
      BY <3>3, <3>4
  <2>5. k + 1 \in 0..n
    OBVIOUS
  <2> HIDE DEF h
  <2> QED
    BY <2>3, <2>4, <2>5
<1>3. n \in T
  <2> HIDE DEF T
  <2>1. \A i \in 0..n : i \in T
    BY UpTo, <1>1, <1>2
  <2> QED
    BY <2>1
<1> QED
  BY <1>3 DEF Iterates

-----------------------------------------------------------------------------
(* The checksum.                                                           *)

Bit(a, i) == (a \div i) % 2
Nibble == 0..15

\* An exclusive or of nibbles, bit by bit.
LEMMA NibbleBits ==
  ASSUME NEW a \in Nibble
  PROVE  /\ \A i \in {1, 2, 4, 8} : Bit(a, i) \in {0, 1}
         /\ a = Bit(a, 1) + 2 * Bit(a, 2) + 4 * Bit(a, 4) + 8 * Bit(a, 8)
BY DEF Bit, Nibble

\* It is a nibble.
LEMMA NibbleType ==
  ASSUME NEW a \in Nibble, NEW b \in Nibble
  PROVE  /\ Nibbles[a][b] \in Nibble
         /\ Bit(Nibbles[a][b], 8) = IF Bit(a, 8) = Bit(b, 8) THEN 0 ELSE 1
<1> DEFINE D(i) == IF Bit(a, i) = Bit(b, i) THEN 0 ELSE i
<1>1. Nibbles[a][b] = D(1) + D(2) + D(4) + D(8)
  BY DEF Nibbles, Bit, Nibble
<1>2. D(1) \in {0, 1} /\ D(2) \in {0, 2} /\ D(4) \in {0, 4} /\ D(8) \in {0, 8}
  OBVIOUS
<1>3. D(8) = IF Bit(a, 8) = Bit(b, 8) THEN 0 ELSE 8
  OBVIOUS
<1> HIDE DEF D
<1>4. Nibbles[a][b] \in Nibble
  BY <1>1, <1>2 DEF Nibble
<1>5. Bit(Nibbles[a][b], 8) = IF D(8) = 0 THEN 0 ELSE 1
  BY <1>1, <1>2 DEF Bit
<1> QED
  BY <1>3, <1>4, <1>5

\* In which bits two nibbles differ.
LEMMA NibbleDiffers ==
  ASSUME NEW x \in Nibble, NEW y \in Nibble, NEW z \in Nibble, NEW w \in Nibble,
         Nibbles[x][y] = Nibbles[z][w]
  PROVE  \A i \in {1, 2, 4, 8} : Bit(x, i) = Bit(y, i) <=> Bit(z, i) = Bit(w, i)
<1> DEFINE D(u, v, i) == IF Bit(u, i) = Bit(v, i) THEN 0 ELSE i
<1>1. ASSUME NEW u \in Nibble, NEW v \in Nibble
      PROVE  Nibbles[u][v] = D(u, v, 1) + D(u, v, 2) + D(u, v, 4) + D(u, v, 8)
  BY DEF Nibbles, Bit, Nibble
<1>2. \A i \in {1, 2, 4, 8} : D(x, y, i) \in {0, i} /\ D(z, w, i) \in {0, i}
  OBVIOUS
<1>3. \A i \in {1, 2, 4, 8} : D(x, y, i) = D(z, w, i)
  <2> HIDE DEF D
  <2>1. D(x, y, 1) + D(x, y, 2) + D(x, y, 4) + D(x, y, 8) = D(z, w, 1) + D(z, w, 2) + D(z, w, 4) + D(z, w, 8)
    BY <1>1
  <2> QED
    BY <1>2, <2>1
<1> QED
  BY <1>3

\* A nibble is known by its four bits.
LEMMA SameNibble ==
  ASSUME NEW x \in Nibble, NEW y \in Nibble, \A i \in {1, 2, 4, 8} : Bit(x, i) = Bit(y, i)
  PROVE  x = y
BY NibbleBits

\* It tells two nibbles apart.
LEMMA NibbleInjective ==
  ASSUME NEW a \in Nibble, NEW b \in Nibble, NEW c \in Nibble
  PROVE  /\ Nibbles[a][b] = Nibbles[a][c] => b = c
         /\ Nibbles[b][a] = Nibbles[c][a] => b = c
<1>1. \A i \in {1, 2, 4, 8} : Bit(a, i) \in {0, 1} /\ Bit(b, i) \in {0, 1} /\ Bit(c, i) \in {0, 1}
  BY NibbleBits
<1>2. ASSUME Nibbles[a][b] = Nibbles[a][c] PROVE b = c
  <2>1. \A i \in {1, 2, 4, 8} : Bit(a, i) = Bit(b, i) <=> Bit(a, i) = Bit(c, i)
    BY <1>2, NibbleDiffers
  <2>2. \A i \in {1, 2, 4, 8} : Bit(b, i) = Bit(c, i)
    BY <1>1, <2>1
  <2> QED
    BY <2>2, SameNibble
<1>3. ASSUME Nibbles[b][a] = Nibbles[c][a] PROVE b = c
  <2>1. \A i \in {1, 2, 4, 8} : Bit(b, i) = Bit(a, i) <=> Bit(c, i) = Bit(a, i)
    BY <1>3, NibbleDiffers
  <2>2. \A i \in {1, 2, 4, 8} : Bit(b, i) = Bit(c, i)
    BY <1>1, <2>1
  <2> QED
    BY <2>2, SameNibble
<1> QED
  BY <1>2, <1>3

\* A byte and its halves.
LEMMA ByteHalves ==
  ASSUME NEW a \in Byte
  PROVE  a \div 16 \in Nibble /\ a % 16 \in Nibble /\ a = 16 * (a \div 16) + (a % 16)
<1>1. a \in Int
  BY DEF Byte
<1>2. a = 16 * (a \div 16) + (a % 16)
  BY <1>1
<1> QED
  BY <1>2 DEF Byte, Nibble

\* Two digits are known by the number they make.
LEMMA Digits ==
  ASSUME NEW p \in Nibble, NEW q \in Nibble, NEW r \in Nibble, NEW s \in Nibble,
         16 * p + q = 16 * r + s
  PROVE  p = r /\ q = s
BY DEF Nibble

\* An exclusive or of bytes is a byte,
LEMMA XorType == ASSUME NEW a \in Byte, NEW b \in Byte PROVE Xor(a, b) \in Byte
<1>1. Nibbles[a \div 16][b \div 16] \in Nibble /\ Nibbles[a % 16][b % 16] \in Nibble
  BY ByteHalves, NibbleType
<1> QED
  BY <1>1 DEF Xor, Byte, Nibble

\* and tells two bytes apart.
LEMMA XorInjective ==
  ASSUME NEW a \in Byte, NEW b \in Byte, NEW c \in Byte
  PROVE  /\ Xor(a, b) = Xor(a, c) => b = c
         /\ Xor(b, a) = Xor(c, a) => b = c
<1>0. /\ a \div 16 \in Nibble /\ a % 16 \in Nibble /\ b \div 16 \in Nibble /\ b % 16 \in Nibble
      /\ c \div 16 \in Nibble /\ c % 16 \in Nibble
      /\ b = 16 * (b \div 16) + (b % 16) /\ c = 16 * (c \div 16) + (c % 16)
  BY ByteHalves
<1>1. ASSUME Xor(a, b) = Xor(a, c) PROVE b = c
  <2>1. /\ Nibbles[a \div 16][b \div 16] \in Nibble /\ Nibbles[a % 16][b % 16] \in Nibble
        /\ Nibbles[a \div 16][c \div 16] \in Nibble /\ Nibbles[a % 16][c % 16] \in Nibble
    BY <1>0, NibbleType
  <2>2. /\ Nibbles[a \div 16][b \div 16] = Nibbles[a \div 16][c \div 16]
        /\ Nibbles[a % 16][b % 16] = Nibbles[a % 16][c % 16]
    <3>1. /\ 16 * Nibbles[a \div 16][b \div 16] + Nibbles[a % 16][b % 16]
             = 16 * Nibbles[a \div 16][c \div 16] + Nibbles[a % 16][c % 16]
      BY <1>1 DEF Xor
    <3> QED
      BY <2>1, <3>1, Digits
  <2>3. b \div 16 = c \div 16 /\ b % 16 = c % 16
    BY <1>0, <2>2, NibbleInjective
  <2> QED
    BY <1>0, <2>3
<1>2. ASSUME Xor(b, a) = Xor(c, a) PROVE b = c
  <2>1. /\ Nibbles[b \div 16][a \div 16] \in Nibble /\ Nibbles[b % 16][a % 16] \in Nibble
        /\ Nibbles[c \div 16][a \div 16] \in Nibble /\ Nibbles[c % 16][a % 16] \in Nibble
    BY <1>0, NibbleType
  <2>2. /\ Nibbles[b \div 16][a \div 16] = Nibbles[c \div 16][a \div 16]
        /\ Nibbles[b % 16][a % 16] = Nibbles[c % 16][a % 16]
    <3>1. /\ 16 * Nibbles[b \div 16][a \div 16] + Nibbles[b % 16][a % 16]
             = 16 * Nibbles[c \div 16][a \div 16] + Nibbles[c % 16][a % 16]
      BY <1>2 DEF Xor
    <3> QED
      BY <2>1, <3>1, Digits
  <2>3. b \div 16 = c \div 16 /\ b % 16 = c % 16
    BY <1>0, <2>2, NibbleInjective
  <2> QED
    BY <1>0, <2>3
<1> QED
  BY <1>1, <1>2

\* One turn of crc8.
Turn(x) == IF x % 2 = 0 THEN x \div 2 ELSE Xor(x \div 2, 140)

\* A turn of crc8 gives a byte, and tells two bytes apart: the polynomial
\* has its highest bit, which a turn without it leaves clear.
LEMMA TurnFacts ==
  /\ \A x \in Byte : Turn(x) \in Byte
  /\ \A x, y \in Byte : Turn(x) = Turn(y) => x = y
<1>1. ASSUME NEW x \in Byte PROVE x \div 2 \in Byte /\ x \div 2 < 128 /\ 140 \in Byte
  BY DEF Byte
<1>2. ASSUME NEW x \in Byte PROVE Turn(x) \in Byte
  BY <1>1, XorType DEF Turn
<1>3. ASSUME NEW h \in Byte, h < 128 PROVE Xor(h, 140) >= 128
  <2>1. h \div 16 \in 0..7 /\ h \div 16 \in Nibble /\ 8 \in Nibble /\ 12 \in Nibble /\ 140 \div 16 = 8 /\ h % 16 \in Nibble /\ 140 % 16 = 12
    BY <1>3 DEF Byte, Nibble
  <2>2. Nibbles[h \div 16][8] \in Nibble /\ Bit(Nibbles[h \div 16][8], 8) = 1
    <3>1. Bit(h \div 16, 8) = 0 /\ Bit(8, 8) = 1
      BY <2>1 DEF Bit, Nibble
    <3> QED
      BY <2>1, <3>1, NibbleType
  <2>3. Nibbles[h \div 16][8] >= 8
    BY <2>2 DEF Bit, Nibble
  <2>4. Nibbles[h % 16][12] \in Nibble
    BY <2>1, NibbleType
  <2> QED
    BY <2>1, <2>2, <2>3, <2>4 DEF Xor, Nibble
<1>4. ASSUME NEW x \in Byte PROVE Turn(x) < 128 <=> x % 2 = 0
  <2>1. Xor(x \div 2, 140) >= 128 /\ Xor(x \div 2, 140) \in Byte
    BY <1>1, <1>3, XorType
  <2> QED
    BY <1>1, <2>1 DEF Turn, Byte
<1>5. ASSUME NEW x \in Byte, NEW y \in Byte, Turn(x) = Turn(y) PROVE x = y
  <2>1. x % 2 = 0 <=> y % 2 = 0
    BY <1>4, <1>5
  <2>2. x % 2 = y % 2
    BY <2>1 DEF Byte
  <2>3. x \div 2 = y \div 2
    BY <1>1, <1>5, <2>1, XorInjective DEF Turn
  <2> QED
    BY <2>2, <2>3 DEF Byte
<1> QED
  BY <1>2, <1>5

\* The eight turns over a byte, one after the other.
LEMMA TurnsOf ==
  ASSUME NEW x \in Byte
  PROVE  \E t \in [0..8 -> Byte] :
           t[0] = x /\ CrcTurns[x] = t[8] /\ \A i \in 1..8 : t[i] = Turn(t[i - 1])
<1> DEFINE P(t) ==
      t = [i \in 0..8 |->
             IF i = 0 THEN x
             ELSE LET last == t[i - 1]
                  IN  IF last % 2 = 0 THEN last \div 2 ELSE Xor(last \div 2, 140)]
           step == [i \in 1..8 |-> [r \in Byte |-> Turn(r)]]
<1>1. CrcTurns[x] = (CHOOSE t : P(t))[8]
  BY DEF CrcTurns, Byte
<1>2. step \in Steps(8, Byte)
  BY TurnFacts DEF Steps
<1>3. PICK g \in [0..8 -> Byte] : g[0] = x /\ \A i \in 1..8 : g[i] = step[i][g[i - 1]]
  <2> HIDE DEF step, P
  <2>1. PICK g : Iterates(g, 8, Byte, x, step)
    BY <1>2, Recursion
  <2> QED
    BY <2>1 DEF Iterates
<1>4. \A i \in 1..8 : g[i] = Turn(g[i - 1])
  BY <1>3
<1>5. P(g)
  <2>1. g = [i \in 0..8 |-> g[i]]
    BY <1>3
  <2>2. \A i \in 0..8 : i = 0 \/ i \in 1..8
    OBVIOUS
  <2>3. \A i \in 0..8 : g[i] = IF i = 0 THEN x ELSE Turn(g[i - 1])
    BY <1>3, <1>4, <2>2
  <2>4. \A i \in 0..8 :
          g[i] = IF i = 0 THEN x
                 ELSE IF g[i - 1] % 2 = 0 THEN g[i - 1] \div 2 ELSE Xor(g[i - 1] \div 2, 140)
    BY <2>3 DEF Turn
  <2> QED
    BY <2>1, <2>4
<1>6. P(CHOOSE t : P(t))
  <2> HIDE DEF P
  <2> QED
    BY <1>5
<1>7. PICK f : f = (CHOOSE t : P(t)) /\ P(f)
  BY <1>6
<1>8. f[0] = x /\ \A i \in 1..8 : f[i] = Turn(f[i - 1])
  <2>1. f[0] = x
    BY <1>7
  <2>2. ASSUME NEW i \in 1..8 PROVE f[i] = Turn(f[i - 1])
    <3>1. i \in 0..8 /\ i # 0
      OBVIOUS
    <3> QED
      BY <1>7, <3>1 DEF Turn
  <2> QED
    BY <2>1, <2>2
<1>9. \A i \in 0..8 : f[i] \in Byte
  <2> DEFINE T == {i \in 0..8 : f[i] \in Byte}
  <2>1. 0 \in T
    BY <1>8
  <2>2. ASSUME NEW i \in 0..(8 - 1), i \in T PROVE i + 1 \in T
    <3>1. i + 1 \in 1..8 /\ (i + 1) - 1 = i
      OBVIOUS
    <3> QED
      BY <1>8, <2>2, <3>1, TurnFacts
  <2> HIDE DEF T
  <2>3. \A i \in 0..8 : i \in T
    BY <2>1, <2>2, UpTo
  <2> QED
    BY <2>3 DEF T
<1>10. f \in [0..8 -> Byte]
  BY <1>7, <1>9
<1> HIDE DEF P
<1> QED
  BY <1>1, <1>7, <1>8, <1>10

\* Together they tell two bytes apart.
LEMMA TurnsInjective ==
  ASSUME NEW x \in Byte, NEW y \in Byte
  PROVE  CrcTurns[x] \in Byte /\ (CrcTurns[x] = CrcTurns[y] => x = y)
<1>1. PICK t \in [0..8 -> Byte] :
        t[0] = x /\ CrcTurns[x] = t[8] /\ \A i \in 1..8 : t[i] = Turn(t[i - 1])
  BY TurnsOf
<1>2. PICK u \in [0..8 -> Byte] :
        u[0] = y /\ CrcTurns[y] = u[8] /\ \A i \in 1..8 : u[i] = Turn(u[i - 1])
  BY TurnsOf
<1>3. ASSUME x # y PROVE t[8] # u[8]
  <2> DEFINE T == {i \in 0..8 : t[i] # u[i]}
  <2>1. 0 \in T
    BY <1>1, <1>2, <1>3
  <2>2. ASSUME NEW i \in 0..(8 - 1), i \in T PROVE i + 1 \in T
    <3>1. i + 1 \in 1..8 /\ (i + 1) - 1 = i /\ t[i] \in Byte /\ u[i] \in Byte
      BY <1>1, <1>2
    <3> QED
      BY <1>1, <1>2, <2>2, <3>1, TurnFacts
  <2> HIDE DEF T
  <2>3. \A i \in 0..8 : i \in T
    BY <2>1, <2>2, UpTo
  <2> QED
    BY <2>3 DEF T
<1> QED
  BY <1>1, <1>2, <1>3

\* So does a step of crc8, whichever of the sum and the byte differs.
LEMMA StepFacts ==
  ASSUME NEW a \in Byte, NEW b \in Byte, NEW c \in Byte
  PROVE  /\ CrcStep[a][b] \in Byte
         /\ CrcStep[a][b] = CrcStep[a][c] => b = c
         /\ CrcStep[b][a] = CrcStep[c][a] => b = c
<1>1. /\ CrcStep[a][b] = CrcTurns[Xor(a, b)] /\ CrcStep[a][c] = CrcTurns[Xor(a, c)]
      /\ CrcStep[b][a] = CrcTurns[Xor(b, a)] /\ CrcStep[c][a] = CrcTurns[Xor(c, a)]
  BY DEF CrcStep, Byte
<1>2. /\ Xor(a, b) \in Byte /\ Xor(a, c) \in Byte /\ Xor(b, a) \in Byte /\ Xor(c, a) \in Byte
  BY XorType
<1> QED
  BY <1>1, <1>2, TurnsInjective, XorInjective

\* The sum after each byte.
LEMMA SumsOf ==
  ASSUME NEW s \in Seq(Byte)
  PROVE  \E t \in [0..Len(s) -> Byte] :
           t[0] = 0 /\ Crc8(s) = t[Len(s)] /\ \A i \in 1..Len(s) : t[i] = CrcStep[t[i - 1]][s[i]]
<1> DEFINE n == Len(s)
           P(t) == t = [i \in 0..n |-> IF i = 0 THEN 0 ELSE CrcStep[t[i - 1]][s[i]]]
           step == [i \in 1..n |-> [r \in Byte |-> CrcStep[r][s[i]]]]
<1>0. n \in Nat /\ 0 \in Byte /\ \A i \in 1..n : s[i] \in Byte
  BY LenProperties, ElementOfSeq DEF Byte
<1>1. Crc8(s) = (CHOOSE t : P(t))[n]
  BY DEF Crc8
<1> HIDE DEF n
<1>2. step \in Steps(n, Byte)
  BY <1>0, StepFacts DEF Steps
<1>3. PICK g \in [0..n -> Byte] : g[0] = 0 /\ \A i \in 1..n : g[i] = step[i][g[i - 1]]
  <2> HIDE DEF step, P
  <2>1. PICK g : Iterates(g, n, Byte, 0, step)
    BY <1>0, <1>2, Recursion
  <2> QED
    BY <2>1 DEF Iterates
<1>4. \A i \in 1..n : g[i] = CrcStep[g[i - 1]][s[i]]
  <2>1. \A i \in 1..n : g[i - 1] \in Byte
    BY <1>0, <1>3
  <2> QED
    BY <1>3, <2>1
<1>5. P(g)
  <2>1. g = [i \in 0..n |-> g[i]]
    BY <1>3
  <2>2. \A i \in 0..n : i = 0 \/ i \in 1..n
    BY <1>0
  <2>3. \A i \in 0..n : g[i] = IF i = 0 THEN 0 ELSE CrcStep[g[i - 1]][s[i]]
    BY <1>3, <1>4, <2>2
  <2> QED
    BY <2>1, <2>3
<1>6. P(CHOOSE t : P(t))
  <2> HIDE DEF P
  <2> QED
    BY <1>5
<1>7. PICK f : f = (CHOOSE t : P(t)) /\ P(f)
  BY <1>6
<1>8. f[0] = 0 /\ \A i \in 1..n : f[i] = CrcStep[f[i - 1]][s[i]]
  <2>1. f[0] = 0
    <3>1. 0 \in 0..n
      BY <1>0
    <3> QED
      BY <1>7, <3>1
  <2>2. ASSUME NEW i \in 1..n PROVE f[i] = CrcStep[f[i - 1]][s[i]]
    <3>1. i \in 0..n /\ i # 0
      BY <1>0
    <3> QED
      BY <1>7, <3>1
  <2> QED
    BY <2>1, <2>2
<1>9. \A i \in 0..n : f[i] \in Byte
  <2> DEFINE T == {i \in 0..n : f[i] \in Byte}
  <2>1. 0 \in T
    BY <1>0, <1>8
  <2>2. ASSUME NEW i \in 0..(n - 1), i \in T PROVE i + 1 \in T
    <3>1. i + 1 \in 1..n /\ i + 1 \in 0..n /\ (i + 1) - 1 = i
      BY <1>0
    <3>2. f[i] \in Byte /\ s[i + 1] \in Byte /\ f[i + 1] = CrcStep[f[i]][s[i + 1]]
      BY <1>0, <1>8, <2>2, <3>1
    <3> QED
      BY <3>1, <3>2, StepFacts
  <2> HIDE DEF T
  <2>3. \A i \in 0..n : i \in T
    BY <1>0, <2>1, <2>2, UpTo
  <2> QED
    BY <2>3 DEF T
<1>10. f \in [0..n -> Byte]
  BY <1>7, <1>9
<1> HIDE DEF P
<1> QED
  BY <1>1, <1>7, <1>8, <1>10 DEF n

\* A checksum tells apart any two messages that differ in one byte.
THEOREM Crc8Detects ==
  ASSUME NEW s \in Seq(Byte), NEW u \in Seq(Byte), Len(s) = Len(u),
         NEW k \in 1..Len(s), s[k] # u[k], \A i \in 1..Len(s) : i # k => s[i] = u[i]
  PROVE  Crc8(s) # Crc8(u)
<1> DEFINE n == Len(s)
<1>0. n \in Nat /\ n = Len(u) /\ \A i \in 1..n : s[i] \in Byte /\ u[i] \in Byte
  BY LenProperties, ElementOfSeq
<1>1. PICK t \in [0..n -> Byte] :
        t[0] = 0 /\ Crc8(s) = t[n] /\ \A i \in 1..n : t[i] = CrcStep[t[i - 1]][s[i]]
  BY SumsOf
<1>2. PICK v \in [0..n -> Byte] :
        v[0] = 0 /\ Crc8(u) = v[n] /\ \A i \in 1..n : v[i] = CrcStep[v[i - 1]][u[i]]
  <2>1. \E v \in [0..Len(u) -> Byte] :
          v[0] = 0 /\ Crc8(u) = v[Len(u)] /\ \A i \in 1..Len(u) : v[i] = CrcStep[v[i - 1]][u[i]]
    BY SumsOf
  <2> HIDE DEF n
  <2> QED
    BY <1>0, <2>1, Zenon
<1> DEFINE T == {i \in 0..n : t[i] = v[i] <=> i < k}
<1> HIDE DEF n
<1>3. k \in 1..n /\ \A i \in 1..n : i # k => s[i] = u[i]
  BY DEF n
<1>4. 0 \in T
  BY <1>0, <1>1, <1>2, <1>3
<1>5. ASSUME NEW i \in 0..(n - 1), i \in T PROVE i + 1 \in T
  <2>1. /\ i + 1 \in 1..n /\ i \in 0..n /\ i + 1 \in 0..n /\ (i + 1) - 1 = i
        /\ t[i] \in Byte /\ v[i] \in Byte /\ s[i + 1] \in Byte /\ u[i + 1] \in Byte
    BY <1>0, <1>1, <1>2
  <2>2. t[i + 1] = CrcStep[t[i]][s[i + 1]] /\ v[i + 1] = CrcStep[v[i]][u[i + 1]]
    BY <1>1, <1>2, <2>1
  <2>3. t[i] = v[i] <=> i < k
    BY <1>5
  <2>4. CASE i + 1 < k
    BY <1>3, <2>1, <2>2, <2>3, <2>4
  <2>5. CASE i + 1 = k
    <3>1. t[i] = v[i]
      BY <1>3, <2>3, <2>5
    <3>2. t[i + 1] # v[i + 1]
      BY <2>1, <2>2, <2>5, <3>1, StepFacts
    <3> QED
      BY <1>3, <2>1, <2>5, <3>2
  <2>6. CASE i + 1 > k
    <3>1. t[i] # v[i] /\ s[i + 1] = u[i + 1]
      BY <1>3, <2>1, <2>3, <2>6
    <3>2. t[i + 1] # v[i + 1]
      BY <2>1, <2>2, <3>1, StepFacts
    <3> QED
      BY <1>3, <2>1, <2>6, <3>2
  <2> QED
    BY <1>3, <2>1, <2>4, <2>5, <2>6
<1>6. n \in T
  <2> HIDE DEF T
  <2>1. \A i \in 0..n : i \in T
    BY <1>0, <1>4, <1>5, UpTo
  <2> QED
    BY <1>0, <2>1
<1> QED
  BY <1>0, <1>1, <1>2, <1>3, <1>6

\* A checksum is a byte.
LEMMA Crc8Type == ASSUME NEW s \in Seq(Byte) PROVE Crc8(s) \in Byte
<1>1. Len(s) \in 0..Len(s)
  BY LenProperties
<1> QED
  BY <1>1, SumsOf

-----------------------------------------------------------------------------
(* Numbers as bytes.                                                       *)

\* The same, from 1.
StepsFromOne(n, R) == [2..n -> [R -> R]]
IteratesFromOne(g, n, R, c, step) ==
  g \in [1..n -> R] /\ g[1] = c /\ \A i \in 2..n : g[i] = step[i][g[i - 1]]

\* The same of a function from 1.
LEMMA RecursionFromOne ==
  ASSUME NEW n \in Nat, n # 0, NEW R, NEW c \in R, NEW step \in StepsFromOne(n, R)
  PROVE  \E g : IteratesFromOne(g, n, R, c, step)
<1> DEFINE m == n - 1
           before == [i \in 1..m |-> step[i + 1]]
<1>0. m \in Nat /\ n = m + 1
  OBVIOUS
<1>1. before \in Steps(m, R)
  BY DEF Steps, StepsFromOne
<1>2. PICK h : Iterates(h, m, R, c, before)
  <2> HIDE DEF m, before
  <2> QED
    BY <1>0, <1>1, Recursion
<1> DEFINE g == [i \in 1..n |-> h[i - 1]]
<1>3. h \in [0..m -> R] /\ h[0] = c /\ \A i \in 1..m : h[i] = before[i][h[i - 1]]
  BY <1>2 DEF Iterates
<1>4. g \in [1..n -> R] /\ g[1] = c
  BY <1>3
<1>5. ASSUME NEW i \in 2..n PROVE g[i] = step[i][g[i - 1]]
  <2>1. i - 1 \in 1..m /\ (i - 1) + 1 = i /\ i \in 1..n /\ i - 1 \in 1..n
    OBVIOUS
  <2>2. h[i - 1] = step[i][h[(i - 1) - 1]]
    BY <1>3, <2>1
  <2> QED
    BY <2>1, <2>2
<1> HIDE DEF g
<1> QED
  BY <1>4, <1>5 DEF IteratesFromOne

\* What holds at 1 and is passed on holds up to n.
LEMMA UpToFromOne ==
  ASSUME NEW n \in Nat, NEW T, 1 \in T, \A i \in 1..(n - 1) : i \in T => i + 1 \in T
  PROVE  \A i \in 1..n : i \in T
<1> DEFINE U == T \cup {0}
<1>1. 0 \in U /\ \A i \in 0..(n - 1) : i \in U => i + 1 \in U
  OBVIOUS
<1>2. \A i \in 0..n : i \in U
  <2> HIDE DEF U
  <2> QED
    BY <1>1, UpTo
<1> QED
  BY <1>2

\* The quotients of a number written out, and its bytes.
Quotients(r, n, width) ==
  r \in [1..width -> Int] /\ r[1] = n /\ \A i \in 2..width : r[i] = r[i - 1] \div 256

\* int.to_bytes gives as many bytes as it was asked for, of the quotients.
LEMMA LittleEndianBytes ==
  ASSUME NEW n \in Int, NEW width \in Nat, width # 0
  PROVE  /\ LittleEndian(n, width) \in Seq(Byte) /\ Len(LittleEndian(n, width)) = width
         /\ \E r : Quotients(r, n, width) /\ LittleEndian(n, width) = [i \in 1..width |-> r[i] % 256]
<1> DEFINE P(r) == r = [i \in 1..width |-> IF i = 1 THEN n ELSE r[i - 1] \div 256]
           step == [i \in 2..width |-> [x \in Int |-> x \div 256]]
           rest == CHOOSE r : P(r)
<1>1. LittleEndian(n, width) = [i \in 1..width |-> rest[i] % 256]
  BY DEF LittleEndian
<1>2. step \in StepsFromOne(width, Int)
  BY DEF StepsFromOne
<1>3. PICK g : IteratesFromOne(g, width, Int, n, step)
  <2> HIDE DEF P, step, rest
  <2> QED
    BY <1>2, RecursionFromOne
<1>4. g \in [1..width -> Int] /\ g[1] = n /\ \A i \in 2..width : g[i] = step[i][g[i - 1]]
  BY <1>3 DEF IteratesFromOne
<1>5. ASSUME NEW i \in 2..width PROVE g[i] = g[i - 1] \div 256
  <2>1. i - 1 \in 1..width
    OBVIOUS
  <2>2. g[i - 1] \in Int /\ g[i] = step[i][g[i - 1]]
    BY <1>4, <2>1
  <2> QED
    BY <2>2
<1>6. P(g)
  <2> DEFINE h == [i \in 1..width |-> IF i = 1 THEN n ELSE g[i - 1] \div 256]
  <2>1. ASSUME NEW i \in 1..width PROVE h[i] = g[i]
    <3>1. i = 1 \/ i \in 2..width
      OBVIOUS
    <3> QED
      BY <1>4, <1>5, <3>1
  <2>2. h = [i \in 1..width |-> h[i]] /\ g = [i \in 1..width |-> g[i]]
    BY <1>4
  <2>3. h = g
    <3> HIDE DEF h
    <3> QED
      BY <2>1, <2>2
  <2> QED
    BY <2>3, Zenon
<1>7. P(rest)
  <2> HIDE DEF P
  <2> QED
    BY <1>6
<1>8. PICK r : r = rest /\ P(r)
  BY <1>7
<1>9. r[1] = n /\ \A i \in 2..width : r[i] = r[i - 1] \div 256
  <2>1. 1 \in 1..width /\ \A i \in 2..width : i \in 1..width /\ i # 1
    OBVIOUS
  <2> QED
    BY <1>8, <2>1
<1>10. \A i \in 1..width : r[i] \in Int
  <2> DEFINE T == {i \in 1..width : r[i] \in Int}
  <2>1. 1 \in T
    BY <1>9
  <2>2. ASSUME NEW i \in 1..(width - 1), i \in T PROVE i + 1 \in T
    <3>1. i + 1 \in 2..width /\ (i + 1) - 1 = i
      OBVIOUS
    <3> QED
      BY <1>9, <2>2, <3>1
  <2> HIDE DEF T
  <2>3. \A i \in 1..width : i \in T
    BY <2>1, <2>2, UpToFromOne
  <2> QED
    BY <2>3 DEF T
<1>11. Quotients(r, n, width)
  BY <1>8, <1>9, <1>10 DEF Quotients
<1>12. LittleEndian(n, width) = [i \in 1..width |-> r[i] % 256]
  BY <1>1, <1>8
<1>13. \A i \in 1..width : r[i] % 256 \in Byte
  BY <1>10 DEF Byte
<1>14. LittleEndian(n, width) \in Seq(Byte) /\ Len(LittleEndian(n, width)) = width
  <2> HIDE DEF P, rest
  <2>1. [i \in 1..width |-> r[i] % 256] \in Seq(Byte)
    BY <1>13
  <2>2. Len([i \in 1..width |-> r[i] % 256]) = width
    OBVIOUS
  <2> QED
    BY <1>12, <2>1, <2>2
<1> QED
  BY <1>11, <1>12, <1>14

\* The first and the last of two bytes.
LEMMA TwoBytes ==
  ASSUME NEW n \in Int
  PROVE  /\ LittleEndian(n, 2)[1] = n % 256
         /\ LittleEndian(n, 2)[2] = (n \div 256) % 256
<1>1. PICK r : Quotients(r, n, 2) /\ LittleEndian(n, 2) = [i \in 1..2 |-> r[i] % 256]
  <2>1. 2 \in Nat /\ 2 # 0
    OBVIOUS
  <2> QED
    BY <2>1, LittleEndianBytes
<1>2. r[1] = n /\ r[2] = n \div 256
  <2>1. 2 \in 2..2 /\ 2 - 1 = 1
    OBVIOUS
  <2> QED
    BY <1>1, <2>1 DEF Quotients
<1> QED
  BY <1>1, <1>2

\* int.from_bytes of two bytes.
LEMMA UnsignedTwo ==
  ASSUME NEW s \in Seq(Byte), Len(s) = 2
  PROVE  Unsigned(s) = s[1] + 256 * s[2]
<1> DEFINE P(n) == n = [i \in 1..2 |-> IF i = 2 THEN s[2] ELSE s[i] + 256 * n[i + 1]]
           g == [i \in 1..2 |-> IF i = 2 THEN s[2] ELSE s[1] + 256 * s[2]]
<1>1. Unsigned(s) = (CHOOSE n : P(n))[1]
  BY DEF Unsigned, FromBytes
<1>2. P(g)
  OBVIOUS
<1>3. \E h : h = (CHOOSE n : P(n)) /\ P(h)
  <2> HIDE DEF P
  <2> QED
    BY <1>2
<1>4. PICK h : h = (CHOOSE n : P(n)) /\ P(h)
  BY <1>3, Zenon
<1>5. h[1] = s[1] + 256 * h[2] /\ h[2] = s[2]
  BY <1>4
<1> HIDE DEF P
<1> QED
  BY <1>1, <1>4, <1>5

-----------------------------------------------------------------------------
(* Parts of a sequence.                                                    *)

\* A slice, its length and its elements.
LEMMA Slice ==
  ASSUME NEW R, NEW s \in Seq(R), NEW m \in Nat, NEW n \in Nat, 1 <= m, n <= Len(s)
  PROVE  /\ SubSeq(s, m, n) \in Seq(R)
         /\ Len(SubSeq(s, m, n)) = IF m <= n THEN n - m + 1 ELSE 0
         /\ \A i \in 1..(n - m + 1) : SubSeq(s, m, n)[i] = s[m + i - 1]
<1>1. \A i \in m..n : s[i] \in R
  <2>1. \A i \in m..n : i \in 1..Len(s)
    BY LenProperties
  <2> QED
    BY <2>1, ElementOfSeq
<1> QED
  BY <1>1, SubSeqProperties

\* A slice of a slice is a slice.
LEMMA SliceOfSlice ==
  ASSUME NEW R, NEW s \in Seq(R), NEW a \in Nat, NEW b \in Nat, 1 <= a, a <= b + 1, b <= Len(s),
         NEW m \in Nat, NEW n \in Nat, 1 <= m, n <= b - a + 1,
         NEW k \in Nat, NEW l \in Nat, k = a + m - 1, l = a + n - 1
  PROVE  SubSeq(SubSeq(s, a, b), m, n) = SubSeq(s, k, l)
<1> DEFINE t == SubSeq(s, a, b)
           u == SubSeq(t, m, n)
           v == SubSeq(s, k, l)
<1>1. t \in Seq(R) /\ Len(t) = b - a + 1 /\ \A i \in 1..(b - a + 1) : t[i] = s[a + i - 1]
  BY Slice
<1>2. /\ u \in Seq(R) /\ Len(u) = IF m <= n THEN n - m + 1 ELSE 0
      /\ \A i \in 1..(n - m + 1) : u[i] = t[m + i - 1]
  <2> HIDE DEF t
  <2> QED
    BY <1>1, Slice
<1>3. /\ v \in Seq(R) /\ Len(v) = IF k <= l THEN l - k + 1 ELSE 0
      /\ \A i \in 1..(l - k + 1) : v[i] = s[k + i - 1]
  <2>1. 1 <= k /\ l <= Len(s)
    BY LenProperties
  <2> QED
    BY <2>1, Slice
<1>4. ASSUME NEW i \in 1..Len(u) PROVE u[i] = v[i]
  <2> HIDE DEF t, u, v
  <2>1. i \in 1..(n - m + 1) /\ m + i - 1 \in 1..(b - a + 1) /\ i \in 1..(l - k + 1)
    BY <1>2
  <2>2. u[i] = t[m + i - 1] /\ v[i] = s[k + i - 1] /\ t[m + i - 1] = s[a + (m + i - 1) - 1]
    BY <1>1, <1>2, <1>3, <2>1
  <2>3. k + i - 1 = a + (m + i - 1) - 1
    BY <2>1
  <2> QED
    BY <2>2, <2>3
<1> HIDE DEF u, v
<1>5. Len(u) = Len(v)
  <2>1. (m <= n <=> k <= l) /\ n - m + 1 = l - k + 1
    OBVIOUS
  <2> QED
    BY <1>2, <1>3, <2>1
<1>6. u = v
  BY <1>2, <1>3, <1>4, <1>5, SeqEqual
<1> QED
  BY <1>6 DEF u, v, t

\* A byte is a number.
LEMMA ByteValue == ASSUME NEW x \in Byte PROVE x \in Nat /\ x <= 255
BY DEF Byte

\* A length is a number.
LEMMA UnsignedTwoType ==
  ASSUME NEW s \in Seq(Byte), Len(s) = 2 PROVE Unsigned(s) \in Nat
<1>1. s[1] \in Byte /\ s[2] \in Byte
  BY ElementOfSeq
<1>2. s[1] \in Nat /\ s[2] \in Nat
  BY <1>1, ByteValue
<1> QED
  BY <1>2, UnsignedTwo

\* The length in two bytes of a message.
LEMMA LengthField ==
  ASSUME NEW s \in Seq(Byte), NEW i \in Nat, NEW j \in Nat, 1 <= i, j = i + 1, j <= Len(s)
  PROVE  /\ SubSeq(s, i, j) \in Seq(Byte) /\ Len(SubSeq(s, i, j)) = 2
         /\ Unsigned(SubSeq(s, i, j)) \in Nat /\ Unsigned(SubSeq(s, i, j)) = s[i] + 256 * s[j]
<1> DEFINE t == SubSeq(s, i, j)
<1>1. /\ t \in Seq(Byte) /\ Len(t) = IF i <= j THEN j - i + 1 ELSE 0
      /\ \A k \in 1..(j - i + 1) : t[k] = s[i + k - 1]
  BY Slice
<1> HIDE DEF t
<1>2. Len(t) = 2
  BY <1>1
<1>3. t[1] = s[i] /\ t[2] = s[j]
  <2>1. 1 \in 1..(j - i + 1) /\ 2 \in 1..(j - i + 1) /\ i + 1 - 1 = i /\ i + 2 - 1 = j
    OBVIOUS
  <2> QED
    BY <1>1, <2>1
<1>4. t \in Seq(Byte) /\ Len(t) = 2 /\ Unsigned(t) \in Nat /\ Unsigned(t) = s[i] + 256 * s[j]
  BY <1>1, <1>2, <1>3, UnsignedTwo, UnsignedTwoType
<1> QED
  BY <1>4 DEF t

-----------------------------------------------------------------------------
(* What _payload accepts: one frame from its first byte to its last, intact, *)
(* around one plaintext message.                                             *)
Sealed(p) ==
  /\ Len(p) >= 10
  /\ p[1] = 171 /\ p[2] = 0 /\ p[3] = 0 /\ p[4] = 0
  /\ Unsigned(SubSeq(p, 5, 6)) = Len(p) - 8
  /\ p[Len(p) - 1] = Crc8(SubSeq(p, 2, Len(p) - 2))
  /\ p[Len(p)] = 84

Plaintext(e) ==
  e.ok /\ e.crc_ok /\ e.tail_ok /\ e.extra = <<>> /\ e.session[3] = 0 /\ e.plain.ok

\* parse_envelope finds an intact plaintext message where the envelope is sealed
\* in its own terms, and only there.
LEMMA EnvelopeOf ==
  ASSUME NEW p \in Seq(Byte)
  PROVE  /\ Plaintext(ParseEnvelope(p)) <=> Sealed(p)
         /\ Sealed(p) =>
              ParseEnvelope(p).plain = [ok |-> TRUE, type |-> p[8], body |-> SubSeq(p, 9, Len(p) - 2)]
<1> DEFINE end == 6 + Unsigned(SubSeq(p, 5, 6))
<1>0. Len(p) \in Nat
  BY LenProperties
<1>1. CASE Len(p) < 8
  <2>1. ParseEnvelope(p) = Refused
    BY <1>1 DEF ParseEnvelope
  <2> QED
    BY <1>0, <1>1, <2>1 DEF Refused, Plaintext, Sealed
<1>2. CASE Len(p) >= 8
  <2>1. end \in Nat /\ end >= 6
    <3>1. Unsigned(SubSeq(p, 5, 6)) \in Nat
      BY <1>0, <1>2, LengthField
    <3> QED
      BY <3>1
  <2>2. PICK n \in Nat : n = end
    BY <2>1
  <2> HIDE DEF end
  <2>3. SubSeq(p, 2, 4) = <<0, 0, 0>> <=> p[2] = 0 /\ p[3] = 0 /\ p[4] = 0
    <3>1. SubSeq(p, 2, 4) = <<p[2]>> \o SubSeq(p, 3, 4)
      BY <1>0, <1>2, SubSeqRecursiveFirst
    <3>a. /\ SubSeq(p, 2, 4) \in Seq(Byte) /\ Len(SubSeq(p, 2, 4)) = IF 2 <= 4 THEN 4 - 2 + 1 ELSE 0
          /\ \A i \in 1..(4 - 2 + 1) : SubSeq(p, 2, 4)[i] = p[2 + i - 1]
      BY <1>0, <1>2, Slice
    <3> DEFINE t == SubSeq(p, 2, 4)
    <3> HIDE DEF t
    <3>2. Len(t) = 3 /\ t \in Seq(Byte) /\ t[1] = p[2] /\ t[2] = p[3] /\ t[3] = p[4]
      BY <3>a DEF t
    <3>3. t = <<0, 0, 0>> <=> t[1] = 0 /\ t[2] = 0 /\ t[3] = 0
      BY <3>2
    <3> QED
      BY <3>2, <3>3 DEF t
  <2>4. ParseEnvelope(p) =
          IF Len(p) < 8 \/ p[1] # 171 \/ Len(p) < n + 2 THEN Refused
          ELSE [ok |-> TRUE, session |-> SubSeq(p, 2, 4),
                crc_ok |-> p[n + 1] = Crc8(SubSeq(p, 2, n)), tail_ok |-> p[n + 2] = 84,
                plain |-> IF SubSeq(p, 2, 4) = <<0, 0, 0>>
                            THEN ParseAppliancePayload(SubSeq(p, 7, n)) ELSE Refused,
                extra |-> From(p, n + 3)]
    BY <2>2 DEF ParseEnvelope, end
  <2>5. Unsigned(SubSeq(p, 5, 6)) = Len(p) - 8 <=> Len(p) = n + 2
    <3>1. Unsigned(SubSeq(p, 5, 6)) \in Nat
      BY <1>0, <1>2, LengthField
    <3> QED
      BY <1>0, <2>2, <3>1 DEF end
  <2>6. CASE p[1] # 171 \/ Len(p) < n + 2
    <3>1. ParseEnvelope(p) = Refused
      BY <2>4, <2>6
    <3>2. ~Sealed(p)
      BY <1>0, <2>5, <2>6 DEF Sealed
    <3> QED
      BY <3>1, <3>2 DEF Refused, Plaintext
  <2>7. CASE p[1] = 171 /\ Len(p) >= n + 2
    <3> DEFINE b == SubSeq(p, 7, n)
               e == ParseEnvelope(p)
               m == ParseAppliancePayload(b)
    <3>1. /\ e.ok /\ e.session = SubSeq(p, 2, 4) /\ (e.crc_ok <=> p[n + 1] = Crc8(SubSeq(p, 2, n)))
          /\ (e.tail_ok <=> p[n + 2] = 84) /\ e.extra = From(p, n + 3)
          /\ e.plain = IF SubSeq(p, 2, 4) = <<0, 0, 0>> THEN m ELSE Refused
      <4>1. ~(Len(p) < 8 \/ p[1] # 171 \/ Len(p) < n + 2)
        BY <1>0, <1>2, <2>2, <2>7
      <4>2. e = [ok |-> TRUE, session |-> SubSeq(p, 2, 4),
                 crc_ok |-> p[n + 1] = Crc8(SubSeq(p, 2, n)), tail_ok |-> p[n + 2] = 84,
                 plain |-> IF SubSeq(p, 2, 4) = <<0, 0, 0>> THEN m ELSE Refused,
                 extra |-> From(p, n + 3)]
        <5> HIDE DEF m
        <5>1. e = IF Len(p) < 8 \/ p[1] # 171 \/ Len(p) < n + 2 THEN Refused
                  ELSE [ok |-> TRUE, session |-> SubSeq(p, 2, 4),
                        crc_ok |-> p[n + 1] = Crc8(SubSeq(p, 2, n)), tail_ok |-> p[n + 2] = 84,
                        plain |-> IF SubSeq(p, 2, 4) = <<0, 0, 0>> THEN m ELSE Refused,
                        extra |-> From(p, n + 3)]
          BY <2>4, Zenon DEF m, b
        <5> HIDE DEF e
        <5> QED
          BY <4>1, <5>1
      <4> HIDE DEF e, m
      <4> QED
        BY <4>2
    <3>2. From(p, n + 3) = <<>> <=> Len(p) = n + 2
      <4>1. CASE Len(p) >= n + 3
        <5>1. Len(From(p, n + 3)) = IF n + 3 <= Len(p) THEN Len(p) - (n + 3) + 1 ELSE 0
          BY <1>0, <2>2, <4>1, Slice DEF From
        <5>2. Len(From(p, n + 3)) # 0
          BY <1>0, <2>2, <4>1, <5>1
        <5> QED
          BY <1>0, <2>2, <4>1, <5>2
      <4>2. CASE Len(p) < n + 3
        <5>1. From(p, n + 3) = <<>>
          BY <1>0, <2>2, <4>2, SubSeqEmpty DEF From
        <5> QED
          BY <1>0, <2>2, <2>7, <4>2, <5>1
      <4> QED
        BY <1>0, <2>2, <4>1, <4>2
    <3>3. b \in Seq(Byte) /\ (n >= 8 => Len(b) = n - 6 /\ b[2] = p[8]) /\ (n < 8 => Len(b) < 2)
      <4>1. /\ b \in Seq(Byte) /\ Len(b) = IF 7 <= n THEN n - 7 + 1 ELSE 0
            /\ \A i \in 1..(n - 7 + 1) : b[i] = p[7 + i - 1]
        BY <1>0, <2>2, <2>7, Slice
      <4> HIDE DEF b
      <4>2. n < 8 => Len(b) < 2
        BY <2>2, <4>1
      <4>3. n >= 8 => Len(b) = n - 6
        BY <2>2, <4>1
      <4>4. n >= 8 => b[2] = p[8]
        <5>1. n >= 8 => 2 \in 1..(n - 7 + 1)
          BY <2>2
        <5> QED
          BY <4>1, <5>1
      <4> QED
        BY <4>1, <4>2, <4>3, <4>4
    <3>4. n >= 8 => SubSeq(b, 3, Len(b)) = SubSeq(p, 9, n)
      <4>1. n >= 8 => n - 6 \in Nat /\ n = 7 + (n - 6) - 1
        BY <2>2
      <4>2. n >= 8 => SubSeq(SubSeq(p, 7, n), 3, n - 6) = SubSeq(p, 9, n)
        BY <1>0, <2>2, <2>7, <4>1, SliceOfSlice
      <4> QED
        BY <3>3, <4>2
    <3> HIDE DEF b
    <3>5. m.ok <=> n >= 8
      BY <2>2, <3>3 DEF ParseAppliancePayload, Refused
    <3>6. n >= 8 => m = [ok |-> TRUE, type |-> p[8], body |-> SubSeq(p, 9, n)]
      <4>1. n >= 8 => ~(Len(b) < 2)
        BY <2>2, <3>3
      <4>2. n >= 8 => m = [ok |-> TRUE, type |-> b[2], body |-> SubSeq(b, 3, Len(b))]
        BY <4>1 DEF ParseAppliancePayload, From
      <4> QED
        BY <3>3, <3>4, <4>2
    <3> HIDE DEF e, m
    <3>7. e.session = <<0, 0, 0>> => e.session[3] = 0
      OBVIOUS
    <3>a. /\ e.crc_ok <=> p[n + 1] = Crc8(SubSeq(p, 2, n))
          /\ e.tail_ok <=> p[n + 2] = 84
          /\ e.extra = <<>> <=> Len(p) = n + 2
          /\ e.plain.ok <=> SubSeq(p, 2, 4) = <<0, 0, 0>> /\ n >= 8
      BY <3>1, <3>2, <3>5 DEF Refused
    <3>8. Plaintext(e) <=> /\ p[n + 1] = Crc8(SubSeq(p, 2, n)) /\ p[n + 2] = 84 /\ Len(p) = n + 2
                           /\ SubSeq(p, 2, 4) = <<0, 0, 0>> /\ n >= 8
      BY <3>1, <3>7, <3>a DEF Plaintext
    <3>9. Len(p) = n + 2 => n + 1 = Len(p) - 1 /\ n = Len(p) - 2 /\ (n >= 8 <=> Len(p) >= 10)
      BY <1>0, <2>2
    <3>10. Sealed(p) <=> /\ p[n + 1] = Crc8(SubSeq(p, 2, n)) /\ p[n + 2] = 84 /\ Len(p) = n + 2
                         /\ SubSeq(p, 2, 4) = <<0, 0, 0>> /\ n >= 8
      <4>1. CASE Len(p) # n + 2
        BY <2>5, <4>1 DEF Sealed
      <4>2. CASE Len(p) = n + 2
        <5>1. n + 1 = Len(p) - 1 /\ n = Len(p) - 2 /\ n + 2 = Len(p) /\ (n >= 8 <=> Len(p) >= 10)
          BY <3>9, <4>2
        <5>2. p[n + 1] = p[Len(p) - 1] /\ p[n + 2] = p[Len(p)] /\ SubSeq(p, 2, n) = SubSeq(p, 2, Len(p) - 2)
          BY <5>1
        <5> QED
          BY <2>3, <2>5, <2>7, <4>2, <5>1, <5>2 DEF Sealed
      <4> QED
        BY <4>1, <4>2
    <3>11. Sealed(p) => e.plain = [ok |-> TRUE, type |-> p[8], body |-> SubSeq(p, 9, Len(p) - 2)]
      BY <3>1, <3>6, <3>9, <3>10
    <3> QED
      BY <3>8, <3>10, <3>11 DEF e
  <2> QED
    BY <1>0, <2>2, <2>6, <2>7
<1> QED
  BY <1>0, <1>1, <1>2

\* The frame's own terms: the transport header, then the envelope to the end.
Intact(d) ==
  /\ Len(d) >= 16
  /\ d[7] = 171 /\ d[8] = 0 /\ d[9] = 0 /\ d[10] = 0
  /\ Unsigned(SubSeq(d, 5, 6)) = Len(d) - 6
  /\ Unsigned(SubSeq(d, 11, 12)) = Len(d) - 14
  /\ d[Len(d) - 1] = Crc8(SubSeq(d, 8, Len(d) - 2))
  /\ d[Len(d)] = 84

\* A frame is intact if what its header announces is a sealed envelope.
LEMMA SealedPart ==
  ASSUME NEW d \in Seq(Byte), Len(d) >= 6
  PROVE  LET p == SubSeq(d, 7, Len(d)) IN
         /\ p \in Seq(Byte) /\ Len(p) = Len(d) - 6
         /\ Intact(d) <=> Unsigned(SubSeq(d, 5, 6)) = Len(d) - 6 /\ Sealed(p)
         /\ Sealed(p) => p[8] = d[14] /\ SubSeq(p, 9, Len(p) - 2) = SubSeq(d, 15, Len(d) - 2)
<1> DEFINE p == SubSeq(d, 7, Len(d))
<1>0. Len(d) \in Nat
  BY LenProperties
<1>1. /\ p \in Seq(Byte) /\ Len(p) = IF 7 <= Len(d) THEN Len(d) - 7 + 1 ELSE 0
      /\ \A i \in 1..(Len(d) - 7 + 1) : p[i] = d[7 + i - 1]
  BY <1>0, Slice
<1>2. Len(d) >= 16 =>
        /\ SubSeq(p, 5, 6) = SubSeq(d, 11, 12)
        /\ SubSeq(p, 2, Len(d) - 8) = SubSeq(d, 8, Len(d) - 2)
        /\ SubSeq(p, 9, Len(d) - 8) = SubSeq(d, 15, Len(d) - 2)
  <2>1. Len(d) >= 16 => SubSeq(p, 5, 6) = SubSeq(d, 11, 12)
    BY <1>0, SliceOfSlice
  <2>2. Len(d) >= 16 => Len(d) - 8 \in Nat /\ Len(d) - 2 \in Nat /\ Len(d) - 2 = 7 + (Len(d) - 8) - 1
    BY <1>0
  <2>3. Len(d) >= 16 => SubSeq(p, 2, Len(d) - 8) = SubSeq(d, 8, Len(d) - 2)
    BY <1>0, <2>2, SliceOfSlice
  <2>4. Len(d) >= 16 => SubSeq(p, 9, Len(d) - 8) = SubSeq(d, 15, Len(d) - 2)
    BY <1>0, <2>2, SliceOfSlice
  <2> QED
    BY <2>1, <2>3, <2>4
<1> HIDE DEF p
<1>3. Len(p) = Len(d) - 6
  <2>1. PICK n \in Nat : n = Len(d)
    BY <1>0
  <2>2. n >= 6 /\ Len(p) = IF 7 <= n THEN n - 7 + 1 ELSE 0
    BY <1>1, <2>1
  <2> QED
    BY <2>1, <2>2
<1>4. ASSUME Len(d) >= 16
      PROVE  /\ p[1] = d[7] /\ p[2] = d[8] /\ p[3] = d[9] /\ p[4] = d[10] /\ p[8] = d[14]
             /\ p[Len(p) - 1] = d[Len(d) - 1] /\ p[Len(p)] = d[Len(d)]
  <2> DEFINE n == Len(d)
  <2>1. \A i \in 1..(n - 6) : p[i] = d[i + 6]
    <3>1. \A i \in 1..(n - 6) : i \in 1..(Len(d) - 7 + 1) /\ 7 + i - 1 = i + 6
      BY <1>0
    <3> QED
      BY <1>1, <3>1
  <2>2. /\ n \in Nat /\ n >= 16 /\ n - 7 \in 1..(n - 6) /\ n - 6 \in 1..(n - 6)
        /\ (n - 7) + 6 = n - 1 /\ (n - 6) + 6 = n /\ (n - 6) - 1 = n - 7
    BY <1>0, <1>4
  <2>3. Len(p) = n - 6
    BY <1>3
  <2> HIDE DEF n
  <2>4. p[1] = d[7] /\ p[2] = d[8] /\ p[3] = d[9] /\ p[4] = d[10] /\ p[8] = d[14]
    BY <2>1, <2>2
  <2>5. p[n - 7] = d[n - 1] /\ p[n - 6] = d[n]
    BY <2>1, <2>2
  <2> QED
    BY <2>2, <2>3, <2>4, <2>5 DEF n
<1>5. Intact(d) <=> Unsigned(SubSeq(d, 5, 6)) = Len(d) - 6 /\ Sealed(p)
  <2>1. CASE Len(d) < 16
    BY <1>0, <1>3, <2>1 DEF Intact, Sealed
  <2>2. CASE Len(d) >= 16
    <3>1. Len(p) - 2 = Len(d) - 8 /\ Len(p) - 8 = Len(d) - 14 /\ Len(p) >= 10
      BY <1>0, <1>3, <2>2
    <3>2. SubSeq(p, 2, Len(p) - 2) = SubSeq(d, 8, Len(d) - 2)
      BY <1>2, <2>2, <3>1
    <3>3. /\ Unsigned(SubSeq(p, 5, 6)) = Unsigned(SubSeq(d, 11, 12))
          /\ Crc8(SubSeq(p, 2, Len(p) - 2)) = Crc8(SubSeq(d, 8, Len(d) - 2))
      BY <1>2, <2>2, <3>2, Zenon
    <3>4. /\ p[1] = d[7] /\ p[2] = d[8] /\ p[3] = d[9] /\ p[4] = d[10]
          /\ p[Len(p) - 1] = d[Len(d) - 1] /\ p[Len(p)] = d[Len(d)]
      BY <1>4, <2>2, Zenon
    <3> QED
      BY <2>2, <3>1, <3>3, <3>4, Zenon DEF Intact, Sealed
  <2> QED
    BY <1>0, <2>1, <2>2
<1>6. Sealed(p) => p[8] = d[14] /\ SubSeq(p, 9, Len(p) - 2) = SubSeq(d, 15, Len(d) - 2)
  <2>1. Sealed(p) => Len(d) >= 16
    BY <1>0, <1>3 DEF Sealed
  <2>2. Len(d) >= 16 => Len(p) - 2 = Len(d) - 8
    BY <1>0, <1>3
  <2> QED
    BY <1>2, <1>4, <2>1, <2>2
<1> QED
  BY <1>1, <1>3, <1>5, <1>6 DEF p

\* _payload, through decode_hex_frame and its two attempts, accepts the intact
\* frames and no others.
LEMMA PayloadOf ==
  ASSUME NEW d \in Seq(Byte)
  PROVE  /\ Payload(d).ok <=> Intact(d)
         /\ Intact(d) =>
              Payload(d) = [ok |-> TRUE, type |-> d[14], body |-> SubSeq(d, 15, Len(d) - 2)]
<1> DEFINE t == ParseTransportFrame(d)
           p == SubSeq(d, 7, Len(d))
           e == ParseEnvelope(p)
<1>0. Len(d) \in Nat
  BY LenProperties
<1>1. CASE Len(d) < 6
  <2>1. ~t.ok
    BY <1>1 DEF ParseTransportFrame, Refused
  <2>2. Payload(d) = Refused
    BY <2>1 DEF DecodeFrame, Payload
  <2> QED
    BY <1>0, <1>1, <2>2 DEF Refused, Intact
<1>2. CASE Len(d) >= 6
  <2>1. PICK n \in Nat : n = Unsigned(SubSeq(d, 5, 6))
    BY <1>0, <1>2, LengthField
  <2> DEFINE g == ParseEnvelope(SubSeq(d, 7, IF Len(d) >= 6 + n THEN 6 + n ELSE Len(d)))
  <2>2. /\ t.ok /\ (t.length_ok <=> Len(d) >= 6 + n)
        /\ t.extra = From(d, 7 + n) /\ t.envelope = g
    <3> DEFINE whole == Len(d) >= 6 + n
    <3>1. t = [ok |-> TRUE, length_ok |-> whole, extra |-> From(d, 7 + n), envelope |-> g]
      BY <1>0, <1>2, <2>1 DEF ParseTransportFrame
    <3> HIDE DEF t, g
    <3> QED
      BY <3>1
  <2>3. From(d, 7 + n) = <<>> <=> Len(d) <= 6 + n
    <3>1. CASE Len(d) >= 7 + n
      <4>1. Len(From(d, 7 + n)) = IF 7 + n <= Len(d) THEN Len(d) - (7 + n) + 1 ELSE 0
        BY <1>0, <3>1, Slice DEF From
      <4>2. Len(From(d, 7 + n)) # 0
        BY <1>0, <3>1, <4>1
      <4> QED
        BY <1>0, <3>1, <4>2
    <3>2. CASE Len(d) < 7 + n
      <4>1. From(d, 7 + n) = <<>>
        BY <1>0, <3>2, SubSeqEmpty DEF From
      <4> QED
        BY <1>0, <3>2, <4>1
    <3> QED
      BY <1>0, <3>1, <3>2
  <2>4. CASE Len(d) # 6 + n
    <3> DEFINE f == DecodeFrame(d)
    <3>1. ~(f.length_ok /\ f.extra = <<>>)
      <4>1. CASE t.ok /\ t.envelope.ok
        <5>1. f = t
          BY <4>1 DEF DecodeFrame
        <5> HIDE DEF t, f, g
        <5> QED
          BY <1>0, <2>2, <2>3, <2>4, <5>1
      <4>2. CASE ~(t.ok /\ t.envelope.ok)
        BY <4>2 DEF DecodeFrame
      <4> QED
        BY <4>1, <4>2
    <3>2. Payload(d) = Refused
      BY <3>1 DEF Payload
    <3>3. ~Intact(d)
      BY <1>0, <2>1, <2>4 DEF Intact
    <3> QED
      BY <3>2, <3>3 DEF Refused
  <2>5. CASE Len(d) = 6 + n
    <3>1. g = e
      BY <1>0, <2>5
    <3> HIDE DEF g
    <3>2. t.ok /\ t.length_ok /\ t.extra = <<>> /\ t.envelope = e
      <4> HIDE DEF t, e
      <4> QED
        BY <1>0, <2>2, <2>3, <2>5, <3>1
    <3>3. ASSUME e.ok
          PROVE  Payload(d) = IF e.crc_ok /\ e.tail_ok /\ e.extra = <<>> /\ e.session[3] = 0
                                THEN e.plain ELSE Refused
      <4>1. DecodeFrame(d) = t
        BY <3>2, <3>3 DEF DecodeFrame
      <4> HIDE DEF t, e
      <4> QED
        BY <3>2, <3>3, <4>1 DEF Payload
    <3>4. ASSUME ~e.ok PROVE Payload(d) = Refused
      <4>1. ~DecodeFrame(d).length_ok
        BY <3>2, <3>4 DEF DecodeFrame
      <4> QED
        BY <4>1 DEF Payload
    <3>5. Intact(d) <=> Sealed(p)
      <4>1. Unsigned(SubSeq(d, 5, 6)) = Len(d) - 6
        BY <1>0, <2>1, <2>5
      <4> QED
        BY <1>2, <4>1, SealedPart
    <3>6. p \in Seq(Byte)
      BY <1>2, SealedPart
    <3>7. /\ Plaintext(e) <=> Sealed(p)
          /\ Sealed(p) => e.plain = [ok |-> TRUE, type |-> p[8], body |-> SubSeq(p, 9, Len(p) - 2)]
      <4> HIDE DEF p
      <4> QED
        BY <3>6, EnvelopeOf
    <3>8. Sealed(p) => p[8] = d[14] /\ SubSeq(p, 9, Len(p) - 2) = SubSeq(d, 15, Len(d) - 2)
      BY <1>2, SealedPart
    <3> HIDE DEF e, p, t
    <3>9. Payload(d).ok <=> Plaintext(e)
      BY <3>3, <3>4 DEF Plaintext, Refused
    <3>10. Plaintext(e) => Payload(d) = e.plain
      BY <3>3 DEF Plaintext
    <3> QED
      BY <3>5, <3>7, <3>8, <3>9, <3>10
  <2> QED
    BY <2>4, <2>5
<1> QED
  BY <1>0, <1>1, <1>2

\* The notification callback's test and the decoder agree on every sequence
\* of bytes.
THEOREM RouterAndDecoder ==
  ASSUME NEW d \in Seq(Byte)
  PROVE  LET p == PairingPayload(d) IN
         IsPairingResponseFrame(d) <=> p.ok /\ (p.type = 133 => Decision(p))
<1> DEFINE p == PairingPayload(d)
           q == Payload(d)
<1>0. Len(d) \in Nat
  BY LenProperties
<1>1. q.ok <=> Intact(d)
  BY PayloadOf
<1>2. Intact(d) => q = [ok |-> TRUE, type |-> d[14], body |-> SubSeq(d, 15, Len(d) - 2)]
  BY PayloadOf
<1>3. p = IF q.ok /\ q.type \in PairingResponseTypes THEN q ELSE Refused
  BY DEF PairingPayload
<1> HIDE DEF p, q
<1>4. CASE ~Intact(d)
  <2>1. ~p.ok
    BY <1>1, <1>3, <1>4 DEF Refused
  <2>2. ~IsPairingResponseFrame(d)
    <3> SUFFICES ASSUME IsPairingResponseFrame(d) PROVE Intact(d)
      BY <1>4
    <3>1. Len(d) >= 16 /\ SubSeq(d, 7, 10) = <<171, 0, 0, 0>> /\ d[Len(d)] = 84
      BY DEF IsPairingResponseFrame
    <3>2. d[7] = 171 /\ d[8] = 0 /\ d[9] = 0 /\ d[10] = 0
      <4> DEFINE t == SubSeq(d, 7, 10)
      <4>1. \A i \in 1..(10 - 7 + 1) : t[i] = d[7 + i - 1]
        BY <1>0, <3>1, Slice
      <4>2. t = <<171, 0, 0, 0>>
        BY <3>1
      <4> HIDE DEF t
      <4>3. t[1] = 171 /\ t[2] = 0 /\ t[3] = 0 /\ t[4] = 0
        BY <4>2
      <4> QED
        BY <4>1, <4>3
    <3>3. /\ Len(d) = 14 + Unsigned(SubSeq(d, 11, 12))
          /\ Unsigned(SubSeq(d, 5, 6)) = Len(d) - 6
          /\ d[Len(d) - 1] = Crc8(SubSeq(d, 8, Len(d) - 2))
      BY DEF IsPairingResponseFrame
    <3>4. Unsigned(SubSeq(d, 11, 12)) \in Nat
      BY <1>0, <3>1, LengthField
    <3>5. Unsigned(SubSeq(d, 11, 12)) = Len(d) - 14
      BY <1>0, <3>3, <3>4
    <3> QED
      BY <3>1, <3>2, <3>3, <3>5 DEF Intact
  <2> QED
    BY <2>1, <2>2 DEF p
<1>5. CASE Intact(d)
  <2>1. q = [ok |-> TRUE, type |-> d[14], body |-> SubSeq(d, 15, Len(d) - 2)]
    BY <1>2, <1>5
  <2>2. PICK n \in Nat : n = Unsigned(SubSeq(d, 11, 12)) /\ Len(d) = 14 + n /\ n >= 2
    <3>1. Len(d) >= 16 /\ Unsigned(SubSeq(d, 11, 12)) = Len(d) - 14
      BY <1>5 DEF Intact
    <3>2. Unsigned(SubSeq(d, 11, 12)) \in Nat
      BY <1>0, <3>1, LengthField
    <3> QED
      BY <1>0, <3>1, <3>2
  <2>3. Len(SubSeq(d, 15, Len(d) - 2)) = n - 2
    <3>1. Len(d) - 2 \in Nat /\ Len(d) - 2 = 12 + n
      BY <1>0, <2>2
    <3>2. Len(SubSeq(d, 15, Len(d) - 2)) = IF 15 <= Len(d) - 2 THEN (Len(d) - 2) - 15 + 1 ELSE 0
      BY <1>0, <3>1, Slice
    <3> QED
      BY <2>2, <3>1, <3>2
  <2>4. SubSeq(d, 7, 10) = <<171, 0, 0, 0>>
    <3> DEFINE t == SubSeq(d, 7, 10)
    <3>1. /\ Len(d) >= 16 /\ d[7] = 171 /\ d[8] = 0 /\ d[9] = 0 /\ d[10] = 0
      BY <1>5 DEF Intact
    <3>2. /\ t \in Seq(Byte) /\ Len(t) = IF 7 <= 10 THEN 10 - 7 + 1 ELSE 0
          /\ \A i \in 1..(10 - 7 + 1) : t[i] = d[7 + i - 1]
      BY <1>0, <3>1, Slice
    <3> HIDE DEF t
    <3>3. Len(t) = 4 /\ t[1] = 171 /\ t[2] = 0 /\ t[3] = 0 /\ t[4] = 0
      BY <3>1, <3>2
    <3>4. t = <<171, 0, 0, 0>>
      BY <3>2, <3>3
    <3> QED
      BY <3>4 DEF t
  <2>5. IsPairingResponseFrame(d) <=>
          d[14] \in PairingResponseTypes /\ (d[14] = 133 => n >= 83)
    BY <1>0, <1>5, <2>2, <2>4 DEF Intact, IsPairingResponseFrame
  <2>6. q.ok /\ q.type = d[14] /\ Len(q.body) = n - 2
    BY <2>1, <2>3
  <2>7. CASE d[14] \in PairingResponseTypes
    <3>1. p = q
      BY <1>3, <2>6, <2>7
    <3>2. Decision(p) <=> d[14] = 133 /\ n >= 83
      BY <2>2, <2>6, <3>1 DEF Decision
    <3> QED
      BY <2>5, <2>6, <2>7, <3>1, <3>2 DEF p
  <2>8. CASE d[14] \notin PairingResponseTypes
    <3>1. ~p.ok
      BY <1>3, <2>6, <2>8 DEF Refused
    <3> QED
      BY <2>5, <2>8, <3>1 DEF p
  <2> QED
    BY <2>7, <2>8
<1> QED
  BY <1>4, <1>5

-----------------------------------------------------------------------------
(* Sequences laid out one after the other.                                 *)

Lists(R) == Seq(Seq(R))

\* A list of sequences.
LEMMA ListOf ==
  ASSUME NEW R, NEW ss \in Lists(R)
  PROVE  Len(ss) \in Nat /\ \A i \in 1..Len(ss) : ss[i] \in Seq(R) /\ Len(ss[i]) \in Nat
<1>1. ss \in Seq(Seq(R))
  BY DEF Lists
<1>2. Len(ss) \in Nat /\ \A i \in 1..Len(ss) : ss[i] \in Seq(R)
  BY <1>1, LenProperties, ElementOfSeq
<1>3. \A i \in 1..Len(ss) : Len(ss[i]) \in Nat
  BY <1>2, LenProperties
<1> QED
  BY <1>2, <1>3

\* The sequences so far, joined.
Joins(g, ss, R) ==
  g \in [1..Len(ss) -> Seq(R)] /\ g[1] = ss[1] /\ \A i \in 2..Len(ss) : g[i] = g[i - 1] \o ss[i]

\* Joining a list, one sequence at a time.
LEMMA FlattenOf ==
  ASSUME NEW R, NEW ss \in Lists(R), Len(ss) # 0
  PROVE  \E g : Joins(g, ss, R) /\ S!FlattenSeq(ss) = g[Len(ss)]
<1> DEFINE n == Len(ss)
           P(f) == f = [i \in 1..n |-> IF i = 1 THEN ss[i] ELSE f[i - 1] \o ss[i]]
           step == [i \in 2..n |-> [x \in Seq(R) |-> x \o ss[i]]]
           flatten == CHOOSE f : P(f)
<1>0. n \in Nat /\ n # 0 /\ \A i \in 1..n : ss[i] \in Seq(R)
  BY ListOf
<1>1. S!FlattenSeq(ss) = flatten[n]
  BY <1>0 DEF S!FlattenSeq
<1> HIDE DEF n
<1>2. step \in StepsFromOne(n, Seq(R))
  <2>1. \A i \in 2..n : \A x \in Seq(R) : x \o ss[i] \in Seq(R)
    <3>1. \A i \in 2..n : i \in 1..n
      BY <1>0
    <3> QED
      BY <1>0, <3>1, ConcatProperties
  <2> QED
    BY <2>1 DEF StepsFromOne
<1>3. PICK g : IteratesFromOne(g, n, Seq(R), ss[1], step)
  <2>1. ss[1] \in Seq(R)
    BY <1>0
  <2> HIDE DEF P, step, flatten
  <2> QED
    BY <1>0, <1>2, <2>1, RecursionFromOne
<1>4. g \in [1..n -> Seq(R)] /\ g[1] = ss[1] /\ \A i \in 2..n : g[i] = step[i][g[i - 1]]
  BY <1>3 DEF IteratesFromOne
<1>5. ASSUME NEW i \in 2..n PROVE g[i] = g[i - 1] \o ss[i]
  <2>1. i - 1 \in 1..n
    BY <1>0
  <2>2. g[i - 1] \in Seq(R) /\ g[i] = step[i][g[i - 1]]
    BY <1>4, <2>1
  <2> QED
    BY <2>2
<1>6. P(g)
  <2> DEFINE h == [i \in 1..n |-> IF i = 1 THEN ss[i] ELSE g[i - 1] \o ss[i]]
  <2>1. ASSUME NEW i \in 1..n PROVE h[i] = g[i]
    <3>1. i = 1 \/ i \in 2..n
      BY <1>0
    <3> QED
      BY <1>4, <1>5, <3>1
  <2>2. h = [i \in 1..n |-> h[i]] /\ g = [i \in 1..n |-> g[i]]
    BY <1>4
  <2>3. h = g
    <3> HIDE DEF h
    <3> QED
      BY <2>1, <2>2
  <2> QED
    BY <2>3, Zenon
<1>7. P(flatten)
  <2> HIDE DEF P
  <2> QED
    BY <1>6
<1>8. PICK f : f = flatten /\ P(f)
  BY <1>7
<1>9. f[1] = ss[1] /\ \A i \in 2..n : f[i] = f[i - 1] \o ss[i]
  <2>1. 1 \in 1..n /\ \A i \in 2..n : i \in 1..n /\ i # 1
    BY <1>0
  <2> QED
    BY <1>8, <2>1
<1>10. \A i \in 1..n : f[i] \in Seq(R)
  <2> DEFINE T == {i \in 1..n : f[i] \in Seq(R)}
  <2>1. 1 \in T
    BY <1>0, <1>9
  <2>2. ASSUME NEW i \in 1..(n - 1), i \in T PROVE i + 1 \in T
    <3>1. i + 1 \in 2..n /\ i + 1 \in 1..n /\ (i + 1) - 1 = i
      BY <1>0
    <3>2. f[i + 1] = f[i] \o ss[i + 1] /\ f[i] \in Seq(R) /\ ss[i + 1] \in Seq(R)
      BY <1>0, <1>9, <2>2, <3>1
    <3>3. f[i] \o ss[i + 1] \in Seq(R)
      BY <3>2, ConcatProperties
    <3> QED
      BY <3>1, <3>2, <3>3
  <2> HIDE DEF T
  <2>3. \A i \in 1..n : i \in T
    BY <1>0, <2>1, <2>2, UpToFromOne
  <2> QED
    BY <2>3 DEF T
<1>11. Joins(f, ss, R)
  <2>1. f \in [1..n -> Seq(R)]
    BY <1>8, <1>10
  <2> QED
    BY <1>9, <2>1 DEF Joins, n
<1> HIDE DEF P, flatten
<1> QED
  BY <1>1, <1>8, <1>11 DEF n

\* Where each of the sequences ends, and what is there.
Layout(ss, flat, e) ==
  /\ e \in [0..Len(ss) -> Nat] /\ e[0] = 0 /\ e[Len(ss)] = Len(flat)
  /\ \A i \in 1..Len(ss) : e[i] = e[i - 1] + Len(ss[i]) /\ e[i] <= Len(flat)
  /\ \A i \in 1..Len(ss) : \A k \in 1..Len(ss[i]) : flat[e[i - 1] + k] = ss[i][k]

\* A list joined: where each of its sequences ends.
LEMMA FlattenLayout ==
  ASSUME NEW R, NEW ss \in Lists(R)
  PROVE  S!FlattenSeq(ss) \in Seq(R) /\ \E e : Layout(ss, S!FlattenSeq(ss), e)
<1> DEFINE n == Len(ss)
           flat == S!FlattenSeq(ss)
<1>0. n \in Nat /\ \A i \in 1..n : ss[i] \in Seq(R) /\ Len(ss[i]) \in Nat
  BY ListOf
<1>1. CASE n = 0
  <2>1. flat = ss /\ ss = <<>>
    BY <1>1, EmptySeq DEF S!FlattenSeq, Lists
  <2>2. flat \in Seq(R) /\ Len(flat) = 0
    BY <2>1, EmptySeq
  <2> DEFINE e == [i \in 0..0 |-> 0]
  <2>3. e \in [0..0 -> Nat] /\ e[0] = 0
    OBVIOUS
  <2> HIDE DEF e, flat
  <2>4. Layout(ss, flat, e)
    BY <1>1, <2>2, <2>3 DEF Layout
  <2> QED
    BY <2>2, <2>4 DEF flat
<1>2. CASE n # 0
  <2>1. PICK g : Joins(g, ss, R) /\ flat = g[n]
    BY <1>2, FlattenOf
  <2> HIDE DEF flat
  <2>2. g \in [1..n -> Seq(R)] /\ g[1] = ss[1] /\ \A i \in 2..n : g[i] = g[i - 1] \o ss[i]
    BY <2>1 DEF Joins
  <2> HIDE DEF n
  <2>3. \A i \in 1..n : g[i] \in Seq(R) /\ Len(g[i]) \in Nat
    BY <2>2, LenProperties
  <2> DEFINE e == [i \in 0..n |-> IF i = 0 THEN 0 ELSE Len(g[i])]
  <2>4. e \in [0..n -> Nat] /\ e[0] = 0 /\ \A i \in 1..n : e[i] = Len(g[i])
    <3>1. 0 \in 0..n /\ \A i \in 1..n : i \in 0..n /\ i # 0
      BY <1>0
    <3>2. \A i \in 0..n : i = 0 \/ i \in 1..n
      BY <1>0
    <3> QED
      BY <2>3, <3>1, <3>2
  <2> HIDE DEF e
  <2>5. ASSUME NEW i \in 2..n
        PROVE  /\ i \in 1..n /\ i - 1 \in 1..n /\ Len(g[i]) = Len(g[i - 1]) + Len(ss[i])
               /\ \A k \in 1..Len(g[i - 1]) : g[i][k] = g[i - 1][k]
               /\ \A k \in 1..Len(ss[i]) : g[i][Len(g[i - 1]) + k] = ss[i][k]
    <3>1. i \in 1..n /\ i - 1 \in 1..n
      BY <1>0
    <3>2. g[i - 1] \in Seq(R) /\ ss[i] \in Seq(R) /\ g[i] = g[i - 1] \o ss[i]
          /\ Len(g[i - 1]) \in Nat /\ Len(ss[i]) \in Nat
      BY <1>0, <2>2, <2>3, <3>1
    <3> DEFINE a == Len(g[i - 1])
               b == Len(ss[i])
    <3>3. /\ Len(g[i - 1] \o ss[i]) = a + b
          /\ \A k \in 1..(a + b) : (g[i - 1] \o ss[i])[k] = IF k <= a THEN g[i - 1][k] ELSE ss[i][k - a]
      BY <3>2, ConcatProperties
    <3>4. a \in Nat /\ b \in Nat
      BY <3>2
    <3>5. Len(g[i]) = a + b /\ \A k \in 1..(a + b) : g[i][k] = IF k <= a THEN g[i - 1][k] ELSE ss[i][k - a]
      BY <3>2, <3>3
    <3> HIDE DEF a, b
    <3>6. \A k \in 1..a : g[i][k] = g[i - 1][k]
      <4>1. \A k \in 1..a : k \in 1..(a + b) /\ k <= a
        BY <3>4
      <4> QED
        BY <3>5, <4>1
    <3>7. \A k \in 1..b : g[i][a + k] = ss[i][k]
      <4>1. \A k \in 1..b : a + k \in 1..(a + b) /\ ~(a + k <= a) /\ (a + k) - a = k
        BY <3>4
      <4> QED
        BY <3>5, <4>1
    <3> QED
      BY <3>1, <3>5, <3>6, <3>7 DEF a, b
  <2>6. \A i \in 1..n : e[i] = e[i - 1] + Len(ss[i])
    <3>1. ASSUME NEW i \in 1..n PROVE e[i] = e[i - 1] + Len(ss[i])
      <4>1. CASE i = 1
        <5>1. e[i] = Len(ss[i]) /\ e[i - 1] = 0 /\ Len(ss[i]) \in Nat
          BY <1>0, <2>2, <2>4, <4>1
        <5> QED
          BY <5>1
      <4>2. CASE i # 1
        <5>1. i \in 2..n
          BY <4>2
        <5> QED
          BY <2>4, <2>5, <5>1
      <4> QED
        BY <4>1, <4>2
    <3> QED
      BY <3>1
  <2> DEFINE T == {i \in 1..n : \A j \in 1..i :
                     /\ e[j] <= e[i]
                     /\ \A k \in 1..Len(ss[j]) : g[i][e[j - 1] + k] = ss[j][k]}
  <2>7. 1 \in T
    <3>1. 1 \in 1..n
      BY <1>0, <1>2 DEF n
    <3>2. e[1] \in Nat /\ e[0] = 0 /\ g[1] = ss[1] /\ Len(ss[1]) \in Nat
      BY <1>0, <2>2, <2>4, <3>1
    <3>3. \A k \in 1..Len(ss[1]) : g[1][e[1 - 1] + k] = ss[1][k]
      BY <3>2
    <3> QED
      BY <3>1, <3>2, <3>3
  <2>8. ASSUME NEW i \in 1..(n - 1), i \in T PROVE i + 1 \in T
    <3>1. i + 1 \in 2..n /\ i + 1 \in 1..n /\ i \in 1..n /\ i \in 0..n /\ (i + 1) - 1 = i
      BY <1>0
    <3>2. e[i + 1] = e[i] + Len(ss[i + 1]) /\ e[i] = Len(g[i]) /\ e[i] \in Nat /\ e[i + 1] \in Nat
          /\ Len(ss[i + 1]) \in Nat
      BY <1>0, <2>3, <2>4, <2>6, <3>1
    <3>0. ASSUME NEW j \in 1..i
          PROVE  e[j] <= e[i] /\ \A k \in 1..Len(ss[j]) : g[i][e[j - 1] + k] = ss[j][k]
      BY <2>8
    <3> HIDE DEF T
    <3>3. ASSUME NEW j \in 1..(i + 1)
          PROVE  e[j] <= e[i + 1] /\ \A k \in 1..Len(ss[j]) : g[i + 1][e[j - 1] + k] = ss[j][k]
      <4>1. CASE j = i + 1
        <5>1. \A k \in 1..Len(ss[i + 1]) : g[i + 1][Len(g[i]) + k] = ss[i + 1][k]
          BY <2>5, <3>1
        <5>2. e[j] <= e[i + 1] /\ e[j - 1] = Len(g[i])
          <6>1. e[i + 1] <= e[i + 1]
            BY <3>2
          <6> QED
            BY <3>1, <3>2, <4>1, <6>1
        <5> QED
          BY <4>1, <5>1, <5>2
      <4>2. CASE j # i + 1
        <5>1. j \in 1..i /\ j \in 1..n /\ j \in 0..n /\ j - 1 \in 0..n
          BY <1>0, <4>2
        <5>2. e[j] <= e[i] /\ \A k \in 1..Len(ss[j]) : g[i][e[j - 1] + k] = ss[j][k]
          BY <3>0, <5>1
        <5>a. e[j] <= e[i]
          BY <5>2
        <5>3. e[j] = e[j - 1] + Len(ss[j]) /\ e[j - 1] \in Nat /\ e[j] \in Nat /\ Len(ss[j]) \in Nat
          BY <1>0, <2>4, <2>6, <5>1
        <5>4. \A k \in 1..Len(ss[j]) : e[j - 1] + k \in 1..Len(g[i])
          <6>1. PICK a \in Nat, b \in Nat, c \in Nat, l \in Nat :
                  a = e[j - 1] /\ b = Len(ss[j]) /\ c = e[i] /\ l = Len(g[i]) /\ l = c /\ a + b <= c
            BY <3>2, <5>a, <5>3
          <6>2. \A k \in 1..b : a + k \in 1..l
            BY <1>0, <6>1
          <6> QED
            BY <6>1, <6>2
        <5>5. \A k \in 1..Len(g[i]) : g[i + 1][k] = g[i][k]
          <6>1. \A k \in 1..Len(g[(i + 1) - 1]) : g[i + 1][k] = g[(i + 1) - 1][k]
            BY <2>5, <3>1
          <6> QED
            BY <3>1, <6>1
        <5>6. \A k \in 1..Len(ss[j]) : g[i + 1][e[j - 1] + k] = ss[j][k]
          BY <5>2, <5>4, <5>5
        <5>7. e[j] <= e[i + 1]
          <6>1. PICK a \in Nat, b \in Nat, c \in Nat, d \in Nat :
                  a = e[j] /\ b = e[i] /\ c = e[i + 1] /\ d = Len(ss[i + 1]) /\ a <= b /\ c = b + d
            BY <3>2, <5>a, <5>3
          <6>2. a <= c
            BY <6>1
          <6> QED
            BY <6>1, <6>2
        <5> QED
          BY <5>6, <5>7
      <4> QED
        BY <4>1, <4>2
    <3> QED
      BY <3>1, <3>3 DEF T
  <2>9. n \in T
    <3> HIDE DEF T
    <3>1. \A i \in 1..n : i \in T
      BY <1>0, <2>7, <2>8, UpToFromOne
    <3>2. n \in 1..n
      BY <1>0, <1>2 DEF n
    <3> QED
      BY <3>1, <3>2
  <2>10. flat \in Seq(R) /\ e[n] = Len(flat)
    <3>1. n \in 1..n
      BY <1>0, <1>2 DEF n
    <3> QED
      BY <2>1, <2>3, <2>4, <3>1 DEF n
  <2>11. Layout(ss, flat, e)
    <3>1. /\ \A i \in 1..n : e[i] = e[i - 1] + Len(ss[i]) /\ e[i] <= Len(flat)
          /\ \A i \in 1..n : \A k \in 1..Len(ss[i]) : flat[e[i - 1] + k] = ss[i][k]
      <4>1. flat = g[n]
        BY <2>1 DEF n
      <4> QED
        BY <2>6, <2>9, <2>10, <4>1
    <3> QED
      BY <2>4, <2>10, <3>1 DEF Layout, n
  <2> QED
    BY <2>10, <2>11 DEF flat
<1> QED
  BY <1>1, <1>2

-----------------------------------------------------------------------------
(* Records, written and read.                                              *)

\* Records whose length fits its byte.
Short == {r \in Records : Len(r.value) \in Byte}

\* A record whose length fits its byte, laid out.
LEMMA ShortRecord ==
  ASSUME NEW r \in Short
  PROVE  /\ r.tag \in Byte /\ r.value \in Seq(Byte) /\ Len(r.value) \in Nat
         /\ r = [tag |-> r.tag, value |-> r.value]
         /\ Laid(r) \in Seq(Byte) /\ Len(Laid(r)) = 2 + Len(r.value)
         /\ Laid(r)[1] = r.tag /\ Laid(r)[2] = Len(r.value)
         /\ \A k \in 1..Len(r.value) : Laid(r)[2 + k] = r.value[k]
<1>1. /\ r.tag \in Byte /\ r.value \in Seq(Byte) /\ Len(r.value) \in Byte
      /\ r = [tag |-> r.tag, value |-> r.value]
  BY DEF Short, Records
<1>2. Len(r.value) \in Nat
  BY <1>1, LenProperties
<1> DEFINE head == <<r.tag, Len(r.value)>>
<1>3. head \in Seq(Byte) /\ Len(head) = 2 /\ head[1] = r.tag /\ head[2] = Len(r.value)
  BY <1>1
<1> HIDE DEF head
<1>4. /\ head \o r.value \in Seq(Byte) /\ Len(head \o r.value) = 2 + Len(r.value)
      /\ \A i \in 1..(2 + Len(r.value)) :
           (head \o r.value)[i] = IF i <= 2 THEN head[i] ELSE r.value[i - 2]
  <2>1. /\ head \o r.value \in Seq(Byte) /\ Len(head \o r.value) = Len(head) + Len(r.value)
        /\ \A i \in 1..(Len(head) + Len(r.value)) :
             (head \o r.value)[i] = IF i <= Len(head) THEN head[i] ELSE r.value[i - Len(head)]
    BY <1>1, <1>3, ConcatProperties
  <2> QED
    BY <1>3, <2>1
<1>5. Laid(r) = head \o r.value
  BY DEF Laid, head
<1>6. PICK l \in Nat : l = Len(r.value)
  BY <1>2
<1>7. /\ 1 \in 1..(2 + l) /\ 2 \in 1..(2 + l)
      /\ \A k \in 1..l : 2 + k \in 1..(2 + l) /\ ~(2 + k <= 2) /\ (2 + k) - 2 = k
  BY <1>6
<1>8. Laid(r)[1] = r.tag /\ Laid(r)[2] = Len(r.value)
  BY <1>3, <1>4, <1>5, <1>6, <1>7
<1>9. \A k \in 1..l : Laid(r)[2 + k] = r.value[k]
  BY <1>4, <1>5, <1>6, <1>7
<1> QED
  BY <1>1, <1>2, <1>4, <1>5, <1>6, <1>8, <1>9

\* Where the records of a list end in its bytes.
Placed(rs, e) ==
  /\ e \in [0..Len(rs) -> Nat] /\ e[0] = 0 /\ e[Len(rs)] = Len(Bytes(rs))
  /\ \A i \in 1..Len(rs) :
       /\ e[i] = e[i - 1] + 2 + Len(rs[i].value) /\ e[i] <= Len(Bytes(rs))
       /\ Bytes(rs)[e[i - 1] + 1] = rs[i].tag
       /\ Bytes(rs)[e[i - 1] + 2] = Len(rs[i].value)
       /\ \A k \in 1..Len(rs[i].value) : Bytes(rs)[e[i - 1] + 2 + k] = rs[i].value[k]

\* Where a record starts and ends.
LEMMA Offsets ==
  ASSUME NEW b \in Nat, NEW l \in Nat
  PROVE  /\ 1 \in 1..(2 + l) /\ 2 \in 1..(2 + l) /\ b + (2 + l) = b + 2 + l
         /\ \A k \in 1..l : 2 + k \in 1..(2 + l) /\ b + 2 + k = b + (2 + k)
OBVIOUS

\* The bytes of a list of records, and where each of them ends.
LEMMA RecordLayout ==
  ASSUME NEW rs \in Seq(Short)
  PROVE  Bytes(rs) \in Seq(Byte) /\ \E e : Placed(rs, e)
<1> DEFINE ss == [i \in DOMAIN rs |-> Laid(rs[i])]
           n == Len(rs)
<1>0. n \in Nat /\ DOMAIN rs = 1..n /\ \A i \in 1..n : rs[i] \in Short
  BY LenProperties, ElementOfSeq
<1>1. \A i \in 1..n : Laid(rs[i]) \in Seq(Byte)
  BY <1>0, ShortRecord
<1>2. ss \in Lists(Byte) /\ Len(ss) = n /\ \A i \in 1..n : ss[i] = Laid(rs[i])
  <2> HIDE DEF n
  <2>1. ss = [i \in 1..n |-> Laid(rs[i])]
    BY <1>0
  <2>2. ss \in [1..n -> Seq(Byte)]
    BY <1>1, <2>1
  <2> HIDE DEF ss
  <2>3. ss \in Seq(Seq(Byte)) /\ Len(ss) = n
    BY <1>0, <2>2
  <2> QED
    BY <2>1, <2>3 DEF Lists
<1>3. Bytes(rs) = S!FlattenSeq(ss)
  BY DEF Bytes
<1> HIDE DEF ss, n
<1>4. Bytes(rs) \in Seq(Byte) /\ \E e : Layout(ss, Bytes(rs), e)
  BY <1>2, <1>3, FlattenLayout
<1>5. PICK e : Layout(ss, Bytes(rs), e)
  BY <1>4
<1>6. /\ e \in [0..n -> Nat] /\ e[0] = 0 /\ e[n] = Len(Bytes(rs))
      /\ \A i \in 1..n : e[i] = e[i - 1] + Len(ss[i]) /\ e[i] <= Len(Bytes(rs))
      /\ \A i \in 1..n : \A k \in 1..Len(ss[i]) : Bytes(rs)[e[i - 1] + k] = ss[i][k]
  BY <1>2, <1>5 DEF Layout
<1>7. ASSUME NEW i \in 1..n
      PROVE  /\ e[i] = e[i - 1] + 2 + Len(rs[i].value) /\ e[i] <= Len(Bytes(rs))
             /\ Bytes(rs)[e[i - 1] + 1] = rs[i].tag
             /\ Bytes(rs)[e[i - 1] + 2] = Len(rs[i].value)
             /\ \A k \in 1..Len(rs[i].value) : Bytes(rs)[e[i - 1] + 2 + k] = rs[i].value[k]
  <2>1. /\ Len(rs[i].value) \in Nat /\ Len(ss[i]) = 2 + Len(rs[i].value)
        /\ ss[i][1] = rs[i].tag /\ ss[i][2] = Len(rs[i].value)
        /\ \A k \in 1..Len(rs[i].value) : ss[i][2 + k] = rs[i].value[k]
    BY <1>0, <1>2, ShortRecord
  <2>2. PICK l \in Nat, b \in Nat : l = Len(rs[i].value) /\ b = e[i - 1]
    <3>1. i - 1 \in 0..n
      BY <1>0
    <3> QED
      BY <1>6, <2>1, <3>1
  <2>3. /\ 1 \in 1..(2 + l) /\ 2 \in 1..(2 + l)
        /\ \A k \in 1..l : 2 + k \in 1..(2 + l) /\ b + 2 + k = b + (2 + k)
        /\ b + (2 + l) = b + 2 + l
    BY <2>2, Offsets
  <2>4. \A k \in 1..(2 + l) : Bytes(rs)[b + k] = ss[i][k]
    BY <1>6, <2>1, <2>2
  <2>5. e[i] = b + (2 + l) /\ e[i] <= Len(Bytes(rs))
    BY <1>6, <2>1, <2>2
  <2>6. e[i] = b + 2 + l
    BY <2>3, <2>5
  <2>7. ASSUME NEW k \in 1..l PROVE Bytes(rs)[b + 2 + k] = rs[i].value[k]
    <3>1. 2 + k \in 1..(2 + l) /\ b + 2 + k = b + (2 + k)
      BY <2>3
    <3>2. Bytes(rs)[b + (2 + k)] = ss[i][2 + k]
      BY <2>4, <3>1
    <3>3. ss[i][2 + k] = rs[i].value[k]
      BY <2>1, <2>2
    <3> QED
      BY <3>1, <3>2, <3>3
  <2>8. Bytes(rs)[b + 1] = rs[i].tag /\ Bytes(rs)[b + 2] = Len(rs[i].value)
    BY <2>1, <2>3, <2>4
  <2>9. e[i] = e[i - 1] + 2 + Len(rs[i].value)
    BY <2>2, <2>6
  <2>10. /\ Bytes(rs)[e[i - 1] + 1] = rs[i].tag
         /\ Bytes(rs)[e[i - 1] + 2] = Len(rs[i].value)
    BY <2>2, <2>8
  <2>11. \A k \in 1..Len(rs[i].value) : Bytes(rs)[e[i - 1] + 2 + k] = rs[i].value[k]
    BY <2>2, <2>7
  <2> QED
    BY <2>5, <2>9, <2>10, <2>11
<1>8. Placed(rs, e)
  BY <1>6, <1>7 DEF Placed, n
<1> QED
  BY <1>4, <1>8

\* The ends rise.
LEMMA EndsRise ==
  ASSUME NEW rs \in Seq(Short), NEW e, Placed(rs, e), NEW j \in 0..Len(rs), NEW i \in 0..j
  PROVE  e[i] <= e[j]
<1> DEFINE n == Len(rs)
           T == {b \in 0..n : \A a \in 0..b : e[a] <= e[b]}
<1>0. n \in Nat /\ e \in [0..n -> Nat] /\ \A a \in 1..n : Len(rs[a].value) \in Nat
  BY LenProperties, ElementOfSeq, ShortRecord DEF Placed
<1>1. \A a \in 1..n : e[a] = e[a - 1] + 2 + Len(rs[a].value)
  BY DEF Placed
<1> HIDE DEF n
<1>2. 0 \in T
  BY <1>0
<1>3. ASSUME NEW b \in 0..(n - 1), b \in T PROVE b + 1 \in T
  <2>1. b + 1 \in 1..n /\ b + 1 \in 0..n /\ b \in 0..n /\ (b + 1) - 1 = b
    BY <1>0
  <2>2. e[b + 1] = e[b] + 2 + Len(rs[b + 1].value) /\ e[b] \in Nat /\ Len(rs[b + 1].value) \in Nat
    BY <1>0, <1>1, <2>1
  <2>3. e[b + 1] \in Nat /\ e[b] <= e[b + 1]
    BY <2>2
  <2>4. \A a \in 0..b : e[a] <= e[b]
    BY <1>3
  <2> HIDE DEF T
  <2>5. ASSUME NEW a \in 0..(b + 1) PROVE e[a] <= e[b + 1]
    <3>1. CASE a = b + 1
      BY <2>3, <3>1
    <3>2. CASE a # b + 1
      <4>1. a \in 0..b /\ a \in 0..n
        BY <1>0, <3>2
      <4>2. e[a] <= e[b] /\ e[a] \in Nat
        BY <1>0, <2>4, <4>1
      <4> QED
        BY <2>2, <2>3, <4>2
    <3> QED
      BY <3>1, <3>2
  <2> QED
    BY <2>1, <2>5 DEF T
<1>4. \A b \in 0..n : b \in T
  <2> HIDE DEF T
  <2> QED
    BY <1>0, <1>2, <1>3, UpTo
<1> QED
  BY <1>4 DEF n

\* What a prefix of the bytes of records is scanned into: the first of them.
Prefixes(p, s) == p \in Seq(Byte) /\ Len(p) <= Len(s) /\ \A j \in 1..Len(p) : p[j] = s[j]

\* A slice that has the elements of a sequence is that sequence.
LEMMA SliceIs ==
  ASSUME NEW s \in Seq(Byte), NEW w \in Seq(Byte), NEW f \in Nat, NEW m \in Nat, m = Len(w),
         f + 2 + m <= Len(s), \A j \in 1..m : s[f + 2 + j] = w[j]
  PROVE  SubSeq(s, f + 3, f + 2 + m) = w
<1> DEFINE v == SubSeq(s, f + 3, f + 2 + m)
<1>1. /\ f + 3 \in Nat /\ f + 2 + m \in Nat /\ 1 <= f + 3
      /\ (IF f + 3 <= f + 2 + m THEN (f + 2 + m) - (f + 3) + 1 ELSE 0) = m
  OBVIOUS
<1>2. \A j \in 1..m : j \in 1..((f + 2 + m) - (f + 3) + 1) /\ (f + 3) + j - 1 = f + 2 + j
  OBVIOUS
<1>3. /\ v \in Seq(Byte)
      /\ Len(v) = IF f + 3 <= f + 2 + m THEN (f + 2 + m) - (f + 3) + 1 ELSE 0
      /\ \A j \in 1..((f + 2 + m) - (f + 3) + 1) : v[j] = s[(f + 3) + j - 1]
  BY <1>1, Slice
<1> HIDE DEF v
<1>4. Len(v) = m /\ \A j \in 1..m : v[j] = s[(f + 3) + j - 1]
  BY <1>1, <1>2, <1>3
<1>5. \A j \in 1..m : v[j] = w[j]
  BY <1>2, <1>4
<1>6. v = w
  BY <1>3, <1>4, <1>5, SeqEqual
<1> QED
  BY <1>6 DEF v

\* The header of a record starts within it,
LEMMA HeaderWithin ==
  ASSUME NEW l \in Nat, NEW f \in Nat, f + 2 <= l
  PROVE  f + 1 \in 1..l /\ f + 2 \in 1..l
OBVIOUS

\* and so does each byte of its value.
LEMMA ValueWithin ==
  ASSUME NEW l \in Nat, NEW f \in Nat, NEW m \in Nat, f + 2 + m <= l, NEW j \in 1..m
  PROVE  f + 2 + j \in 1..l
OBVIOUS

\* What a scan has found in a payload that starts like the bytes of some records
\* are those records, the first of them.
LEMMA ReadAsLaid ==
  ASSUME NEW rs \in Seq(Short), NEW e, Placed(rs, e), NEW k \in 0..Len(rs),
         Prefixes(payload, Bytes(rs)), Len(payload) <= e[k],
         TlvTypeOK, RecordsTile
  PROVE  Len(found) <= k /\ index = e[Len(found)] /\ \A i \in 1..Len(found) : found[i] = rs[i]
<1> DEFINE n == Len(rs)
           c == Len(found)
           b == Bytes(rs)
           l == Len(payload)
<1>0. /\ n \in Nat /\ c \in Nat /\ l \in Nat /\ b \in Seq(Byte)
      /\ e \in [0..n -> Nat] /\ e[0] = 0 /\ k \in 0..n /\ l <= e[k]
      /\ \A i \in 1..n : rs[i] \in Short
  BY LenProperties, ElementOfSeq, RecordLayout DEF Placed, TlvTypeOK
<1>1. \A i \in 1..n :
        /\ Len(rs[i].value) \in Nat /\ e[i] = e[i - 1] + 2 + Len(rs[i].value)
        /\ b[e[i - 1] + 1] = rs[i].tag /\ b[e[i - 1] + 2] = Len(rs[i].value)
        /\ \A j \in 1..Len(rs[i].value) : b[e[i - 1] + 2 + j] = rs[i].value[j]
  BY <1>0, ShortRecord DEF Placed
<1>2. \A j \in 1..l : payload[j] = b[j]
  BY DEF Prefixes
<1>3. PICK at \in [1..c -> 0..l] : Tiles(at)
  BY DEF RecordsTile
<1>4. /\ Begins(at, c + 1) = index
      /\ \A i \in 1..c :
           /\ Begins(at, i) + 2 <= l /\ at[i] = Begins(at, i) + 2 + payload[Begins(at, i) + 2]
           /\ found[i] = [tag |-> payload[Begins(at, i) + 1],
                          value |-> SubSeq(payload, Begins(at, i) + 3, at[i])]
  BY <1>3 DEF Tiles
<1>5. Begins(at, 1) = 0 /\ \A i \in 1..c : Begins(at, i + 1) = at[i] /\ at[i] \in 0..l
  BY <1>0, <1>3 DEF Begins
<1>6. payload \in Seq(Byte)
  BY DEF TlvTypeOK
<1> HIDE DEF n, c, b, l
<1>a. n \in Nat /\ c \in Nat /\ l \in Nat
  BY <1>0
<1> DEFINE T == {i \in 0..c : i <= k /\ Begins(at, i + 1) = e[i] /\ (i > 0 => found[i] = rs[i])}
<1>7. 0 \in T
  <2>1. 0 \in 0..c /\ 0 <= k
    BY <1>0
  <2> QED
    BY <1>0, <1>5, <2>1
<1>8. ASSUME NEW i \in 0..(c - 1), i \in T PROVE i + 1 \in T
  <2>2. i <= k /\ Begins(at, i + 1) = e[i]
    BY <1>8
  <2> HIDE DEF T
  <2>1. i + 1 \in 1..c /\ i + 1 \in 0..c /\ i \in Nat /\ i <= k /\ i \in 0..n /\ (i + 1) - 1 = i
    BY <1>0, <2>2
  <2>3. PICK f \in Nat : f = e[i]
    BY <1>0, <2>1
  <2>4. f + 2 <= l /\ at[i + 1] = f + 2 + payload[f + 2]
        /\ found[i + 1] = [tag |-> payload[f + 1], value |-> SubSeq(payload, f + 3, at[i + 1])]
        /\ at[i + 1] \in 0..l
    BY <1>4, <1>5, <2>1, <2>2, <2>3
  <2>5. i # k
    BY <1>0, <2>3, <2>4
  <2>6. i + 1 \in 1..n /\ i + 1 <= k
    BY <1>0, <2>1, <2>5
  <2>7. PICK m \in Nat : m = Len(rs[i + 1].value)
    BY <1>1, <2>6
  <2>8. /\ e[i + 1] = f + 2 + m /\ b[f + 1] = rs[i + 1].tag /\ b[f + 2] = m
        /\ \A j \in 1..m : b[f + 2 + j] = rs[i + 1].value[j]
    BY <1>1, <2>1, <2>3, <2>6, <2>7
  <2>9. f + 1 \in 1..l /\ f + 2 \in 1..l
    <3>1. f + 2 <= l
      BY <2>4
    <3> QED
      BY <1>a, <2>3, <3>1, HeaderWithin
  <2>10. payload[f + 1] = rs[i + 1].tag /\ payload[f + 2] = m
    BY <1>2, <2>8, <2>9
  <2>11. at[i + 1] = f + 2 + m /\ f + 2 + m <= l
    BY <1>0, <2>3, <2>4, <2>7, <2>10
  <2>12. SubSeq(payload, f + 3, f + 2 + m) = rs[i + 1].value
    <3>1. rs[i + 1].value \in Seq(Byte)
      BY <1>0, <2>6, ShortRecord
    <3>2. f + 2 + m <= Len(payload)
      BY <2>11 DEF l
    <3>3. ASSUME NEW j \in 1..m PROVE payload[f + 2 + j] = rs[i + 1].value[j]
      <4>1. f + 2 + j \in 1..l
        BY <1>a, <2>3, <2>7, <2>11, ValueWithin
      <4> QED
        BY <1>2, <2>8, <4>1
    <3> QED
      BY <1>6, <2>7, <3>1, <3>2, <3>3, SliceIs
  <2>13. found[i + 1] = rs[i + 1]
    <3>1. rs[i + 1] = [tag |-> rs[i + 1].tag, value |-> rs[i + 1].value]
      BY <1>0, <2>6, ShortRecord
    <3>2. found[i + 1] = [tag |-> rs[i + 1].tag, value |-> rs[i + 1].value]
      BY <2>4, <2>10, <2>11, <2>12
    <3> QED
      BY <3>1, <3>2
  <2>14. Begins(at, (i + 1) + 1) = e[i + 1]
    BY <1>5, <2>1, <2>8, <2>11
  <2> QED
    BY <2>1, <2>6, <2>13, <2>14 DEF T
<1>9. \A i \in 0..c : i \in T
  <2> HIDE DEF T
  <2> QED
    BY <1>0, <1>7, <1>8, UpTo
<1>10. c <= k /\ index = e[c]
  <2>1. c \in 0..c
    BY <1>0
  <2> QED
    BY <1>4, <1>9, <2>1
<1>11. \A i \in 1..c : found[i] = rs[i]
  <2>1. \A i \in 1..c : i \in 0..c /\ i > 0
    BY <1>0
  <2> QED
    BY <1>9, <2>1
<1> QED
  BY <1>10, <1>11 DEF c

\* The first records of a list end where they did.
LEMMA FirstEnds ==
  ASSUME NEW rs \in Seq(Short), NEW e, Placed(rs, e), NEW k \in 0..Len(rs)
  PROVE  SubSeq(rs, 1, k) \in Seq(Short) /\ Len(SubSeq(rs, 1, k)) = k /\ Len(Bytes(SubSeq(rs, 1, k))) = e[k]
<1> DEFINE fs == SubSeq(rs, 1, k)
           n == Len(rs)
<1>0. n \in Nat /\ k \in Nat /\ k \in 0..n /\ k <= n
  BY LenProperties
<1>1. fs \in Seq(Short) /\ Len(fs) = k /\ \A i \in 1..k : fs[i] = rs[i]
  <2>1. /\ fs \in Seq(Short) /\ Len(fs) = IF 1 <= k THEN k - 1 + 1 ELSE 0
        /\ \A i \in 1..(k - 1 + 1) : fs[i] = rs[1 + i - 1]
    BY <1>0, Slice
  <2> HIDE DEF fs
  <2>2. Len(fs) = k
    BY <1>0, <2>1
  <2>3. ASSUME NEW i \in 1..k PROVE fs[i] = rs[i]
    <3>1. i \in 1..(k - 1 + 1) /\ 1 + i - 1 = i
      BY <1>0
    <3> QED
      BY <2>1, <3>1
  <2> QED
    BY <2>1, <2>2, <2>3
<1>2. PICK d : Placed(fs, d)
  BY <1>1, RecordLayout
<1> HIDE DEF fs, n
<1>3. /\ d \in [0..k -> Nat] /\ d[0] = 0 /\ d[k] = Len(Bytes(fs))
      /\ \A i \in 1..k : d[i] = d[i - 1] + 2 + Len(rs[i].value)
  BY <1>1, <1>2 DEF Placed
<1>4. /\ e \in [0..n -> Nat] /\ e[0] = 0
      /\ \A i \in 1..n : e[i] = e[i - 1] + 2 + Len(rs[i].value)
  BY DEF Placed, n
<1> DEFINE T == {i \in 0..k : d[i] = e[i]}
<1>5. 0 \in T
  BY <1>0, <1>3, <1>4
<1>6. ASSUME NEW i \in 0..(k - 1), i \in T PROVE i + 1 \in T
  <2>1. i + 1 \in 1..k /\ i + 1 \in 1..n /\ i + 1 \in 0..k /\ (i + 1) - 1 = i
    BY <1>0
  <2>2. d[i] = e[i]
    BY <1>6
  <2> HIDE DEF T
  <2>3. d[i + 1] = d[i] + 2 + Len(rs[i + 1].value) /\ e[i + 1] = e[i] + 2 + Len(rs[i + 1].value)
    BY <1>3, <1>4, <2>1
  <2> QED
    BY <2>1, <2>2, <2>3 DEF T
<1>7. d[k] = e[k]
  <2> HIDE DEF T
  <2>1. \A i \in 0..k : i \in T
    BY <1>0, <1>5, <1>6, UpTo
  <2>2. k \in 0..k
    BY <1>0
  <2> QED
    BY <2>1, <2>2 DEF T
<1> QED
  BY <1>1, <1>3, <1>7 DEF fs

\* A cut payload with no more records than the limit.
LEMMA RoomFor ==
  ASSUME NEW f \in Nat, NEW m \in Nat, NEW l \in Nat, f + 2 + m <= l
  PROVE  f < l /\ ~(f + 2 > l) /\ ~(f + 2 + m > l)
OBVIOUS

\* A message as long as its records and no longer is read to its end.
THEOREM WholeRead ==
  ASSUME NEW rs \in Seq(Short), payload = Bytes(rs), Len(rs) <= MaxRecords,
         TlvInv, ~scanning
  PROVE  found = rs /\ tail = <<>>
<1> DEFINE n == Len(rs)
           c == Len(found)
           l == Len(payload)
<1>0. /\ n \in Nat /\ c \in Nat /\ l \in Nat /\ n \in 0..n /\ n \in 0..MaxRecords
      /\ \A i \in 1..n : rs[i] \in Short
  BY LenProperties, ElementOfSeq, TlvAssumption DEF TlvInv, TlvTypeOK
<1>1. PICK e : Placed(rs, e)
  BY RecordLayout
<1>2. /\ e \in [0..n -> Nat] /\ e[0] = 0 /\ e[n] = l
      /\ \A i \in 1..n :
           /\ Len(rs[i].value) \in Nat /\ e[i] = e[i - 1] + 2 + Len(rs[i].value) /\ e[i] <= l
           /\ payload[e[i - 1] + 2] = Len(rs[i].value)
  BY <1>0, <1>1, ShortRecord DEF Placed
<1>3. c <= n /\ index = e[c] /\ \A i \in 1..c : found[i] = rs[i]
  <2>1. Prefixes(payload, Bytes(rs)) /\ Len(payload) <= e[n]
    BY <1>0, <1>2 DEF Prefixes, TlvInv, TlvTypeOK
  <2> QED
    BY <1>0, <1>1, <2>1, ReadAsLaid DEF TlvInv
<1>4. Stopped /\ TlvTypeOK
  BY DEF TlvInv
<1> HIDE DEF n, c, l
<1>5. c = n
  <2> SUFFICES ASSUME c # n PROVE FALSE
    OBVIOUS
  <2>1. c + 1 \in 1..n /\ (c + 1) - 1 = c /\ c \in 0..n
    BY <1>0, <1>3
  <2>2. PICK f \in Nat, m \in Nat : f = e[c] /\ m = Len(rs[c + 1].value)
    BY <1>2, <2>1
  <2>3. e[c + 1] = f + 2 + m /\ e[c + 1] <= l /\ payload[f + 2] = m
    BY <1>2, <2>1, <2>2
  <2>4. f + 2 + m <= l
    BY <2>3
  <2>5. index = f /\ End = f + 2 + m
    BY <1>3, <2>2, <2>3 DEF End
  <2>6. index < l /\ ~(index + 2 > l) /\ ~(End > l)
    <3>1. f < l /\ ~(f + 2 > l) /\ ~(f + 2 + m > l)
      BY <1>0, <2>4, RoomFor
    <3> QED
      BY <2>5, <3>1
  <2>7. ~(c >= MaxRecords)
    BY <1>0, <2>1, TlvAssumption
  <2> QED
    BY <1>4, <2>6, <2>7 DEF Stopped, c, l
<1>6. tail = <<>>
  BY <1>2, <1>3, <1>4, <1>5 DEF Stopped, l
<1>7. found = rs
  <2>1. found \in Seq(Records) /\ rs \in Seq(Records)
    <3>1. Short \subseteq Records
      BY DEF Short
    <3> QED
      BY <1>4, <3>1, SeqMonotonic DEF TlvTypeOK
  <2>2. Len(found) = Len(rs) /\ \A i \in 1..Len(found) : found[i] = rs[i]
    BY <1>3, <1>5 DEF c, n
  <2> QED
    BY <2>1, <2>2, SeqEqual
<1> QED
  BY <1>6, <1>7

\* A message that ends within its record k is read without remainder only if
\* it ends with it.
LEMMA CompleteRead ==
  ASSUME NEW rs \in Seq(Short), NEW e, Placed(rs, e), NEW k \in 0..Len(rs),
         Prefixes(payload, Bytes(rs)), Len(payload) <= e[k], k # 0 => Len(payload) > e[k - 1],
         TlvInv, ~scanning, tail = <<>>
  PROVE  Len(found) = k /\ \A i \in 1..k : found[i] = rs[i]
<1> DEFINE c == Len(found)
<1>1. c <= k /\ index = e[c] /\ \A i \in 1..c : found[i] = rs[i]
  BY ReadAsLaid DEF TlvInv
<1>2. index = Len(payload) /\ c \in Nat /\ Len(payload) \in Nat
  BY LenProperties DEF TlvInv, TlvTypeOK, Stopped
<1>3. k \in Nat /\ Len(rs) \in Nat /\ k <= Len(rs) /\ e \in [0..Len(rs) -> Nat]
  BY LenProperties DEF Placed
<1> HIDE DEF c
<1>4. c = k
  <2> SUFFICES ASSUME c # k PROVE FALSE
    OBVIOUS
  <2>1. k # 0 /\ k - 1 \in 0..Len(rs) /\ c \in 0..(k - 1)
    BY <1>1, <1>2, <1>3
  <2>2. e[c] <= e[k - 1]
    BY <2>1, EndsRise
  <2>3. e[c] = Len(payload) /\ Len(payload) > e[k - 1] /\ e[k - 1] \in Nat
    BY <1>1, <1>2, <1>3, <2>1
  <2> QED
    BY <1>2, <2>2, <2>3
<1> QED
  BY <1>1, <1>4 DEF c

\* A number is read back as it was written, if its last quotient fits the
\* last byte.
Fits(x, signed) == IF signed THEN x \in -128..127 ELSE x \in 0..255

\* The sign of a number is that of its highest byte.
LEMMA TopByte ==
  ASSUME NEW x \in Int, NEW signed \in BOOLEAN, Fits(x, signed)
  PROVE  (IF signed /\ x % 256 >= 128 THEN (x % 256) - 256 ELSE x % 256) = x
<1>1. CASE signed
  <2>1. x \in -128..127
    BY <1>1 DEF Fits
  <2>2. (x >= 0 => x % 256 = x) /\ (x < 0 => x % 256 = x + 256)
    BY <2>1
  <2> QED
    BY <1>1, <2>1, <2>2
<1>2. CASE ~signed
  <2>1. x \in 0..255
    BY <1>2 DEF Fits
  <2>2. x % 256 = x
    BY <2>1
  <2> QED
    BY <1>2, <2>2
<1> QED
  BY <1>1, <1>2

\* A number from its quotient and its remainder.
LEMMA Requotient ==
  ASSUME NEW x \in Int PROVE x = (x % 256) + 256 * (x \div 256)
OBVIOUS

\* A number that fits is read back as it was written.
THEOREM ReadBack ==
  ASSUME NEW n \in Int, NEW width \in Nat, width # 0, NEW signed \in BOOLEAN,
         \A r : Quotients(r, n, width) => Fits(r[width], signed)
  PROVE  FromBytes(LittleEndian(n, width), signed) = n
<1> DEFINE s == LittleEndian(n, width)
<1>1. Len(s) = width /\ \E r : Quotients(r, n, width) /\ s = [i \in 1..width |-> r[i] % 256]
  BY LittleEndianBytes
<1>2. PICK r : Quotients(r, n, width) /\ s = [i \in 1..width |-> r[i] % 256]
  BY <1>1
<1> HIDE DEF s
<1>3. /\ r \in [1..width -> Int] /\ r[1] = n /\ \A i \in 2..width : r[i] = r[i - 1] \div 256
      /\ Fits(r[width], signed)
  BY <1>2 DEF Quotients
<1>4. \A i \in 1..width : s[i] = r[i] % 256 /\ r[i] \in Int
  BY <1>2, <1>3
<1> DEFINE top == IF signed /\ s[Len(s)] >= 128 THEN s[Len(s)] - 256 ELSE s[Len(s)]
           P(f) == f = [i \in 1..Len(s) |-> IF i = Len(s) THEN top ELSE s[i] + 256 * f[i + 1]]
           back == CHOOSE f : P(f)
<1>5. FromBytes(s, signed) = back[1]
  BY DEF FromBytes
<1>6. top = r[width]
  <2>1. width \in 1..width
    OBVIOUS
  <2>2. s[width] = r[width] % 256 /\ r[width] \in Int
    BY <1>4, <2>1
  <2>3. (IF signed /\ r[width] % 256 >= 128 THEN (r[width] % 256) - 256 ELSE r[width] % 256) = r[width]
    BY <1>3, <2>2, TopByte
  <2> QED
    BY <1>1, <2>2, <2>3
<1> HIDE DEF top
<1>7. ASSUME NEW i \in 1..width, i # width PROVE r[i] = s[i] + 256 * r[i + 1]
  <2>1. i + 1 \in 2..width /\ (i + 1) - 1 = i
    BY <1>7
  <2>2. r[i + 1] = r[i] \div 256 /\ s[i] = r[i] % 256 /\ r[i] \in Int
    BY <1>3, <1>4, <2>1
  <2>3. r[i] = (r[i] % 256) + 256 * (r[i] \div 256)
    BY <2>2, Requotient
  <2> QED
    BY <2>2, <2>3
<1>8. P(r)
  <2> DEFINE h == [i \in 1..width |-> IF i = width THEN top ELSE s[i] + 256 * r[i + 1]]
  <2>1. \A i \in 1..width : h[i] = r[i]
    BY <1>6, <1>7
  <2>2. h = [i \in 1..width |-> h[i]] /\ r = [i \in 1..width |-> r[i]]
    BY <1>3
  <2>3. h = r
    <3> HIDE DEF h
    <3> QED
      BY <2>1, <2>2
  <2> QED
    BY <1>1, <2>3, Zenon
<1>9. P(back)
  <2> HIDE DEF P
  <2> QED
    BY <1>8
<1>10. PICK f : f = back /\ P(f)
  BY <1>9
<1>11. \A i \in 1..width : f[i] = IF i = width THEN top ELSE s[i] + 256 * f[i + 1]
  <2> DEFINE Q(size) == f = [i \in 1..size |-> IF i = size THEN top ELSE s[i] + 256 * f[i + 1]]
  <2>0. Q(Len(s))
    BY <1>10
  <2>1. Q(width)
    <3> HIDE DEF Q
    <3> QED
      BY <1>1, <2>0, Zenon
  <2> DEFINE g == [i \in 1..width |-> IF i = width THEN top ELSE s[i] + 256 * f[i + 1]]
  <2>2. \A i \in 1..width : g[i] = IF i = width THEN top ELSE s[i] + 256 * f[i + 1]
    OBVIOUS
  <2>3. f = g
    BY <2>1
  <2> HIDE DEF g
  <2> QED
    BY <2>2, <2>3, Zenon
<1> HIDE DEF P, back
<1> DEFINE T == {j \in 0..(width - 1) : f[width - j] = r[width - j]}
<1>12. 0 \in T
  <2>1. 0 \in 0..(width - 1) /\ width - 0 = width /\ width \in 1..width
    OBVIOUS
  <2> QED
    BY <1>6, <1>11, <2>1
<1>13. ASSUME NEW j \in 0..((width - 1) - 1), j \in T PROVE j + 1 \in T
  <2> DEFINE i == width - (j + 1)
  <2>1. i \in 1..width /\ i # width /\ i + 1 = width - j /\ j + 1 \in 0..(width - 1)
    OBVIOUS
  <2>2. f[width - j] = r[width - j]
    BY <1>13
  <2> HIDE DEF T, i
  <2>3. f[i] = s[i] + 256 * f[i + 1] /\ r[i] = s[i] + 256 * r[i + 1]
    BY <1>7, <1>11, <2>1
  <2>4. f[i] = r[i]
    BY <2>1, <2>2, <2>3
  <2> QED
    BY <2>1, <2>4 DEF T, i
<1>14. f[1] = r[1]
  <2> HIDE DEF T
  <2>1. \A j \in 0..(width - 1) : j \in T
    <3>1. width - 1 \in Nat
      OBVIOUS
    <3> QED
      BY <1>12, <1>13, <3>1, UpTo
  <2>2. width - 1 \in 0..(width - 1) /\ width - (width - 1) = 1
    OBVIOUS
  <2> QED
    BY <2>1, <2>2 DEF T
<1> QED
  BY <1>3, <1>5, <1>10, <1>14 DEF s

\* In particular in two bytes, and in four.
LEMMA ReadBack16 ==
  ASSUME NEW n \in Int, Fits(n \div 256, TRUE)
  PROVE  FromBytes(LittleEndian(n, 2), TRUE) = n
<1>1. ASSUME NEW r, Quotients(r, n, 2) PROVE Fits(r[2], TRUE)
  <2>1. 2 \in 2..2 /\ 2 - 1 = 1
    OBVIOUS
  <2>2. r[2] = n \div 256
    BY <1>1, <2>1 DEF Quotients
  <2> QED
    BY <2>2
<1>2. n \in Int /\ 2 \in Nat /\ 2 # 0 /\ TRUE \in BOOLEAN
  OBVIOUS
<1>3. \A r : Quotients(r, n, 2) => Fits(r[2], TRUE)
  BY <1>1, Zenon
<1> QED
  BY <1>2, <1>3, ReadBack, Zenon

\* The same in four bytes.
LEMMA ReadBack32 ==
  ASSUME NEW n \in Int, Fits(((n \div 256) \div 256) \div 256, TRUE)
  PROVE  FromBytes(LittleEndian(n, 4), TRUE) = n
<1>1. ASSUME NEW r, Quotients(r, n, 4) PROVE Fits(r[4], TRUE)
  <2>1. 2 \in 2..4 /\ 2 - 1 = 1 /\ 3 \in 2..4 /\ 3 - 1 = 2 /\ 4 \in 2..4 /\ 4 - 1 = 3
    OBVIOUS
  <2>2. r[4] = r[3] \div 256 /\ r[3] = r[2] \div 256 /\ r[2] = n \div 256
    BY <1>1, <2>1 DEF Quotients
  <2>3. r[4] = ((n \div 256) \div 256) \div 256
    BY <2>2
  <2> QED
    BY <2>3
<1>2. n \in Int /\ 4 \in Nat /\ 4 # 0 /\ TRUE \in BOOLEAN
  OBVIOUS
<1>3. \A r : Quotients(r, n, 4) => Fits(r[4], TRUE)
  BY <1>1, Zenon
<1> QED
  BY <1>2, <1>3, ReadBack, Zenon

-----------------------------------------------------------------------------
(* Frames, built and read.                                                 *)

\* Two sequences joined, of a and of b elements.
Joins2(w, s, a, t, b) ==
  /\ Len(w) = a + b
  /\ \A i \in 1..a : w[i] = s[i]
  /\ \A j \in 1..b : w[a + j] = t[j]

\* Joining two sequences makes that of them.
LEMMA Joined ==
  ASSUME NEW R, NEW s \in Seq(R), NEW t \in Seq(R)
  PROVE  s \o t \in Seq(R) /\ Joins2(s \o t, s, Len(s), t, Len(t))
<1> DEFINE w == s \o t
<1>1. PICK a \in Nat, b \in Nat : a = Len(s) /\ b = Len(t)
  BY LenProperties
<1>2. w \in Seq(R) /\ Len(w) = a + b
      /\ \A i \in 1..(a + b) : w[i] = IF i <= a THEN s[i] ELSE t[i - a]
  BY <1>1, ConcatProperties
<1> HIDE DEF w
<1>3. ASSUME NEW i \in 1..a PROVE w[i] = s[i]
  <2>1. i \in 1..(a + b) /\ i <= a
    OBVIOUS
  <2> QED
    BY <1>2, <2>1
<1>4. ASSUME NEW j \in 1..b PROVE w[a + j] = t[j]
  <2>1. a + j \in 1..(a + b) /\ ~(a + j <= a) /\ (a + j) - a = j
    OBVIOUS
  <2> QED
    BY <1>2, <2>1
<1>5. Joins2(w, s, a, t, b)
  BY <1>2, <1>3, <1>4 DEF Joins2
<1> QED
  BY <1>1, <1>2, <1>5 DEF w

\* The second of them is a slice.
LEMMA SecondPart ==
  ASSUME NEW R, NEW s \in Seq(R), NEW t \in Seq(R), NEW m \in Nat, m = Len(s) + 1
  PROVE  SubSeq(s \o t, m, Len(s \o t)) = t
<1>0. PICK a \in Nat, b \in Nat : a = Len(s) /\ b = Len(t) /\ m = a + 1
  BY LenProperties
<1> DEFINE w == s \o t
<1>1. w \in Seq(R) /\ Joins2(w, s, a, t, b)
  BY <1>0, Joined, Zenon
<1> HIDE DEF w
<1>2. Len(w) = a + b /\ \A j \in 1..b : w[a + j] = t[j]
  BY <1>1 DEF Joins2
<1>3. PICK c \in Nat : c = a + b /\ c = Len(w)
  BY <1>2
<1> DEFINE v == SubSeq(w, m, c)
<1>4. /\ v \in Seq(R) /\ Len(v) = IF m <= c THEN c - m + 1 ELSE 0
      /\ \A j \in 1..(c - m + 1) : v[j] = w[m + j - 1]
  <2>1. 1 <= m /\ c <= Len(w)
    BY <1>0, <1>3
  <2>2. w \in Seq(R)
    BY <1>1
  <2> QED
    BY <2>1, <2>2, Slice
<1> HIDE DEF v
<1>5. Len(v) = b
  BY <1>0, <1>3, <1>4
<1>6. ASSUME NEW j \in 1..b PROVE v[j] = t[j]
  <2>1. j \in 1..(c - m + 1) /\ m + j - 1 = a + j
    BY <1>0, <1>3
  <2> QED
    BY <1>2, <1>4, <2>1
<1>7. v = t
  BY <1>0, <1>4, <1>5, <1>6, SeqEqual
<1> QED
  BY <1>3, <1>7, Zenon DEF v, w

\* A length of two bytes is read back.
LEMMA LengthBack ==
  ASSUME NEW n \in Nat, n \div 256 <= 255
  PROVE  /\ LittleEndian(n, 2) \in Seq(Byte) /\ Len(LittleEndian(n, 2)) = 2
         /\ LittleEndian(n, 2)[1] + 256 * LittleEndian(n, 2)[2] = n
<1>1. n \in Int /\ 2 \in Nat /\ 2 # 0
  OBVIOUS
<1>2. LittleEndian(n, 2) \in Seq(Byte) /\ Len(LittleEndian(n, 2)) = 2
  BY <1>1, LittleEndianBytes, Zenon
<1>3. LittleEndian(n, 2)[1] = n % 256 /\ LittleEndian(n, 2)[2] = (n \div 256) % 256
  BY <1>1, TwoBytes
<1>4. (n \div 256) % 256 = n \div 256 /\ n = (n % 256) + 256 * (n \div 256)
  <2>1. PICK q \in Nat : q = n \div 256 /\ q <= 255
    OBVIOUS
  <2>2. q % 256 = q
    BY <2>1
  <2>3. n = (n % 256) + 256 * (n \div 256)
    BY Requotient
  <2> QED
    BY <2>1, <2>2, <2>3
<1> QED
  BY <1>2, <1>3, <1>4

\* A header without its first byte.
LEMMA RestOf ==
  ASSUME NEW h \in Seq(Byte), Len(h) = 6
  PROVE  Tail(h) \in Seq(Byte) /\ Len(Tail(h)) = 5 /\ \A i \in 1..5 : Tail(h)[i] = h[i + 1]
<1>1. h # <<>>
  OBVIOUS
<1>2. /\ Tail(h) \in Seq(Byte) /\ Len(Tail(h)) = Len(h) - 1
      /\ \A i \in 1..Len(Tail(h)) : Tail(h)[i] = h[i + 1]
  BY <1>1, HeadTailProperties
<1> DEFINE t == Tail(h)
<1> HIDE DEF t
<1>3. Len(t) = 5
  BY <1>2 DEF t
<1> QED
  BY <1>2, <1>3 DEF t

\* The part of a sealed envelope the checksum is of.
LEMMA Summed ==
  ASSUME NEW h \in Seq(Byte), NEW p \in Seq(Byte), NEW e \in Seq(Byte),
         Len(h) = 6, Len(e) = 2, NEW m \in Nat, m = 6 + Len(p)
  PROVE  Tail(h) \o p = SubSeq((h \o p) \o e, 2, m)
<1> DEFINE t == Tail(h)
           x == h \o p
           u == t \o p
           w == x \o e
           v == SubSeq(w, 2, m)
<1>0. PICK l \in Nat : l = Len(p) /\ m = 6 + l
  BY LenProperties
<1>1. t \in Seq(Byte) /\ Len(t) = 5 /\ \A i \in 1..5 : t[i] = h[i + 1]
  BY RestOf
<1>2. x \in Seq(Byte) /\ Joins2(x, h, 6, p, l)
  BY <1>0, Joined, Zenon
<1> HIDE DEF t
<1>3. u \in Seq(Byte) /\ Joins2(u, t, 5, p, l)
  BY <1>0, <1>1, Joined, Zenon
<1> HIDE DEF u, x
<1>4. Len(x) = m
  BY <1>0, <1>2 DEF Joins2
<1>5. w \in Seq(Byte) /\ Joins2(w, x, m, e, 2)
  BY <1>2, <1>4, Joined, Zenon
<1> HIDE DEF w
<1>6. /\ v \in Seq(Byte) /\ Len(v) = IF 2 <= m THEN m - 2 + 1 ELSE 0
      /\ \A i \in 1..(m - 2 + 1) : v[i] = w[2 + i - 1]
  <2>1. 2 \in Nat /\ 1 <= 2 /\ m <= Len(w)
    BY <1>5 DEF Joins2
  <2> QED
    BY <1>5, <2>1, Slice
<1> HIDE DEF v
<1>7. Len(v) = 5 + l
  BY <1>0, <1>6
<1>8. ASSUME NEW i \in 1..(5 + l) PROVE v[i] = u[i]
  <2>1. i \in 1..(m - 2 + 1) /\ 2 + i - 1 = i + 1 /\ i + 1 \in 1..m
    BY <1>0
  <2>2. v[i] = x[i + 1]
    BY <1>5, <1>6, <2>1 DEF Joins2
  <2>3. CASE i <= 5
    <3>1. i \in 1..5 /\ i + 1 \in 1..6
      BY <2>3
    <3> QED
      BY <1>1, <1>2, <1>3, <2>2, <3>1 DEF Joins2
  <2>4. CASE ~(i <= 5)
    <3>1. PICK j \in 1..l : i = 5 + j /\ i + 1 = 6 + j
      <4>1. i - 5 \in 1..l /\ i = 5 + (i - 5) /\ i + 1 = 6 + (i - 5)
        BY <2>4
      <4> QED
        BY <4>1
    <3> QED
      BY <1>2, <1>3, <2>2, <3>1 DEF Joins2
  <2> QED
    BY <2>3, <2>4
<1>9. u \in Seq(Byte) /\ Len(u) = 5 + l
  BY <1>3 DEF Joins2
<1>10. v = u
  BY <1>6, <1>7, <1>8, <1>9, SeqEqual
<1> QED
  BY <1>10 DEF v, u, w, x, t

\* The bytes before the message.
LEMMA HeadIs ==
  ASSUME NEW k \in Seq(Byte), NEW f \in Seq(Byte), Len(k) = 4, Len(f) = 2
  PROVE  LET h == k \o f IN
         /\ h \in Seq(Byte) /\ Len(h) = 6
         /\ h[1] = k[1] /\ h[2] = k[2] /\ h[3] = k[3] /\ h[4] = k[4] /\ h[5] = f[1] /\ h[6] = f[2]
<1> DEFINE h == k \o f
<1>1. h \in Seq(Byte) /\ Joins2(h, k, 4, f, 2)
  BY Joined, Zenon
<1> HIDE DEF h
<1>2. /\ Len(h) = 4 + 2
      /\ \A i \in 1..4 : h[i] = k[i]
      /\ \A j \in 1..2 : h[4 + j] = f[j]
  BY <1>1 DEF Joins2
<1>3. /\ 1 \in 1..4 /\ 2 \in 1..4 /\ 3 \in 1..4 /\ 4 \in 1..4
      /\ 1 \in 1..2 /\ 2 \in 1..2 /\ 4 + 1 = 5 /\ 4 + 2 = 6
  OBVIOUS
<1>4. h[1] = k[1] /\ h[2] = k[2] /\ h[3] = k[3] /\ h[4] = k[4] /\ h[4 + 1] = f[1] /\ h[4 + 2] = f[2]
  BY <1>2, <1>3, Zenon
<1> QED
  BY <1>1, <1>2, <1>3, <1>4 DEF h

\* What wrap_null_session makes is sealed, around its message.
LEMMA WrapIs ==
  ASSUME NEW p \in Seq(Byte), NEW l \in Nat, Len(p) = l, 2 <= l, l \div 256 <= 255
  PROVE  /\ WrapNullSession(p) \in Seq(Byte) /\ Len(WrapNullSession(p)) = l + 8
         /\ Sealed(WrapNullSession(p))
         /\ \A j \in 1..l : WrapNullSession(p)[6 + j] = p[j]
<1> DEFINE k == <<171, 0, 0, 0>>
           f == LittleEndian(l, 2)
           h == k \o f
           c == Crc8(Tail(h) \o p)
           e == <<c, 84>>
           x == h \o p
           w == x \o e
<1>1. WrapNullSession(p) = w
  BY DEF WrapNullSession
<1>2. k \in Seq(Byte) /\ Len(k) = 4 /\ k[1] = 171 /\ k[2] = 0 /\ k[3] = 0 /\ k[4] = 0
  BY DEF Byte
<1>3. f \in Seq(Byte) /\ Len(f) = 2 /\ f[1] + 256 * f[2] = l
  BY LengthBack
<1> HIDE DEF k, f
<1>4. /\ h \in Seq(Byte) /\ Len(h) = 6 /\ h[1] = 171 /\ h[2] = 0 /\ h[3] = 0 /\ h[4] = 0
      /\ h[5] = f[1] /\ h[6] = f[2]
  BY <1>2, <1>3, HeadIs
<1> HIDE DEF h
<1>5. x \in Seq(Byte) /\ Joins2(x, h, 6, p, l)
  <2>1. h \in Seq(Byte) /\ Len(h) = 6
    BY <1>4
  <2> QED
    BY <2>1, Joined, Zenon
<1>6. Tail(h) \o p \in Seq(Byte)
  <2>1. Tail(h) \in Seq(Byte)
    BY <1>4, RestOf
  <2> QED
    BY <2>1, ConcatProperties
<1>7. c \in Byte
  BY <1>6, Crc8Type
<1>8. e \in Seq(Byte) /\ Len(e) = 2 /\ e[1] = c /\ e[2] = 84
  <2> HIDE DEF c
  <2> QED
    BY <1>7 DEF Byte
<1> HIDE DEF e
<1>9. PICK m \in Nat : m = 6 + l
  OBVIOUS
<1>10. Tail(h) \o p = SubSeq(w, 2, m)
  <2>1. h \in Seq(Byte) /\ Len(h) = 6 /\ e \in Seq(Byte) /\ Len(e) = 2 /\ m = 6 + Len(p)
    BY <1>4, <1>8, <1>9
  <2> QED
    BY <2>1, Summed, Zenon
<1> HIDE DEF x
<1>11. w \in Seq(Byte) /\ Joins2(w, x, m, e, 2)
  <2>1. x \in Seq(Byte) /\ Len(x) = m /\ e \in Seq(Byte) /\ Len(e) = 2
    BY <1>5, <1>8, <1>9 DEF Joins2
  <2> QED
    BY <2>1, Joined, Zenon
<1> HIDE DEF w
<1>12. Len(w) = m + 2 /\ w[m + 1] = c /\ w[m + 2] = 84
  BY <1>8, <1>11 DEF Joins2
<1>13. \A i \in 1..6 : w[i] = h[i]
  <2>1. \A i \in 1..6 : i \in 1..m
    BY <1>9
  <2> QED
    BY <1>5, <1>11, <2>1 DEF Joins2
<1>14. \A j \in 1..l : w[6 + j] = p[j]
  <2>1. \A j \in 1..l : 6 + j \in 1..m
    BY <1>9
  <2> QED
    BY <1>5, <1>11, <2>1 DEF Joins2
<1>15. /\ w[1] = 171 /\ w[2] = 0 /\ w[3] = 0 /\ w[4] = 0 /\ w[5] = f[1] /\ w[6] = f[2]
  <2>1. 1 \in 1..6 /\ 2 \in 1..6 /\ 3 \in 1..6 /\ 4 \in 1..6 /\ 5 \in 1..6 /\ 6 \in 1..6
    OBVIOUS
  <2>2. w[1] = h[1] /\ w[2] = h[2] /\ w[3] = h[3] /\ w[4] = h[4] /\ w[5] = h[5] /\ w[6] = h[6]
    BY <1>13, <2>1, Zenon
  <2> QED
    BY <1>4, <2>2
<1>16. Unsigned(SubSeq(w, 5, 6)) = l
  <2>1. 5 \in Nat /\ 6 \in Nat /\ 1 <= 5 /\ 6 = 5 + 1 /\ 6 <= Len(w)
    BY <1>9, <1>12
  <2>2. Unsigned(SubSeq(w, 5, 6)) = w[5] + 256 * w[6]
    BY <1>11, <2>1, LengthField
  <2> QED
    BY <1>3, <1>15, <2>2
<1>17. /\ Len(w) >= 10 /\ Len(w) - 8 = l /\ Len(w) - 2 = m /\ Len(w) - 1 = m + 1 /\ Len(w) = m + 2
       /\ Len(w) = l + 8
  BY <1>9, <1>12
<1>18. Sealed(w)
  BY <1>6, <1>10, <1>12, <1>15, <1>16, <1>17 DEF Sealed
<1> QED
  BY <1>1, <1>11, <1>14, <1>17, <1>18

\* What is in a version and a type before a body of l bytes.
Appliance(a, v, t, b, l) ==
  /\ a \in Seq(Byte) /\ Len(a) = l + 2 /\ a[1] = v /\ a[2] = t
  /\ \A j \in 1..l : a[2 + j] = b[j]
  /\ From(a, 3) = b

\* They are joined so.
LEMMA ApplianceIs ==
  ASSUME NEW v \in Byte, NEW t \in Byte, NEW b \in Seq(Byte), NEW l \in Nat, Len(b) = l
  PROVE  Appliance(AppliancePayload(v, t, b), v, t, b, l)
<1> DEFINE h == <<v, t>>
           a == h \o b
<1>1. AppliancePayload(v, t, b) = a
  BY DEF AppliancePayload
<1>2. h \in Seq(Byte) /\ Len(h) = 2 /\ h[1] = v /\ h[2] = t
  OBVIOUS
<1> HIDE DEF h
<1>3. a \in Seq(Byte) /\ Joins2(a, h, 2, b, l)
  BY <1>2, Joined, Zenon
<1>4. SubSeq(a, 3, Len(a)) = b
  <2>1. 3 \in Nat /\ 3 = Len(h) + 1
    BY <1>2
  <2> QED
    BY <1>2, <2>1, SecondPart, Zenon
<1> HIDE DEF a
<1>5. Len(a) = 2 + l /\ a[1] = h[1] /\ a[2] = h[2] /\ \A j \in 1..l : a[2 + j] = b[j]
  <2>1. 1 \in 1..2 /\ 2 \in 1..2
    OBVIOUS
  <2> QED
    BY <1>3, <2>1 DEF Joins2
<1>6. Len(a) = l + 2
  BY <1>5
<1> QED
  BY <1>1, <1>2, <1>3, <1>4, <1>5, <1>6, Zenon DEF From, Appliance

\* A sequence that follows the first a elements of another.
Follows(w, a, t, b) == \A j \in 1..b : w[a + j] = t[j]

\* A frame of a header and a payload of l bytes.
Framed(f, p, l) ==
  /\ f \in Seq(Byte) /\ Len(f) = l + 6
  /\ f[5] = l % 256 /\ f[6] = (l \div 256) % 256
  /\ Follows(f, 6, p, l) /\ SubSeq(f, 7, Len(f)) = p

\* The transport frame is one.
LEMMA FramedIs ==
  ASSUME NEW s \in Seq(Byte), Len(s) = 4, NEW p \in Seq(Byte), NEW l \in Nat, Len(p) = l
  PROVE  Framed(TransportFrame(s, p), p, l)
<1> DEFINE k == LittleEndian(l, 2)
           h == s \o k
           f == h \o p
<1>1. TransportFrame(s, p) = f
  BY DEF TransportFrame
<1>2. k \in Seq(Byte) /\ Len(k) = 2 /\ k[1] = l % 256 /\ k[2] = (l \div 256) % 256
  <2>1. l \in Int /\ 2 \in Nat /\ 2 # 0
    OBVIOUS
  <2>2. LittleEndian(l, 2) \in Seq(Byte) /\ Len(LittleEndian(l, 2)) = 2
    BY <2>1, LittleEndianBytes, Zenon
  <2> QED
    BY <2>1, <2>2, TwoBytes
<1> HIDE DEF k
<1>3. h \in Seq(Byte) /\ Len(h) = 6 /\ h[5] = k[1] /\ h[6] = k[2]
  BY <1>2, HeadIs
<1> HIDE DEF h
<1>4. f \in Seq(Byte) /\ Joins2(f, h, 6, p, l)
  <2>1. h \in Seq(Byte) /\ Len(h) = 6
    BY <1>3
  <2> QED
    BY <2>1, Joined, Zenon
<1>5. SubSeq(f, 7, Len(f)) = p
  <2>1. h \in Seq(Byte) /\ 7 \in Nat /\ 7 = Len(h) + 1
    BY <1>3
  <2> QED
    BY <2>1, SecondPart, Zenon
<1> HIDE DEF f
<1>6. Len(f) = 6 + l /\ f[5] = h[5] /\ f[6] = h[6] /\ Follows(f, 6, p, l)
  <2>1. 5 \in 1..6 /\ 6 \in 1..6
    OBVIOUS
  <2> QED
    BY <1>4, <2>1 DEF Joins2, Follows
<1>7. Len(f) = l + 6
  BY <1>6
<1>8. Framed(f, p, l)
  BY <1>2, <1>3, <1>4, <1>5, <1>6, <1>7, Zenon DEF Framed
<1> QED
  BY <1>1, <1>8, Zenon

\* An intact frame that says type t and body b.
Command(f, v, t, b, l) ==
  /\ f \in Seq(Byte) /\ Len(f) = l + 16 /\ Intact(f)
  /\ f[13] = v /\ f[14] = t /\ SubSeq(f, 15, Len(f) - 2) = b

\* What a hub sends over Bluetooth is intact, and says what it was built from.
LEMMA CommandIs ==
  ASSUME NEW s \in Seq(Byte), Len(s) = 4, NEW v \in Byte, NEW t \in Byte,
         NEW b \in Seq(Byte), NEW l \in Nat, Len(b) = l, (l + 10) \div 256 <= 255
  PROVE  Command(CommandFrame(s, v, t, b), v, t, b, l)
<1> DEFINE a == AppliancePayload(v, t, b)
           p == WrapNullSession(a)
           f == TransportFrame(s, p)
<1>1. CommandFrame(s, v, t, b) = f
  BY DEF CommandFrame
<1>2. /\ a \in Seq(Byte) /\ Len(a) = l + 2 /\ a[1] = v /\ a[2] = t
      /\ \A j \in 1..l : a[2 + j] = b[j]
  <2>1. Appliance(a, v, t, b, l)
    BY ApplianceIs, Zenon
  <2> HIDE DEF a
  <2> QED
    BY <2>1 DEF Appliance
<1> HIDE DEF a
<1>3. PICK q \in Nat : q = l + 2 /\ 2 <= q /\ q \div 256 <= 255
  OBVIOUS
<1>4. /\ p \in Seq(Byte) /\ Len(p) = q + 8 /\ Sealed(p)
      /\ \A j \in 1..q : p[6 + j] = a[j]
  <2>1. Len(a) = q
    BY <1>2, <1>3
  <2> QED
    BY <1>2, <1>3, <2>1, WrapIs
<1> HIDE DEF p
<1>5. PICK n \in Nat : n = l + 10 /\ Len(p) = n
  BY <1>3, <1>4
<1>6. /\ f \in Seq(Byte) /\ Len(f) = n + 6
      /\ f[5] = n % 256 /\ f[6] = (n \div 256) % 256
      /\ Follows(f, 6, p, n)
      /\ SubSeq(f, 7, Len(f)) = p
  <2>1. p \in Seq(Byte) /\ Len(p) = n
    BY <1>4, <1>5
  <2>2. Framed(f, p, n)
    BY <2>1, FramedIs, Zenon
  <2> HIDE DEF f
  <2> QED
    BY <2>2, Zenon DEF Framed
<1>7. f[13] = p[7] /\ f[14] = p[8]
  <2>1. \A j \in 1..n : f[6 + j] = p[j]
    BY <1>6 DEF Follows
  <2>2. 7 \in 1..n /\ 8 \in 1..n /\ 6 + 7 = 13 /\ 6 + 8 = 14
    BY <1>5
  <2> HIDE DEF f
  <2> QED
    BY <2>1, <2>2
<1> HIDE DEF f
<1>8. Unsigned(SubSeq(f, 5, 6)) = Len(f) - 6
  <2>1. 5 \in Nat /\ 6 \in Nat /\ 1 <= 5 /\ 6 = 5 + 1 /\ 6 <= Len(f)
    BY <1>6
  <2>2. Unsigned(SubSeq(f, 5, 6)) = f[5] + 256 * f[6]
    <3>1. f \in Seq(Byte)
      BY <1>6
    <3> QED
      BY <2>1, <3>1, LengthField
  <2>3. (n % 256) + 256 * ((n \div 256) % 256) = n
    <3>1. PICK h \in Nat : h = n \div 256 /\ h <= 255
      BY <1>5
    <3>2. h % 256 = h
      BY <3>1
    <3>3. n = (n % 256) + 256 * (n \div 256)
      BY Requotient
    <3> QED
      BY <3>1, <3>2, <3>3
  <2>4. Len(f) - 6 = n
    BY <1>6
  <2> QED
    BY <1>6, <2>2, <2>3, <2>4
<1>9. Intact(f) /\ SubSeq(f, 15, Len(f) - 2) = SubSeq(p, 9, Len(p) - 2)
  <2>1. Len(f) >= 6
    BY <1>6
  <2> QED
    BY <1>4, <1>6, <1>8, <2>1, SealedPart
<1>10. p[7] = v /\ p[8] = t /\ \A j \in 1..l : p[8 + j] = b[j]
  <2>1. 1 \in 1..q /\ 2 \in 1..q /\ 6 + 1 = 7 /\ 6 + 2 = 8
    BY <1>3
  <2>2. \A j \in 1..l : 2 + j \in 1..q /\ 6 + (2 + j) = 8 + j
    BY <1>3
  <2> QED
    BY <1>2, <1>4, <2>1, <2>2
<1>11. SubSeq(p, 9, Len(p) - 2) = b
  <2>1. PICK m \in Nat : m = l + 8 /\ Len(p) - 2 = m /\ m <= Len(p)
    BY <1>5
  <2> DEFINE r == SubSeq(p, 9, m)
  <2>2. /\ r \in Seq(Byte) /\ Len(r) = IF 9 <= m THEN m - 9 + 1 ELSE 0
        /\ \A i \in 1..(m - 9 + 1) : r[i] = p[9 + i - 1]
    BY <1>4, <2>1, Slice
  <2> HIDE DEF r
  <2>3. Len(r) = l
    BY <2>1, <2>2
  <2>4. \A i \in 1..l : r[i] = b[i]
    <3>1. \A i \in 1..l : i \in 1..(m - 9 + 1) /\ 9 + i - 1 = 8 + i
      BY <2>1
    <3> QED
      BY <1>10, <2>2, <3>1
  <2>5. r = b
    BY <2>2, <2>3, <2>4, SeqEqual
  <2> QED
    BY <2>1, <2>5 DEF r
<1>12. Len(f) = l + 16
  BY <1>5, <1>6
<1> QED
  BY <1>1, <1>6, <1>7, <1>9, <1>10, <1>11, <1>12, Zenon DEF Command

\* The transport header announces the length of an intact frame.
LEMMA Announced ==
  ASSUME NEW d \in Seq(Byte), Len(d) >= 16
  PROVE  Unsigned(SubSeq(d, 5, 6)) = d[5] + 256 * d[6]
<1>1. 5 \in Nat /\ 6 \in Nat /\ 1 <= 5 /\ 6 = 5 + 1 /\ 6 <= Len(d)
  OBVIOUS
<1> QED
  BY <1>1, LengthField

\* Intact frames with the same transport header are of the same length,
LEMMA SameLength ==
  ASSUME NEW f \in Seq(Byte), NEW g \in Seq(Byte), Intact(f), Intact(g), f[5] = g[5], f[6] = g[6]
  PROVE  Len(f) = Len(g)
<1>1. /\ Len(f) >= 16 /\ Unsigned(SubSeq(f, 5, 6)) = Len(f) - 6
      /\ Len(g) >= 16 /\ Unsigned(SubSeq(g, 5, 6)) = Len(g) - 6
  BY DEF Intact
<1>2. Unsigned(SubSeq(f, 5, 6)) = f[5] + 256 * f[6] /\ Unsigned(SubSeq(g, 5, 6)) = g[5] + 256 * g[6]
  BY <1>1, Announced
<1> QED
  BY <1>1, <1>2

\* so a frame cut short, run on or run into another is not intact,
LEMMA NotCut ==
  ASSUME NEW f \in Seq(Byte), NEW g \in Seq(Byte), Intact(f), Intact(g),
         \A i \in 1..Len(f) : i \in 1..Len(g) => g[i] = f[i]
  PROVE  g = f
<1>1. PICK l \in Nat, m \in Nat : l = Len(f) /\ m = Len(g) /\ l >= 16 /\ m >= 16
  BY LenProperties DEF Intact
<1>2. 5 \in 1..l /\ 5 \in 1..m /\ 6 \in 1..l /\ 6 \in 1..m
  BY <1>1
<1>3. g[5] = f[5] /\ g[6] = f[6]
  BY <1>1, <1>2
<1>4. Len(g) = Len(f)
  BY <1>3, SameLength
<1> QED
  BY <1>4, SeqEqual

\* and of frames that differ in one byte, two are intact only if they say the
\* same.
LEMMA DamagedByte ==
  ASSUME NEW f \in Seq(Byte), NEW g \in Seq(Byte), Intact(f), Intact(g), Len(f) = Len(g),
         NEW k \in 1..Len(f), \A i \in 1..Len(f) : i # k => g[i] = f[i]
  PROVE  g[14] = f[14] /\ SubSeq(g, 15, Len(g) - 2) = SubSeq(f, 15, Len(f) - 2)
<1>0. Len(f) \in Nat /\ Len(f) >= 16
  BY LenProperties DEF Intact
<1>1. PICK n \in Nat : n = Len(f) - 2 /\ n >= 14 /\ n = Len(g) - 2
  BY <1>0
<1> DEFINE s == SubSeq(f, 8, n)
           u == SubSeq(g, 8, n)
<1>2. /\ s \in Seq(Byte) /\ Len(s) = n - 7 /\ \A i \in 1..(n - 7) : s[i] = f[7 + i]
      /\ u \in Seq(Byte) /\ Len(u) = n - 7 /\ \A i \in 1..(n - 7) : u[i] = g[7 + i]
  <2>1. 8 \in Nat /\ 1 <= 8 /\ 8 <= n /\ n <= Len(f) /\ n <= Len(g) /\ n - 8 + 1 = n - 7
    BY <1>1
  <2>2. s \in Seq(Byte) /\ Len(s) = n - 8 + 1 /\ \A i \in 1..(n - 8 + 1) : s[i] = f[8 + i - 1]
    BY <2>1, Slice
  <2>3. u \in Seq(Byte) /\ Len(u) = n - 8 + 1 /\ \A i \in 1..(n - 8 + 1) : u[i] = g[8 + i - 1]
    BY <2>1, Slice
  <2> HIDE DEF s, u
  <2>4. \A i \in 1..(n - 7) : 8 + i - 1 = 7 + i
    OBVIOUS
  <2> QED
    BY <2>1, <2>2, <2>3, <2>4
<1>3. f[Len(f) - 1] = Crc8(s) /\ g[Len(g) - 1] = Crc8(u)
  BY <1>1 DEF Intact
<1> HIDE DEF s, u
<1>4. \A i \in 8..n : g[i] = f[i]
  <2>1. CASE k \notin 8..n
    <3>1. \A i \in 8..n : i \in 1..Len(f) /\ i # k
      BY <1>1, <2>1
    <3> QED
      BY <3>1
  <2>2. CASE k \in 8..n
    <3>1. k - 7 \in 1..(n - 7) /\ 7 + (k - 7) = k
      BY <2>2
    <3>2. \A i \in 1..(n - 7) : i # k - 7 => s[i] = u[i]
      <4>1. \A i \in 1..(n - 7) : i # k - 7 => 7 + i \in 1..Len(f) /\ 7 + i # k
        BY <1>1, <2>2
      <4> QED
        BY <1>2, <4>1
    <3>3. Crc8(s) = Crc8(u)
      <4>1. Len(f) - 1 \in 1..Len(f) /\ Len(f) - 1 # k
        BY <1>1, <2>2
      <4> QED
        BY <1>3, <4>1
    <3>4. s[k - 7] = u[k - 7]
      <4>1. PICK q \in 1..Len(s) : q = k - 7
        BY <1>2, <3>1
      <4>2. \A i \in 1..Len(s) : i # q => s[i] = u[i]
        BY <1>2, <3>2, <4>1
      <4>3. s \in Seq(Byte) /\ u \in Seq(Byte) /\ Len(s) = Len(u)
        BY <1>2
      <4> QED
        BY <3>3, <4>1, <4>2, <4>3, Crc8Detects
    <3>5. g[k] = f[k]
      BY <1>2, <3>1, <3>4
    <3>6. \A i \in 8..n : i \in 1..Len(f)
      BY <1>1
    <3> QED
      BY <3>5, <3>6
  <2> QED
    BY <2>1, <2>2
<1>5. g[14] = f[14]
  BY <1>1, <1>4
<1>6. SubSeq(g, 15, n) = SubSeq(f, 15, n)
  <2>1. 15 \in Nat /\ 1 <= 15 /\ n <= Len(f) /\ n <= Len(g)
    BY <1>1
  <2> DEFINE a == SubSeq(f, 15, n)
             b == SubSeq(g, 15, n)
  <2>2. /\ a \in Seq(Byte) /\ Len(a) = IF 15 <= n THEN n - 15 + 1 ELSE 0
        /\ \A i \in 1..(n - 15 + 1) : a[i] = f[15 + i - 1]
    BY <2>1, Slice
  <2>3. /\ b \in Seq(Byte) /\ Len(b) = IF 15 <= n THEN n - 15 + 1 ELSE 0
        /\ \A i \in 1..(n - 15 + 1) : b[i] = g[15 + i - 1]
    BY <2>1, Slice
  <2> HIDE DEF a, b
  <2>4. \A i \in 1..Len(a) : i \in 1..(n - 15 + 1) /\ 15 + i - 1 \in 8..n
    BY <1>1, <2>2
  <2>5. \A i \in 1..Len(a) : a[i] = b[i]
    BY <1>4, <2>2, <2>3, <2>4
  <2>6. a = b
    BY <2>2, <2>3, <2>5, SeqEqual
  <2> QED
    BY <2>6 DEF a, b
<1> QED
  BY <1>1, <1>5, <1>6

\* What is in a SiLabs frame.
Outgoing(f, b, l, enc) ==
  /\ f \in Seq(Byte) /\ Len(f) = l + 7
  /\ f[5] = l % 256 /\ f[6] = (l \div 256) % 256
  /\ f[7] = IF enc THEN 1 ELSE 0
  /\ Follows(f, 7, b, l)
  /\ SubSeq(f, 8, Len(f)) = b

\* The SiLabs frame is built so.
LEMMA OutgoingIs ==
  ASSUME NEW s \in Seq(Byte), Len(s) = 4, NEW b \in Seq(Byte), NEW l \in Nat, Len(b) = l, NEW enc \in BOOLEAN
  PROVE  Outgoing(OutgoingFrame(s, b, enc), b, l, enc)
<1> DEFINE k == LittleEndian(l, 2)
           h == s \o k
           c == IF enc THEN 1 ELSE 0
           e == <<c>>
           x == h \o e
           f == x \o b
<1>1. OutgoingFrame(s, b, enc) = f
  BY DEF OutgoingFrame
<1>2. k \in Seq(Byte) /\ Len(k) = 2 /\ k[1] = l % 256 /\ k[2] = (l \div 256) % 256
  <2>1. l \in Int /\ 2 \in Nat /\ 2 # 0
    OBVIOUS
  <2>2. LittleEndian(l, 2) \in Seq(Byte) /\ Len(LittleEndian(l, 2)) = 2
    BY <2>1, LittleEndianBytes, Zenon
  <2> QED
    BY <2>1, <2>2, TwoBytes
<1> HIDE DEF k
<1>3. h \in Seq(Byte) /\ Len(h) = 6 /\ h[5] = k[1] /\ h[6] = k[2]
  BY <1>2, HeadIs
<1> HIDE DEF h
<1>4. e \in Seq(Byte) /\ Len(e) = 1 /\ e[1] = c
  <2>1. c \in Byte
    BY DEF Byte
  <2> HIDE DEF c
  <2> QED
    BY <2>1
<1> HIDE DEF c, e
<1>5. x \in Seq(Byte) /\ Joins2(x, h, 6, e, 1)
  <2>1. h \in Seq(Byte) /\ Len(h) = 6 /\ e \in Seq(Byte) /\ Len(e) = 1
    BY <1>3, <1>4
  <2> QED
    BY <2>1, Joined, Zenon
<1> HIDE DEF x
<1>6. Len(x) = 7 /\ x[5] = h[5] /\ x[6] = h[6] /\ x[7] = e[1]
  <2>1. 5 \in 1..6 /\ 6 \in 1..6 /\ 1 \in 1..1 /\ 6 + 1 = 7
    OBVIOUS
  <2> QED
    BY <1>5, <2>1 DEF Joins2
<1>7. f \in Seq(Byte) /\ Joins2(f, x, 7, b, l)
  <2>1. x \in Seq(Byte) /\ Len(x) = 7
    BY <1>5, <1>6
  <2> QED
    BY <2>1, Joined, Zenon
<1>8. SubSeq(f, 8, Len(f)) = b
  <2>1. x \in Seq(Byte) /\ 8 \in Nat /\ 8 = Len(x) + 1
    BY <1>5, <1>6
  <2> QED
    BY <2>1, SecondPart, Zenon
<1> HIDE DEF f
<1>9. Len(f) = 7 + l /\ f[5] = x[5] /\ f[6] = x[6] /\ f[7] = x[7] /\ Follows(f, 7, b, l)
  <2>1. 5 \in 1..7 /\ 6 \in 1..7 /\ 7 \in 1..7
    OBVIOUS
  <2> QED
    BY <1>7, <2>1 DEF Joins2, Follows
<1>10. Len(f) = l + 7
  BY <1>9
<1>11. f[5] = l % 256 /\ f[6] = (l \div 256) % 256
  BY <1>2, <1>3, <1>6, <1>9, Zenon
<1>12. f[7] = IF enc THEN 1 ELSE 0
  BY <1>4, <1>6, <1>9, Zenon DEF c
<1>13. Outgoing(f, b, l, enc)
  BY <1>7, <1>8, <1>9, <1>10, <1>11, <1>12, Zenon DEF Outgoing
<1> QED
  BY <1>1, <1>13, Zenon

\* A length in two bytes.
LEMMA TwoDigits ==
  ASSUME NEW l \in Nat, l \div 256 <= 255
  PROVE  (l % 256) + 256 * ((l \div 256) % 256) = l
<1>1. PICK h \in Nat : h = l \div 256 /\ h <= 255
  OBVIOUS
<1>2. h % 256 = h
  BY <1>1
<1>3. l = (l % 256) + 256 * (l \div 256)
  OBVIOUS
<1> QED
  BY <1>1, <1>2, <1>3

\* Of the starts and the extensions of a SiLabs frame only the frame itself is
\* accepted, and says what it was built from.
LEMMA IncomingIs ==
  ASSUME NEW f, NEW b, NEW l \in Nat, NEW enc, Outgoing(f, b, l, enc), l \div 256 <= 255,
         NEW d \in Seq(Byte), \A i \in 1..Len(f) : i \in 1..Len(d) => d[i] = f[i],
         ParseIncomingFrame(d).ok
  PROVE  d = f /\ ParseIncomingFrame(d).body = b
<1>1. /\ f \in Seq(Byte) /\ Len(f) = l + 7
      /\ f[5] = l % 256 /\ f[6] = (l \div 256) % 256
      /\ SubSeq(f, 8, Len(f)) = b
  BY DEF Outgoing
<1>2. /\ ~(Len(d) < 7) /\ Len(d) = 7 + Unsigned(SubSeq(d, 5, 6))
      /\ ParseIncomingFrame(d) = [ok |-> TRUE, encrypted |-> d[7] = 1, body |-> From(d, 8)]
  <2>1. ~(Len(d) < 7 \/ d[7] \notin {0, 1} \/ Len(d) # 7 + Unsigned(SubSeq(d, 5, 6)))
    BY DEF ParseIncomingFrame, Refused
  <2> QED
    BY <2>1 DEF ParseIncomingFrame
<1>3. PICK m \in Nat : m = Len(d) /\ m >= 7
  BY <1>2, LenProperties
<1>4. Unsigned(SubSeq(d, 5, 6)) = d[5] + 256 * d[6]
  <2>1. 5 \in Nat /\ 6 \in Nat /\ 1 <= 5 /\ 6 = 5 + 1 /\ 6 <= Len(d)
    BY <1>3
  <2> QED
    BY <2>1, LengthField
<1>5. d[5] = f[5] /\ d[6] = f[6]
  <2>1. /\ 5 \in 1..Len(f) /\ 6 \in 1..Len(f) /\ 7 \in 1..Len(f)
        /\ 5 \in 1..Len(d) /\ 6 \in 1..Len(d) /\ 7 \in 1..Len(d)
    <3>1. 7 <= Len(f) /\ Len(f) \in Nat
      BY <1>1
    <3> HIDE <1>1
    <3> QED
      BY <1>3, <3>1
  <2> QED
    BY <2>1
<1>6. (l % 256) + 256 * ((l \div 256) % 256) = l
  BY TwoDigits
<1>7. Len(d) = Len(f)
  <2>1. Len(d) = 7 + (f[5] + 256 * f[6])
    BY <1>2, <1>4, <1>5
  <2> QED
    BY <1>1, <1>6, <2>1
<1>8. d = f
  BY <1>1, <1>7, SeqEqual
<1>10. From(d, 8) = b
  BY <1>1, <1>8 DEF From
<1> QED
  BY <1>2, <1>8, <1>10

\* A part of a joined sequence.
LEMMA PartOfFirst ==
  ASSUME NEW s \in Seq(Byte), NEW t \in Seq(Byte), NEW m \in Nat, NEW n \in Nat, 1 <= m, n <= Len(s)
  PROVE  SubSeq(s \o t, m, n) = SubSeq(s, m, n)
<1> DEFINE w == s \o t
           x == SubSeq(w, m, n)
           y == SubSeq(s, m, n)
<1>0. PICK a \in Nat, b \in Nat : a = Len(s) /\ b = Len(t)
  BY LenProperties
<1>1. w \in Seq(Byte) /\ Joins2(w, s, a, t, b)
  BY <1>0, Joined, Zenon
<1> HIDE DEF w
<1>2. Len(w) = a + b /\ \A i \in 1..a : w[i] = s[i]
  BY <1>1 DEF Joins2
<1>3. n <= a /\ n <= Len(w)
  BY <1>0, <1>2
<1>4. /\ x \in Seq(Byte) /\ Len(x) = IF m <= n THEN n - m + 1 ELSE 0
      /\ \A i \in 1..(n - m + 1) : x[i] = w[m + i - 1]
  BY <1>1, <1>3, Slice
<1>5. /\ y \in Seq(Byte) /\ Len(y) = IF m <= n THEN n - m + 1 ELSE 0
      /\ \A i \in 1..(n - m + 1) : y[i] = s[m + i - 1]
  BY Slice
<1> HIDE DEF x, y
<1>6. \A i \in 1..Len(x) : i \in 1..(n - m + 1) /\ m + i - 1 \in 1..a
  BY <1>3, <1>4
<1>7. \A i \in 1..Len(x) : x[i] = y[i]
  BY <1>2, <1>4, <1>5, <1>6
<1>8. x = y
  BY <1>4, <1>5, <1>7, SeqEqual
<1> QED
  BY <1>8 DEF x, y, w

\* Its element.
LEMMA ElementOfFirst ==
  ASSUME NEW s \in Seq(Byte), NEW t \in Seq(Byte), NEW i \in Nat, 1 <= i, i <= Len(s)
  PROVE  (s \o t)[i] = s[i]
<1>1. PICK a \in Nat, b \in Nat : a = Len(s) /\ b = Len(t)
  BY LenProperties
<1>2. Joins2(s \o t, s, a, t, b)
  BY <1>1, Joined, Zenon
<1> QED
  BY <1>1, <1>2 DEF Joins2

\* Two joined sequences, and their lengths.
LEMMA JoinedLength ==
  ASSUME NEW s \in Seq(Byte), NEW t \in Seq(Byte)
  PROVE  s \o t \in Seq(Byte) /\ Len(s \o t) = Len(s) + Len(t)
<1>1. PICK a \in Nat, b \in Nat : a = Len(s) /\ b = Len(t)
  BY LenProperties
<1>2. s \o t \in Seq(Byte) /\ Joins2(s \o t, s, a, t, b)
  BY <1>1, Joined, Zenon
<1> QED
  BY <1>1, <1>2 DEF Joins2

\* What is in a routed message: its addresses, and a header and a body of n
\* bytes.
Routed(f, source, target, n, type, body) ==
  /\ f \in Seq(Byte) /\ Len(f) = n + 41
  /\ f[1] = 1 /\ f[2] = 2 /\ f[19] = 2
  /\ SubSeq(f, 3, 18) = source /\ SubSeq(f, 20, 35) = target
  /\ f[40] = n % 256 /\ f[41] = (n \div 256) % 256
  /\ f[43] = type /\ SubSeq(f, 44, Len(f)) = body

\* Two parts of a message.
LEMMA Both ==
  ASSUME NEW s \in Seq(Byte), NEW t \in Seq(Byte), NEW a \in Nat, NEW b \in Nat,
         Len(s) = a, Len(t) = b
  PROVE  s \o t \in Seq(Byte) /\ Joins2(s \o t, s, a, t, b)
BY Joined, Zenon

\* A routed message is built so.
LEMMA RoutedIs ==
  ASSUME NEW source \in Seq(Byte), Len(source) = 16, NEW target \in Seq(Byte), Len(target) = 16,
         NEW s \in Seq(Byte), Len(s) = 4, NEW v \in Byte, NEW t \in Byte,
         NEW b \in Seq(Byte), NEW n \in Nat, n = Len(b) + 2
  PROVE  Routed(RoutedMessage(source, target, s, v, t, b), source, target, n, t, b)
<1> DEFINE a == AppliancePayload(v, t, b)
           k == LittleEndian(n, 2)
           h2 == <<1, 2>>
           h18 == h2 \o source
           two == <<2>>
           h19 == h18 \o two
           h35 == h19 \o target
           h39 == h35 \o s
           h41 == h39 \o k
           f == h41 \o a
<1>1. PICK l \in Nat : l = Len(b) /\ n = l + 2
  BY LenProperties
<1>2. a \in Seq(Byte) /\ Len(a) = n /\ a[2] = t /\ SubSeq(a, 3, Len(a)) = b
  <2>1. b \in Seq(Byte) /\ Len(b) = l
    BY <1>1
  <2>2. Appliance(a, v, t, b, l)
    BY <2>1, ApplianceIs, Zenon
  <2> HIDE DEF a
  <2> QED
    BY <1>1, <2>2 DEF Appliance, From
<1> HIDE DEF a
<1>3. RoutedMessage(source, target, s, v, t, b) = f
  BY <1>2 DEF RoutedMessage, a
<1>4. k \in Seq(Byte) /\ Len(k) = 2 /\ k[1] = n % 256 /\ k[2] = (n \div 256) % 256
  <2>1. n \in Int /\ 2 \in Nat /\ 2 # 0
    OBVIOUS
  <2>2. LittleEndian(n, 2) \in Seq(Byte) /\ Len(LittleEndian(n, 2)) = 2
    BY <2>1, LittleEndianBytes, Zenon
  <2> QED
    BY <2>1, <2>2, TwoBytes
<1>5. h2 \in Seq(Byte) /\ Len(h2) = 2 /\ h2[1] = 1 /\ h2[2] = 2 /\ two \in Seq(Byte) /\ Len(two) = 1 /\ two[1] = 2
  BY DEF Byte
<1> HIDE DEF k, h2, two
<1>6. h18 \in Seq(Byte) /\ Joins2(h18, h2, 2, source, 16)
  BY <1>5, Both, Zenon
<1> HIDE DEF h18
<1>7. Len(h18) = 18 /\ h18[1] = 1 /\ h18[2] = 2
  BY <1>5, <1>6 DEF Joins2
<1>8. h19 \in Seq(Byte) /\ Joins2(h19, h18, 18, two, 1)
  BY <1>5, <1>6, <1>7, Both, Zenon
<1> HIDE DEF h19
<1>9. Len(h19) = 19 /\ h19[1] = 1 /\ h19[2] = 2 /\ h19[19] = 2
  <2>1. 1 \in 1..18 /\ 2 \in 1..18 /\ 1 \in 1..1 /\ 18 + 1 = 19
    OBVIOUS
  <2> QED
    BY <1>5, <1>7, <1>8, <2>1 DEF Joins2
<1>10. h35 \in Seq(Byte) /\ Joins2(h35, h19, 19, target, 16)
  BY <1>8, <1>9, Both, Zenon
<1> HIDE DEF h35
<1>11. Len(h35) = 35 /\ h35[1] = 1 /\ h35[2] = 2 /\ h35[19] = 2
  <2>1. 1 \in 1..19 /\ 2 \in 1..19 /\ 19 \in 1..19
    OBVIOUS
  <2> QED
    BY <1>9, <1>10, <2>1 DEF Joins2
<1>12. h39 \in Seq(Byte) /\ Joins2(h39, h35, 35, s, 4)
  BY <1>10, <1>11, Both, Zenon
<1> HIDE DEF h39
<1>13. Len(h39) = 39 /\ h39[1] = 1 /\ h39[2] = 2 /\ h39[19] = 2
  <2>1. 1 \in 1..35 /\ 2 \in 1..35 /\ 19 \in 1..35
    OBVIOUS
  <2> QED
    BY <1>11, <1>12, <2>1 DEF Joins2
<1>14. h41 \in Seq(Byte) /\ Joins2(h41, h39, 39, k, 2)
  BY <1>4, <1>12, <1>13, Both, Zenon
<1> HIDE DEF h41
<1>15. /\ Len(h41) = 41 /\ h41[1] = 1 /\ h41[2] = 2 /\ h41[19] = 2
       /\ h41[40] = k[1] /\ h41[41] = k[2]
  <2>1. 1 \in 1..39 /\ 2 \in 1..39 /\ 19 \in 1..39 /\ 1 \in 1..2 /\ 2 \in 1..2 /\ 39 + 1 = 40 /\ 39 + 2 = 41
    OBVIOUS
  <2> QED
    BY <1>13, <1>14, <2>1 DEF Joins2
<1>16. f \in Seq(Byte) /\ Joins2(f, h41, 41, a, n)
  BY <1>2, <1>14, <1>15, Both, Zenon
<1>17. SubSeq(f, 42, Len(f)) = a
  <2>1. 42 \in Nat /\ 42 = Len(h41) + 1 /\ h41 \in Seq(Byte) /\ a \in Seq(Byte)
    BY <1>2, <1>14, <1>15
  <2> QED
    BY <2>1, SecondPart, Zenon
<1> HIDE DEF f
<1>18. /\ Len(f) = n + 41 /\ f[1] = 1 /\ f[2] = 2 /\ f[19] = 2
       /\ f[40] = k[1] /\ f[41] = k[2] /\ f[43] = t
  <2>1. 1 \in 1..41 /\ 2 \in 1..41 /\ 19 \in 1..41 /\ 40 \in 1..41 /\ 41 \in 1..41 /\ 41 + 2 = 43
    OBVIOUS
  <2>2. 2 \in 1..n
    BY <1>1
  <2>3. Len(f) = n + 41
    BY <1>16 DEF Joins2
  <2> QED
    BY <1>2, <1>15, <1>16, <2>1, <2>2, <2>3 DEF Joins2
<1>24. /\ \A i \in 1..18 : h19[i] = h18[i]
       /\ \A i \in 1..19 : h35[i] = h19[i]
       /\ \A i \in 1..35 : h39[i] = h35[i]
       /\ \A i \in 1..39 : h41[i] = h39[i]
       /\ \A i \in 1..41 : f[i] = h41[i]
  BY <1>8, <1>10, <1>12, <1>14, <1>16 DEF Joins2
<1>25. /\ \A i \in 1..16 : h18[2 + i] = source[i]
       /\ \A i \in 1..16 : h35[19 + i] = target[i]
  BY <1>6, <1>10 DEF Joins2
<1>19. ASSUME NEW i \in 1..16 PROVE f[2 + i] = source[i]
  <2>1. PICK j \in Nat : j = 2 + i /\ j \in 1..18 /\ j \in 1..19 /\ j \in 1..35 /\ j \in 1..39 /\ j \in 1..41
    OBVIOUS
  <2>2. f[j] = h41[j] /\ h41[j] = h39[j]
    BY <1>24, <2>1
  <2>3. h39[j] = h35[j] /\ h35[j] = h19[j] /\ h19[j] = h18[j]
    BY <1>24, <2>1
  <2> QED
    BY <1>25, <2>1, <2>2, <2>3
<1>20. ASSUME NEW i \in 1..16 PROVE f[19 + i] = target[i]
  <2>1. PICK j \in Nat : j = 19 + i /\ j \in 1..35 /\ j \in 1..39 /\ j \in 1..41
    OBVIOUS
  <2>2. f[j] = h35[j]
    BY <1>24, <2>1
  <2> QED
    BY <1>25, <2>1, <2>2
<1>21. SubSeq(f, 3, 18) = source
  <2>1. \A j \in 1..16 : f[0 + 2 + j] = source[j]
    <3>1. \A j \in 1..16 : 0 + 2 + j = 2 + j
      OBVIOUS
    <3> QED
      BY <1>19, <3>1
  <2>2. 0 \in Nat /\ 16 \in Nat /\ 16 = Len(source) /\ 0 + 2 + 16 <= Len(f)
    BY <1>18
  <2>3. SubSeq(f, 0 + 3, 0 + 2 + 16) = source
    BY <1>16, <2>1, <2>2, SliceIs
  <2> QED
    BY <2>3
<1>22. SubSeq(f, 20, 35) = target
  <2>1. \A j \in 1..16 : f[17 + 2 + j] = target[j]
    <3>1. \A j \in 1..16 : 17 + 2 + j = 19 + j
      OBVIOUS
    <3> QED
      BY <1>20, <3>1
  <2>2. 17 \in Nat /\ 16 \in Nat /\ 16 = Len(target) /\ 17 + 2 + 16 <= Len(f)
    BY <1>18
  <2>3. SubSeq(f, 17 + 3, 17 + 2 + 16) = target
    BY <1>16, <2>1, <2>2, SliceIs
  <2> QED
    BY <2>3
<1>23. SubSeq(f, 44, Len(f)) = b
  <2>1. PICK m \in Nat : m = Len(f) /\ m = n + 41
    BY <1>18
  <2>2. SubSeq(SubSeq(f, 42, m), 3, n) = SubSeq(f, 44, m)
    <3>1. /\ 42 \in Nat /\ m \in Nat /\ 1 <= 42 /\ 42 <= m + 1 /\ m <= Len(f)
          /\ 3 \in Nat /\ n \in Nat /\ 1 <= 3 /\ n <= m - 42 + 1
          /\ 44 \in Nat /\ 44 = 42 + 3 - 1 /\ m = 42 + n - 1
      BY <2>1
    <3> QED
      BY <1>16, <3>1, SliceOfSlice
  <2> QED
    BY <1>2, <1>17, <2>1, <2>2
<1> QED
  BY <1>3, <1>4, <1>16, <1>18, <1>21, <1>22, <1>23, Zenon DEF Routed

\* What decode_routed_message requires of a length, and gives.
LEMMA DecodeRequires ==
  ASSUME NEW d \in Seq(Byte), DecodeRoutedMessage(d).ok
  PROVE  /\ Len(d) >= 43 /\ d[1] = 1 /\ d[2] \in {1, 2}
         /\ Len(d) - 41 = d[40] + 256 * d[41]
         /\ DecodeRoutedMessage(d) =
              [ok |-> TRUE, source |-> SubSeq(d, 3, 18), target |-> SubSeq(d, 20, 35),
               type |-> d[43], body |-> SubSeq(d, 44, Len(d))]
<1> DEFINE bad == \/ Len(d) < 43 \/ d[1] # 1 \/ d[2] \notin {1, 2} \/ d[19] \notin {1, 2}
                  \/ Len(d) - 41 # Unsigned(SubSeq(d, 40, 41))
<1>1. ~bad
  BY DEF DecodeRoutedMessage, Refused
<1>2. DecodeRoutedMessage(d) =
        [ok |-> TRUE, source |-> SubSeq(d, 3, 18), target |-> SubSeq(d, 20, 35),
         type |-> d[43], body |-> SubSeq(d, 44, Len(d))]
  BY <1>1 DEF DecodeRoutedMessage, From
<1>3. Len(d) >= 43
  BY <1>1, LenProperties
<1>4. Unsigned(SubSeq(d, 40, 41)) = d[40] + 256 * d[41]
  <2>1. 40 \in Nat /\ 41 \in Nat /\ 1 <= 40 /\ 41 = 40 + 1 /\ 41 <= Len(d)
    BY <1>3
  <2> QED
    BY <2>1, LengthField
<1> QED
  BY <1>1, <1>2, <1>3, <1>4

\* A message read whole says what it was built from.
LEMMA RoutedRead ==
  ASSUME NEW f, NEW source, NEW target, NEW n \in Nat, NEW type, NEW body,
         Routed(f, source, target, n, type, body), DecodeRoutedMessage(f).ok
  PROVE  DecodeRoutedMessage(f) =
           [ok |-> TRUE, source |-> source, target |-> target, type |-> type, body |-> body]
<1>1. f \in Seq(Byte)
  BY DEF Routed
<1> QED
  BY <1>1, DecodeRequires DEF Routed

\* The length modulo 256 is not one more or one less.
LEMMA NotOneOff ==
  ASSUME NEW n \in Nat, NEW x \in Int
  PROVE  (n % 256) + 256 * x # n - 1 /\ (n % 256) + 256 * x # n + 1
<1>1. PICK q \in Int : q = n \div 256
  OBVIOUS
<1>2. n = (n % 256) + 256 * q
  BY <1>1
<1>3. PICK r \in Int : r = n % 256
  OBVIOUS
<1> QED
  BY <1>2, <1>3

\* A message that has lost or gained a byte behind its header is refused.
LEMMA RoutedResized ==
  ASSUME NEW f, NEW source, NEW target, NEW n \in Nat, NEW type, NEW body,
         Routed(f, source, target, n, type, body),
         NEW d \in Seq(Byte), Len(d) = n + 40 \/ Len(d) = n + 42,
         \A i \in 1..Len(f) : i \in 1..Len(d) => d[i] = f[i]
  PROVE  ~DecodeRoutedMessage(d).ok
<1> SUFFICES ASSUME DecodeRoutedMessage(d).ok PROVE FALSE
  OBVIOUS
<1>1. Len(d) >= 43 /\ Len(d) - 41 = d[40] + 256 * d[41]
  BY DecodeRequires
<1>2. Len(f) = n + 41 /\ f[40] = n % 256
  BY DEF Routed
<1>3. 40 \in 1..Len(f) /\ 40 \in 1..Len(d)
  BY <1>1, <1>2
<1>4. d[40] = n % 256
  BY <1>2, <1>3
<1>5. d[41] \in Int
  <2>1. 41 \in 1..Len(d)
    BY <1>1
  <2>2. d[41] \in Byte
    BY <2>1
  <2> QED
    BY <2>2, ByteValue
<1>6. PICK x \in Int : x = d[41]
  BY <1>5
<1>7. Len(d) - 41 = (n % 256) + 256 * x
  BY <1>1, <1>4, <1>6
<1>8. Len(d) - 41 = n - 1 \/ Len(d) - 41 = n + 1
  OBVIOUS
<1> QED
  BY <1>7, <1>8, NotOneOff

=============================================================================
