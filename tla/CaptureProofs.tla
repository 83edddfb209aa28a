----------------------------- MODULE CaptureProofs -----------------------------
(***************************************************************************)
(* A capture file of records of any size, through a buffer of any number   *)
(* of them and any number of faults: no unit is misplaced, what was        *)
(* flushed survives a crash, and a replay is exact.                        *)
(***************************************************************************)
EXTENDS Capture, SequenceTheorems, TLAPS

UnitSet == Nat \X (0 .. RecordSize - 1)

Answers == {"tick", "truncated", "invalid", "failed"} \X Nat

\* Unit i of the records written one after another.
UnitAt(records, i) == <<records[((i - 1) \div RecordSize) + 1], (i - 1) % RecordSize>>

Stream == file \o buffer

\* How many units k records are.
UnitsIn(k) == RecordSize * k

------------------------------------------------------------------------------
(***************************************************************************)
(* The recorder and the file.                                              *)
(***************************************************************************)

RecorderTypes ==
  /\ recorder \in {"down", "idle", "spill", "flush", "close"}
  /\ file \in Seq(UnitSet) /\ buffer \in Seq(UnitSet) /\ Len(buffer) <= BufferSize
  /\ made \in Seq(Nat) /\ waiting \in Nat /\ (waiting # None <=> recorder = "spill")
  /\ next \in 1 .. MaxRecords + 1
  /\ Len(made) + (IF recorder = "spill" THEN 1 ELSE 0) < next
  /\ saved \in Nat /\ torn \in BOOLEAN /\ reopened \in BOOLEAN

\* A recorder that is down has no buffer, and a torn file no recorder until it is
\* reopened.
Quiet ==
  /\ recorder = "down" => buffer = << >>
  /\ torn /\ ~ reopened => recorder = "down"
  /\ reopened => torn

\* The units of the accepted records, and of at most a part of one more: exactly
\* then a crash tore it.
StreamHolds ==
  ~ reopened =>
    /\ UnitsIn(Len(made)) <= Len(Stream)
    /\ Len(Stream) < UnitsIn(Len(made) + 1)
    /\ torn <=> Len(Stream) # UnitsIn(Len(made))
    /\ \A i \in 1 .. UnitsIn(Len(made)) : Stream[i] = UnitAt(made, i)

SavedWritten ==
  /\ saved <= Len(made)
  /\ ~ reopened => UnitsIn(saved) <= Len(file)

RecorderInv == RecorderTypes /\ Quiet /\ StreamHolds /\ SavedWritten

------------------------------------------------------------------------------
(***************************************************************************)
(* The reader.                                                             *)
(***************************************************************************)

ReaderTypes ==
  /\ reading \in BOOLEAN /\ ended \in BOOLEAN
  /\ pos \in Nat /\ pos <= Len(file)
  /\ buf \in Seq(UnitSet) /\ Len(buf) <= RecordSize
  /\ out \in Seq(Answers)
  /\ faults \in 0 .. MaxFaults

\* A file is read once nothing writes it.
Readable ==
  /\ reading => recorder = "down"
  /\ ~ reading => pos = 0 /\ buf = << >> /\ out = << >> /\ ~ ended
  /\ ended => pos = Len(file) /\ buf = << >>

TicksFirst(k) == k <= Len(made) /\ \A i \in 1 .. k : out[i] = Tick(made[i])

\* The reader is in step: it has answered with the records before the one whose
\* first units it holds.
InStep ==
  /\ TicksFirst(Len(out))
  /\ pos = UnitsIn(Len(out)) + Len(buf)
  /\ \A j \in 1 .. Len(buf) : buf[j] = file[UnitsIn(Len(out)) + j]

\* It has met the torn record, the last of the file.
SawTorn ==
  /\ torn /\ Len(out) = Len(made) + 1 /\ TicksFirst(Len(made))
  /\ out[Len(out)] = Truncated
  /\ pos = Len(file) /\ buf = << >>

\* Up to the first error the answers are the records.
RightSoFar ==
  \A i \in DOMAIN out :
    (\A j \in 1 .. i : out[j] \notin {Failed, Truncated, Invalid})
      => i <= Len(made) /\ out[i] = Tick(made[i])

ReplayHolds ==
  ~ reopened => RightSoFar /\ (InStep \/ SawTorn \/ Contains(out, Failed))

ReaderInv == ReaderTypes /\ Readable /\ ReplayHolds

CaptureInv == RecorderInv /\ ReaderInv

------------------------------------------------------------------------------
(***************************************************************************)
(* Units and records.                                                      *)
(***************************************************************************)

\* What CaptureAssumption says of the two sizes.
LEMMA Sizes ==
  /\ RecordSize \in Nat /\ RecordSize > 0
  /\ BufferSize \in Nat /\ BufferSize >= RecordSize
  /\ MaxRecords \in Nat /\ MaxFaults \in Nat
<1>1. BufferSize >= RecordSize
  <2>1. BufferSize = RecordSize * (BufferSize \div RecordSize) /\ BufferSize \div RecordSize \in Int
    BY CaptureAssumption
  <2> QED
    BY <2>1, CaptureAssumption
<1> QED
  BY <1>1, CaptureAssumption

\* Division by the record size, in terms of multiplication.
LEMMA Division ==
  ASSUME NEW a \in Nat
  PROVE  /\ a \div RecordSize \in Nat /\ a % RecordSize \in 0 .. RecordSize - 1
         /\ a = UnitsIn(a \div RecordSize) + (a % RecordSize)
BY Sizes DEF UnitsIn

\* More records are more units.
LEMMA MoreUnits ==
  ASSUME NEW k \in Nat, NEW m \in Nat
  PROVE  /\ UnitsIn(k) \in Nat /\ UnitsIn(0) = 0
         /\ UnitsIn(k + 1) = UnitsIn(k) + RecordSize
         /\ k <= m => UnitsIn(k) <= UnitsIn(m)
<1>1. UnitsIn(k) \in Nat /\ UnitsIn(0) = 0 /\ UnitsIn(k + 1) = UnitsIn(k) + RecordSize
  BY Sizes DEF UnitsIn
<1>2. ASSUME k <= m PROVE UnitsIn(k) <= UnitsIn(m)
  <2>1. m - k \in Nat /\ UnitsIn(m) = UnitsIn(k) + UnitsIn(m - k)
    BY <1>2, Sizes DEF UnitsIn
  <2>2. UnitsIn(m - k) \in Nat
    BY <2>1, Sizes DEF UnitsIn
  <2> QED
    BY <1>1, <2>1, <2>2
<1> QED
  BY <1>1, <1>2

\* Fewer units are no more records.
LEMMA FewerUnits ==
  ASSUME NEW k \in Nat, NEW m \in Nat, UnitsIn(k) < UnitsIn(m + 1)
  PROVE  k <= m
<1> SUFFICES ASSUME m + 1 <= k PROVE FALSE
  OBVIOUS
<1>1. UnitsIn(m + 1) <= UnitsIn(k)
  BY MoreUnits
<1> QED
  BY <1>1, MoreUnits, Sizes

\* The record that a unit of the first k belongs to is one of them.
LEMMA RecordOfUnit ==
  ASSUME NEW k \in Nat, NEW i \in 1 .. UnitsIn(k)
  PROVE  /\ ((i - 1) \div RecordSize) + 1 \in 1 .. k
         /\ (i - 1) % RecordSize \in 0 .. RecordSize - 1
<1> DEFINE q == (i - 1) \div RecordSize
           r == (i - 1) % RecordSize
<1>1. i \in Int /\ 1 <= i /\ i <= UnitsIn(k)
  BY MoreUnits
<1>2. i - 1 \in Nat
  BY <1>1
<1>3. q \in Nat /\ r \in 0 .. RecordSize - 1 /\ i - 1 = UnitsIn(q) + r
  BY <1>2, Division
<1> HIDE DEF q, r
<1>4. UnitsIn(q + 1) \in Nat /\ UnitsIn(q) \in Nat /\ UnitsIn(k) \in Nat
  BY <1>3, MoreUnits
<1>5. CASE k = 0
  BY <1>1, <1>5, MoreUnits
<1>6. CASE k > 0
  <2>1. k - 1 \in Nat /\ k = (k - 1) + 1
    BY <1>6
  <2>2. UnitsIn(q) < UnitsIn((k - 1) + 1)
    BY <1>1, <1>3, <1>4, <2>1, Sizes
  <2>3. q <= k - 1
    BY <1>3, <2>1, <2>2, FewerUnits
  <2> QED
    BY <1>3, <2>1, <2>3 DEF q, r
<1> QED
  BY <1>5, <1>6

\* Unit j of the record that follows k others.
LEMMA UnitOfRecord ==
  ASSUME NEW k \in Nat, NEW j \in 1 .. RecordSize
  PROVE  /\ (UnitsIn(k) + j - 1) \div RecordSize = k
         /\ (UnitsIn(k) + j - 1) % RecordSize = j - 1
<1> DEFINE a == UnitsIn(k) + j - 1
           q == a \div RecordSize
           r == a % RecordSize
<1>1. UnitsIn(k) \in Nat /\ j - 1 \in 0 .. RecordSize - 1
  BY MoreUnits, Sizes
<1>2. a \in Nat /\ a = UnitsIn(k) + (j - 1)
  BY <1>1
<1> HIDE DEF a
<1>3. q \in Nat /\ r \in 0 .. RecordSize - 1 /\ a = UnitsIn(q) + r
  BY <1>2, Division
<1> HIDE DEF q, r
<1>4. UnitsIn(q) \in Nat /\ UnitsIn(k + 1) = UnitsIn(k) + RecordSize
      /\ UnitsIn(q + 1) = UnitsIn(q) + RecordSize
  BY <1>3, MoreUnits
<1>5. q <= k
  <2>1. UnitsIn(q) < UnitsIn(k + 1)
    BY <1>1, <1>2, <1>3, <1>4, Sizes
  <2> QED
    BY <1>3, <2>1, FewerUnits
<1>6. k <= q
  <2>1. UnitsIn(k) < UnitsIn(q + 1)
    BY <1>1, <1>2, <1>3, <1>4, Sizes
  <2> QED
    BY <1>3, <2>1, FewerUnits
<1>7. q = k
  BY <1>3, <1>5, <1>6
<1>8. r = j - 1
  BY <1>1, <1>2, <1>3, <1>7
<1> QED
  BY <1>7, <1>8 DEF a, q, r

\* ... which is that record's unit j - 1.
LEMMA UnitAtRecord ==
  ASSUME NEW records, NEW k \in Nat, NEW j \in 1 .. RecordSize,
         NEW i \in Nat, i = UnitsIn(k) + j
  PROVE  UnitAt(records, i) = <<records[k + 1], j - 1>>
<1>1. i - 1 = UnitsIn(k) + j - 1
  BY MoreUnits, Sizes
<1>2. (i - 1) \div RecordSize = k /\ (i - 1) % RecordSize = j - 1
  BY <1>1, UnitOfRecord
<1> QED
  BY <1>2 DEF UnitAt

\* The units of a list of records.
LEMMA UnitsOfRecords ==
  ASSUME NEW records \in Seq(Nat)
  PROVE  /\ Units(records) \in Seq(UnitSet)
         /\ Len(Units(records)) = UnitsIn(Len(records))
         /\ \A i \in 1 .. UnitsIn(Len(records)) : Units(records)[i] = UnitAt(records, i)
<1> DEFINE size == Len(records) * RecordSize
<1>1. size \in Nat /\ size = UnitsIn(Len(records))
  BY Sizes DEF UnitsIn
<1>2. \A i \in 1 .. size : UnitAt(records, i) \in UnitSet
  <2> SUFFICES ASSUME NEW i \in 1 .. size PROVE UnitAt(records, i) \in UnitSet
    OBVIOUS
  <2>1. /\ ((i - 1) \div RecordSize) + 1 \in 1 .. Len(records)
        /\ (i - 1) % RecordSize \in 0 .. RecordSize - 1
    <3>1. Len(records) \in Nat /\ i \in 1 .. UnitsIn(Len(records))
      BY <1>1
    <3> QED
      BY <3>1, RecordOfUnit
  <2> QED
    BY <2>1 DEF UnitAt, UnitSet
<1>3. Units(records) = [i \in 1 .. size |-> UnitAt(records, i)]
  BY DEF Units, UnitAt
<1> HIDE DEF size
<1>4. Units(records) \in [1 .. size -> UnitSet]
  BY <1>2, <1>3
<1>5. Units(records) \in Seq(UnitSet) /\ Len(Units(records)) = size
  BY <1>1, <1>4
<1> QED
  BY <1>1, <1>3, <1>5

\* Records that agree up to the k-th agree in the units of those.
LEMMA SameUnits ==
  ASSUME NEW a, NEW b, NEW k \in Nat, \A n \in 1 .. k : a[n] = b[n]
  PROVE  \A i \in 1 .. UnitsIn(k) : UnitAt(a, i) = UnitAt(b, i)
<1> SUFFICES ASSUME NEW i \in 1 .. UnitsIn(k) PROVE UnitAt(a, i) = UnitAt(b, i)
  OBVIOUS
<1>1. ((i - 1) \div RecordSize) + 1 \in 1 .. k
  BY RecordOfUnit
<1> QED
  BY <1>1 DEF UnitAt

------------------------------------------------------------------------------
(***************************************************************************)
(* The recorder.                                                           *)
(***************************************************************************)

\* A new file is empty.
LEMMA InitRecorder == Init => RecorderInv
<1> SUFFICES ASSUME Init PROVE RecorderInv
  OBVIOUS
<1>1. /\ file = << >> /\ buffer = << >> /\ made = << >> /\ saved = 0 /\ next = 1
      /\ recorder = "down" /\ waiting = None /\ torn = FALSE /\ reopened = FALSE
  BY DEF Init
<1>2. Len(file) = 0 /\ Stream = << >> /\ UnitsIn(0) = 0 /\ UnitsIn(0 + 1) > 0
  <2>1. UnitsIn(0) = 0 /\ UnitsIn(0 + 1) > 0
    BY MoreUnits, Sizes
  <2> QED
    BY <1>1, <2>1 DEF Stream
<1>3. RecorderTypes
  <2>1. next \in 1 .. MaxRecords + 1 /\ Len(made) < next
    BY <1>1, Sizes
  <2>2. /\ file \in Seq(UnitSet) /\ buffer \in Seq(UnitSet) /\ made \in Seq(Nat)
        /\ Len(buffer) <= BufferSize
    BY <1>1, EmptySeq, Sizes
  <2>3. recorder = "down" /\ waiting = 0 /\ saved = 0 /\ torn = FALSE /\ reopened = FALSE
    BY <1>1 DEF None
  <2>4. Len(made) + 0 < next
    BY <2>1, <2>2
  <2> QED
    BY <2>1, <2>2, <2>3, <2>4 DEF RecorderTypes, None
<1>4. StreamHolds
  BY <1>1, <1>2 DEF StreamHolds
<1> QED
  BY <1>1, <1>2, <1>3, <1>4 DEF RecorderInv, Quiet, SavedWritten

\* A record that enters the buffer comes right after the stream so far.
LEMMA BufferHolds ==
  ASSUME RecorderTypes, Quiet, StreamHolds, recorder # "down",
         NEW r \in Nat, Buffer(r), UNCHANGED <<file, torn, reopened>>
  PROVE  /\ buffer' \in Seq(UnitSet) /\ Len(buffer') = Len(buffer) + RecordSize
         /\ made' \in Seq(Nat) /\ Len(made') = Len(made) + 1
         /\ StreamHolds'
<1> DEFINE units == Units(<<r>>)
           size == UnitsIn(Len(made))
<1> HIDE DEF size
<1>1. <<r>> \in Seq(Nat) /\ Len(<<r>>) = 1 /\ <<r>>[1] = r /\ UnitsIn(1) = RecordSize
  BY Sizes DEF UnitsIn
<1>2. /\ units \in Seq(UnitSet) /\ Len(units) = RecordSize
      /\ \A i \in 1 .. RecordSize : units[i] = UnitAt(<<r>>, i)
  BY <1>1, UnitsOfRecords
<1> HIDE DEF units
<1>3. /\ buffer' = buffer \o units /\ made' = Append(made, r)
      /\ file' = file /\ torn' = torn /\ reopened' = reopened
  BY DEF Buffer, units
<1>4. /\ file \in Seq(UnitSet) /\ buffer \in Seq(UnitSet) /\ made \in Seq(Nat)
      /\ Len(made) \in Nat
  BY DEF RecorderTypes
<1>5. buffer' \in Seq(UnitSet) /\ Len(buffer') = Len(buffer) + RecordSize
  BY <1>2, <1>3, <1>4, ConcatProperties
<1>6. /\ made' \in Seq(Nat) /\ Len(made') = Len(made) + 1 /\ made'[Len(made) + 1] = r
      /\ \A n \in 1 .. Len(made) : made'[n] = made[n]
  BY <1>3, <1>4
<1>7. ASSUME ~ reopened PROVE StreamHolds'
  <2>1. ~ torn
    BY <1>7 DEF Quiet
  <2>2. Len(Stream) = size /\ \A i \in 1 .. size : Stream[i] = UnitAt(made, i)
    BY <1>7, <2>1 DEF StreamHolds, size
  <2>3. size \in Nat /\ UnitsIn(Len(made) + 1) = size + RecordSize
        /\ UnitsIn((Len(made) + 1) + 1) = size + RecordSize + RecordSize
    <3>1. Len(made) + 1 \in Nat
      BY <1>4
    <3> QED
      BY <1>4, <3>1, MoreUnits DEF size
  <2>4. Stream \in Seq(UnitSet) /\ Stream' = Stream \o units
    <3>1. Stream' = file \o (buffer \o units)
      BY <1>3 DEF Stream
    <3>2. (file \o buffer) \o units = file \o (buffer \o units)
      BY <1>2, <1>4, ConcatAssociative
    <3> QED
      BY <1>4, <3>1, <3>2 DEF Stream
  <2>5. /\ Len(Stream') = size + RecordSize
        /\ \A i \in 1 .. size + RecordSize :
             Stream'[i] = IF i <= size THEN Stream[i] ELSE units[i - size]
    BY <1>2, <2>2, <2>4, ConcatProperties
  <2>6. ASSUME NEW i \in 1 .. size + RecordSize PROVE Stream'[i] = UnitAt(made', i)
    <3>1. CASE i <= size
      <4>1. UnitAt(made', i) = UnitAt(made, i)
        <5>1. i \in 1 .. UnitsIn(Len(made))
          BY <2>3, <3>1 DEF size
        <5>2. \A n \in 1 .. Len(made) : made'[n] = made[n]
          BY <1>6
        <5> QED
          BY <1>4, <5>1, <5>2, SameUnits
      <4> QED
        BY <2>2, <2>5, <3>1, <4>1
    <3>2. CASE i > size
      <4> DEFINE j == i - size
      <4>1. j \in 1 .. RecordSize /\ i = size + j /\ i \in Nat /\ j \in Nat
        BY <2>3, <3>2, Sizes
      <4> HIDE DEF j
      <4>2. UnitAt(made', i) = <<r, j - 1>>
        BY <1>4, <1>6, <4>1, UnitAtRecord DEF size
      <4>3. UnitAt(<<r>>, j) = <<r, j - 1>>
        <5>1. j = UnitsIn(0) + j /\ 0 \in Nat /\ 0 + 1 = 1
          BY <4>1, MoreUnits
        <5> QED
          BY <1>1, <4>1, <5>1, UnitAtRecord
      <4>4. units[j] = <<r, j - 1>>
        BY <1>2, <4>1, <4>3
      <4>5. Stream'[i] = units[j]
        <5>1. i \in 1 .. size + RecordSize /\ ~ (i <= size) /\ j = i - size
          BY <2>3, <3>2 DEF j
        <5> QED
          BY <2>5, <5>1
      <4> QED
        BY <4>2, <4>4, <4>5
    <3> QED
      BY <2>3, <3>1, <3>2
  <2> QED
    <3>1. UnitsIn(Len(made')) = size + RecordSize /\ UnitsIn(Len(made') + 1) > size + RecordSize
      BY <1>6, <2>3, Sizes
    <3>2. ~ torn' /\ ~ reopened'
      BY <1>3, <1>7, <2>1
    <3> QED
      BY <2>3, <2>5, <2>6, <3>1, <3>2 DEF StreamHolds
<1>8. ASSUME reopened PROVE StreamHolds'
  BY <1>3, <1>8 DEF StreamHolds
<1> QED
  BY <1>5, <1>6, <1>7, <1>8

\* A recorder lost with its buffer leaves the records that are whole in the file,
\* and those that a flush made safe are among them.
LEMMA LoseKeeps ==
  ASSUME RecorderInv, recorder # "down", Lose, UNCHANGED <<file, next, saved, reopened>>
  PROVE  RecorderInv'
<1> DEFINE k == Len(file) \div RecordSize
           rest == Len(file) % RecordSize
<1>1. /\ recorder' = "down" /\ buffer' = << >> /\ waiting' = None
      /\ torn' = (torn \/ rest # 0)
      /\ made' = (IF torn THEN SubSeq(made, 1, saved) ELSE SubSeq(made, 1, k))
      /\ file' = file /\ next' = next /\ saved' = saved /\ reopened' = reopened
  BY DEF Lose, Tears, Surviving
<1>2. /\ file \in Seq(UnitSet) /\ buffer \in Seq(UnitSet) /\ made \in Seq(Nat)
      /\ Len(file) \in Nat /\ Len(buffer) \in Nat /\ Len(made) \in Nat
      /\ saved \in Nat /\ saved <= Len(made) /\ next \in 1 .. MaxRecords + 1
      /\ Len(made) < next /\ torn \in BOOLEAN /\ reopened \in BOOLEAN
  BY DEF RecorderInv, RecorderTypes, SavedWritten
<1>3. k \in Nat /\ rest \in 0 .. RecordSize - 1 /\ Len(file) = UnitsIn(k) + rest
  BY <1>2, Division
<1> HIDE DEF k, rest
<1>4. /\ Stream' = file /\ buffer' \in Seq(UnitSet) /\ Len(buffer') = 0
  BY <1>1, <1>2 DEF Stream
<1>5. CASE torn
  <2>1. reopened /\ reopened'
    BY <1>1, <1>5 DEF RecorderInv, Quiet
  <2>2. made' \in Seq(Nat) /\ Len(made') = saved
    BY <1>1, <1>2, <1>5
  <2>3. RecorderTypes'
    BY <1>1, <1>2, <1>4, <2>2, Sizes DEF RecorderTypes, None
  <2>4. Quiet' /\ StreamHolds'
    BY <1>1, <1>5, <2>1 DEF Quiet, StreamHolds
  <2>5. SavedWritten'
    <3>1. saved' <= Len(made')
      BY <1>1, <1>2, <2>2
    <3> QED
      BY <2>1, <3>1 DEF SavedWritten
  <2> QED
    BY <2>3, <2>4, <2>5 DEF RecorderInv
<1>6. CASE ~ torn
  <2>1. ~ reopened
    BY <1>6 DEF RecorderInv, Quiet
  <2>2. /\ Len(Stream) = UnitsIn(Len(made))
        /\ \A i \in 1 .. UnitsIn(Len(made)) : Stream[i] = UnitAt(made, i)
        /\ UnitsIn(saved) <= Len(file)
    BY <1>6, <2>1 DEF RecorderInv, StreamHolds, SavedWritten
  <2>3. /\ Len(Stream) = Len(file) + Len(buffer)
        /\ \A i \in 1 .. Len(file) : Stream[i] = file[i]
    BY <1>2, ConcatProperties DEF Stream
  <2>4. /\ UnitsIn(k) \in Nat /\ UnitsIn(saved) \in Nat
        /\ UnitsIn(k + 1) = UnitsIn(k) + RecordSize
        /\ UnitsIn(Len(made) + 1) = UnitsIn(Len(made)) + RecordSize
        /\ UnitsIn(Len(made)) \in Nat
    BY <1>2, <1>3, MoreUnits
  <2>5. k <= Len(made)
    <3>1. UnitsIn(k) < UnitsIn(Len(made) + 1)
      <4>1. Len(file) <= UnitsIn(Len(made))
        BY <1>2, <2>2, <2>3
      <4>2. UnitsIn(k) <= Len(file)
        BY <1>3, <2>4
      <4> QED
        BY <1>2, <2>4, <4>1, <4>2, Sizes
    <3> QED
      BY <1>2, <1>3, <3>1, FewerUnits
  <2>6. saved <= k
    <3>1. UnitsIn(saved) < UnitsIn(k + 1)
      BY <1>2, <1>3, <2>2, <2>4, Sizes
    <3> QED
      BY <1>2, <1>3, <3>1, FewerUnits
  <2>7. /\ made' \in Seq(Nat) /\ Len(made') = k
        /\ \A n \in 1 .. k : made'[n] = made[n]
    BY <1>1, <1>2, <1>3, <1>6, <2>5
  <2>8. \A i \in 1 .. UnitsIn(k) : Stream'[i] = UnitAt(made', i)
    <3> SUFFICES ASSUME NEW i \in 1 .. UnitsIn(k) PROVE Stream'[i] = UnitAt(made', i)
      OBVIOUS
    <3>1. i \in 1 .. Len(file) /\ i \in 1 .. UnitsIn(Len(made))
      BY <1>2, <1>3, <2>2, <2>3, <2>4
    <3>2. UnitAt(made', i) = UnitAt(made, i)
      BY <1>3, <2>7, SameUnits
    <3> QED
      BY <1>4, <2>2, <2>3, <3>1, <3>2
  <2>9. StreamHolds'
    <3>1. /\ UnitsIn(Len(made')) = UnitsIn(k) /\ UnitsIn(Len(made') + 1) = UnitsIn(k) + RecordSize
          /\ Len(Stream') = UnitsIn(k) + rest
      BY <1>3, <1>4, <2>4, <2>7
    <3>2. torn' <=> rest # 0
      BY <1>1, <1>6
    <3> QED
      <4>1. /\ UnitsIn(Len(made')) <= Len(Stream')
            /\ Len(Stream') < UnitsIn(Len(made') + 1)
            /\ torn' <=> Len(Stream') # UnitsIn(Len(made'))
        BY <1>3, <2>4, <3>1, <3>2, Sizes
      <4>2. \A i \in 1 .. UnitsIn(Len(made')) : Stream'[i] = UnitAt(made', i)
        BY <2>8, <3>1
      <4> QED
        BY <4>1, <4>2 DEF StreamHolds
  <2>10. RecorderTypes'
    BY <1>1, <1>2, <1>3, <1>4, <2>5, <2>7, Sizes DEF RecorderTypes, None
  <2> QED
    BY <1>1, <1>2, <2>1, <2>2, <2>6, <2>7, <2>9, <2>10 DEF RecorderInv, Quiet, SavedWritten
<1> QED
  BY <1>5, <1>6

\* create(): the file stays as it was; after a crash that tore it, the stream is
\* given up.
LEMMA StepCreate ==
  ASSUME RecorderInv, Create
  PROVE  RecorderInv'
<1> USE DEF RecorderInv
<1>1. /\ recorder = "down" /\ recorder' = "idle" /\ reopened' = torn
      /\ UNCHANGED <<file, buffer, waiting, next, made, saved, torn>>
  BY DEF Create
<1>2. Stream' = Stream
  BY <1>1 DEF Stream
<1>3. RecorderTypes'
  BY <1>1 DEF RecorderTypes
<1>4. Quiet' /\ SavedWritten'
  BY <1>1 DEF Quiet, SavedWritten, RecorderTypes
<1>5. StreamHolds'
  <2> SUFFICES ASSUME ~ reopened' PROVE StreamHolds'
    BY DEF StreamHolds
  <2>1. ~ torn /\ ~ reopened
    BY <1>1 DEF Quiet
  <2> QED
    BY <1>1, <1>2, <2>1 DEF StreamHolds
<1> QED
  BY <1>3, <1>4, <1>5

\* record(): into the buffer, or waiting for room.
LEMMA StepRecord ==
  ASSUME RecorderInv, Record
  PROVE  RecorderInv'
<1> USE DEF RecorderInv
<1>1. /\ recorder = "idle" /\ next <= MaxRecords /\ next' = next + 1
      /\ UNCHANGED <<file, saved, torn, reopened>>
  BY DEF Record
<1>2. next \in Nat /\ next # 0 /\ next' \in 1 .. MaxRecords + 1 /\ Len(made) < next
  BY <1>1, Sizes DEF RecorderTypes
<1>3. CASE Fits
  <2>1. Buffer(next) /\ UNCHANGED <<recorder, waiting>>
    BY <1>3 DEF Record
  <2>2. /\ buffer' \in Seq(UnitSet) /\ Len(buffer') = Len(buffer) + RecordSize
        /\ made' \in Seq(Nat) /\ Len(made') = Len(made) + 1
        /\ StreamHolds'
    BY <1>1, <1>2, <2>1, BufferHolds
  <2>3. Len(buffer') <= BufferSize
    BY <1>3, <2>2 DEF Fits
  <2>4. Len(made') < next' /\ saved <= Len(made')
    BY <1>1, <1>2, <2>2 DEF RecorderTypes, SavedWritten
  <2>5. RecorderTypes'
    BY <1>1, <1>2, <2>1, <2>2, <2>3, <2>4 DEF RecorderTypes
  <2>6. Quiet' /\ SavedWritten'
    BY <1>1, <2>1, <2>4 DEF Quiet, SavedWritten
  <2> QED
    BY <2>2, <2>5, <2>6
<1>4. CASE ~ Fits
  <2>1. recorder' = "spill" /\ waiting' = next /\ UNCHANGED <<buffer, made>>
    BY <1>4 DEF Record
  <2>2. RecorderTypes'
    BY <1>1, <1>2, <2>1 DEF RecorderTypes, None
  <2>3. Stream' = Stream
    BY <1>1, <2>1 DEF Stream
  <2> QED
    BY <1>1, <2>1, <2>2, <2>3 DEF Quiet, StreamHolds, SavedWritten
<1> QED
  BY <1>3, <1>4

\* flush() or the drop begins.
LEMMA StepFlush ==
  ASSUME RecorderInv, NEW task \in {"flush", "close"}, Flush(task)
  PROVE  RecorderInv'
<1>1. /\ recorder = "idle" /\ recorder' = task
      /\ UNCHANGED <<file, buffer, waiting, next, made, saved, torn, reopened>>
  BY DEF Flush
<1>2. Stream' = Stream
  BY <1>1 DEF Stream
<1>3. RecorderTypes'
  BY <1>1 DEF RecorderInv, RecorderTypes
<1> QED
  BY <1>1, <1>2, <1>3 DEF RecorderInv, Quiet, StreamHolds, SavedWritten

\* A write moves units from the buffer to the file and leaves the stream alone.
LEMMA StepWrite ==
  ASSUME RecorderInv, NEW k \in 1 .. BufferSize, Write(k)
  PROVE  RecorderInv'
<1> USE DEF RecorderInv
<1> DEFINE first == SubSeq(buffer, 1, k)
           left == SubSeq(buffer, k + 1, Len(buffer))
<1>1. /\ Writing /\ k <= Len(buffer) /\ file' = file \o first /\ buffer' = left
      /\ UNCHANGED <<recorder, waiting, next, made, saved, torn, reopened>>
  BY DEF Write
<1>2. file \in Seq(UnitSet) /\ buffer \in Seq(UnitSet) /\ Len(buffer) \in Nat
  BY DEF RecorderTypes
<1>3. k \in 1 .. Len(buffer) /\ 1 \in 1 .. Len(buffer) + 1
  BY <1>1, <1>2, Sizes
<1>4. /\ first \in Seq(UnitSet) /\ Len(first) = k
      /\ left \in Seq(UnitSet) /\ Len(left) = Len(buffer) - k
  BY <1>2, <1>3
<1>5. first \o left = buffer
  <2>1. first \o left = SubSeq(buffer, 1, Len(buffer))
    <3>1. k \in 1 - 1 .. Len(buffer) /\ Len(buffer) \in k .. Len(buffer)
      BY <1>2, <1>3
    <3> QED
      BY <1>2, <1>3, <3>1, ConcatAdjacentSubSeq
  <2> QED
    BY <1>2, <2>1, SubSeqFull
<1> HIDE DEF first, left
<1>6. Stream' = Stream
  <2>1. (file \o first) \o left = file \o (first \o left)
    BY <1>2, <1>4, ConcatAssociative
  <2> QED
    BY <1>1, <1>5, <2>1 DEF Stream
<1>7. /\ file' \in Seq(UnitSet) /\ Len(file') = Len(file) + k
      /\ buffer' \in Seq(UnitSet) /\ Len(buffer') <= Len(buffer)
  BY <1>1, <1>2, <1>3, <1>4, ConcatProperties
<1>8. RecorderTypes'
  BY <1>1, <1>2, <1>7, Sizes DEF RecorderTypes
<1>9. Quiet' /\ StreamHolds'
  BY <1>1, <1>6 DEF Quiet, StreamHolds, Writing
<1>10. SavedWritten'
  <2>1. saved \in Nat /\ UnitsIn(saved) \in Nat /\ Len(file) \in Nat
    <3>1. saved \in Nat
      BY DEF RecorderTypes
    <3>2. UnitsIn(saved) \in Nat
      BY <3>1, MoreUnits
    <3>3. Len(file) \in Nat
      BY <1>2
    <3> QED
      BY <3>1, <3>2, <3>3
  <2> QED
    BY <1>1, <1>3, <1>7, <2>1 DEF SavedWritten
<1> QED
  BY <1>8, <1>9, <1>10

\* With the buffer empty all that was accepted is in the file.
LEMMA StepWritten ==
  ASSUME RecorderInv, Written
  PROVE  RecorderInv'
<1> USE DEF RecorderInv
<1>1. /\ Writing /\ buffer = << >> /\ waiting' = None /\ saved' = Len(made)
      /\ recorder' = (IF recorder = "close" THEN "down" ELSE "idle")
      /\ UNCHANGED <<file, next, torn, reopened>>
  BY DEF Written
<1>2. /\ file \in Seq(UnitSet) /\ made \in Seq(Nat)
      /\ Len(file) \in Nat /\ Len(made) \in Nat /\ Len(buffer) = 0
      /\ recorder # "down" /\ next \in 1 .. MaxRecords + 1
  BY <1>1 DEF RecorderTypes, Writing
<1>3. ~ reopened => UnitsIn(Len(made)) <= Len(file)
  <2> SUFFICES ASSUME ~ reopened PROVE UnitsIn(Len(made)) <= Len(file)
    OBVIOUS
  <2>1. Stream = file
    BY <1>1, <1>2, ConcatEmptySeq DEF Stream
  <2> QED
    BY <2>1 DEF StreamHolds
<1>4. CASE recorder = "spill"
  <2>1. Buffer(waiting) /\ waiting \in Nat /\ Len(made) + 1 < next /\ recorder' = "idle"
    BY <1>1, <1>4 DEF Written, RecorderTypes
  <2>2. /\ buffer' \in Seq(UnitSet) /\ Len(buffer') = Len(buffer) + RecordSize
        /\ made' \in Seq(Nat) /\ Len(made') = Len(made) + 1
        /\ StreamHolds'
    BY <1>1, <1>2, <2>1, BufferHolds
  <2>3. Len(buffer') <= BufferSize /\ Len(made') < next /\ Len(made) <= Len(made')
    BY <1>2, <2>1, <2>2, Sizes
  <2>4. RecorderTypes'
    BY <1>1, <1>2, <2>1, <2>2, <2>3 DEF RecorderTypes, None
  <2>5. Quiet' /\ SavedWritten'
    BY <1>1, <1>2, <1>3, <2>1, <2>3 DEF Quiet, SavedWritten
  <2> QED
    BY <2>2, <2>4, <2>5
<1>5. CASE recorder # "spill"
  <2>1. UNCHANGED <<buffer, made>> /\ recorder' \in {"down", "idle"}
    BY <1>1, <1>5 DEF Written
  <2>2. Stream' = Stream
    BY <1>1, <2>1 DEF Stream
  <2>3. RecorderTypes'
    <3>1. Len(made) < next
      BY <1>5 DEF RecorderTypes
    <3> QED
      BY <1>1, <1>2, <2>1, <3>1 DEF RecorderTypes, None
  <2>4. Quiet' /\ StreamHolds' /\ SavedWritten'
    BY <1>1, <1>2, <1>3, <2>1, <2>2 DEF Quiet, StreamHolds, SavedWritten
  <2> QED
    BY <2>3, <2>4
<1> QED
  BY <1>4, <1>5

\* A write that fails keeps the buffer, or loses it with the recorder.
LEMMA StepWriteFails ==
  ASSUME RecorderInv, WriteFails
  PROVE  RecorderInv'
<1>1. /\ recorder # "down" /\ UNCHANGED <<file, next, saved, reopened>>
  BY DEF WriteFails, Writing
<1>2. CASE recorder = "close"
  BY <1>1, <1>2, LoseKeeps DEF WriteFails
<1>3. CASE recorder # "close"
  <2>1. recorder' = "idle" /\ waiting' = None /\ UNCHANGED <<buffer, made, torn>>
    BY <1>3 DEF WriteFails
  <2>2. Stream' = Stream
    BY <1>1, <2>1 DEF Stream
  <2>3. RecorderTypes'
    <3>1. Len(made) < next
      BY DEF RecorderInv, RecorderTypes
    <3> QED
      BY <1>1, <2>1, <3>1 DEF RecorderInv, RecorderTypes, None
  <2> QED
    BY <1>1, <2>1, <2>2, <2>3 DEF RecorderInv, Quiet, StreamHolds, SavedWritten
<1> QED
  BY <1>2, <1>3

\* Every step of the recorder.
LEMMA StepRecorder ==
  ASSUME RecorderInv, TickRecorder
  PROVE  RecorderInv'
<1>1. ASSUME Crash PROVE RecorderInv'
  BY <1>1, LoseKeeps DEF Crash
<1> QED
  BY <1>1, StepCreate, StepRecord, StepFlush, StepWrite, StepWritten, StepWriteFails
  DEF TickRecorder

------------------------------------------------------------------------------
(***************************************************************************)
(* The reader.                                                             *)
(***************************************************************************)

\* The reader of a new file has read nothing.
LEMMA InitReader == Init => ReaderInv
<1> SUFFICES ASSUME Init PROVE ReaderInv
  OBVIOUS
<1>1. /\ reading = FALSE /\ pos = 0 /\ buf = << >> /\ out = << >> /\ ended = FALSE
      /\ faults = 0 /\ file = << >> /\ made = << >> /\ recorder = "down"
  BY DEF Init
<1>2. /\ buf \in Seq(UnitSet) /\ Len(buf) = 0 /\ out \in Seq(Answers) /\ Len(out) = 0
      /\ Len(file) = 0 /\ Len(made) = 0 /\ DOMAIN out = {}
  BY <1>1, EmptySeq
<1>3. ReaderTypes
  <2>1. pos <= Len(file) /\ Len(buf) <= RecordSize /\ faults \in 0 .. MaxFaults
    BY <1>1, <1>2, Sizes
  <2>2. reading \in BOOLEAN /\ ended \in BOOLEAN /\ pos \in Nat
    BY <1>1
  <2> QED
    BY <1>2, <2>1, <2>2 DEF ReaderTypes
<1>4. RightSoFar /\ InStep
  BY <1>1, <1>2, MoreUnits DEF RightSoFar, InStep, TicksFirst
<1> QED
  BY <1>1, <1>2, <1>3, <1>4 DEF ReaderInv, Readable, ReplayHolds

\* A recorder and a reader are not there at the same time.
LEMMA ReaderUntouched ==
  ASSUME CaptureInv, TickRecorder
  PROVE  ReaderInv'
<1>1. ~ reading /\ UNCHANGED readerVars /\ faults' \in 0 .. MaxFaults
  BY Sizes DEF CaptureInv, ReaderInv, ReaderTypes, Readable, TickRecorder, Create, Record,
     Flush, Write, Written, WriteFails, Crash, Writing
<1>2. /\ reading' = FALSE /\ pos' = 0 /\ buf' = << >> /\ out' = << >> /\ ended' = FALSE
  BY <1>1 DEF CaptureInv, ReaderInv, Readable, readerVars, ReaderTypes
<1>3. /\ buf' \in Seq(UnitSet) /\ Len(buf') = 0 /\ out' \in Seq(Answers) /\ Len(out') = 0
      /\ DOMAIN out' = {}
  BY <1>2, EmptySeq
<1>4. Len(file') \in Nat /\ Len(made') \in Nat
  BY StepRecorder DEF CaptureInv, RecorderInv, RecorderTypes
<1>5. ReaderTypes'
  <2>1. pos' <= Len(file') /\ Len(buf') <= RecordSize
    BY <1>2, <1>3, <1>4, Sizes
  <2>2. reading' \in BOOLEAN /\ ended' \in BOOLEAN /\ pos' \in Nat
    BY <1>2
  <2> QED
    BY <1>1, <1>3, <2>1, <2>2 DEF ReaderTypes
<1>6. RightSoFar' /\ InStep'
  BY <1>2, <1>3, <1>4, MoreUnits DEF RightSoFar, InStep, TicksFirst
<1> QED
  BY <1>2, <1>3, <1>5, <1>6 DEF ReaderInv, Readable, ReplayHolds

\* While the reader reads, the recorder's part of the state rests.
LEMMA RecorderRests ==
  ASSUME RecorderInv, UNCHANGED recorderVars
  PROVE  RecorderInv' /\ Stream' = Stream
<1>1. Stream' = Stream
  BY DEF Stream, recorderVars
<1> QED
  BY <1>1 DEF RecorderInv, RecorderTypes, Quiet, StreamHolds, SavedWritten, recorderVars

\* What a reader finds in the file: whole records, and units of one more exactly
\* if the file is torn.
LEMMA FileHolds ==
  ASSUME CaptureInv, reading, ~ reopened
  PROVE  /\ UnitsIn(Len(made)) <= Len(file)
         /\ Len(file) < UnitsIn(Len(made) + 1)
         /\ torn <=> Len(file) # UnitsIn(Len(made))
         /\ \A i \in 1 .. UnitsIn(Len(made)) : file[i] = UnitAt(made, i)
<1>1. recorder = "down" /\ buffer = << >> /\ file \in Seq(UnitSet)
  BY DEF CaptureInv, ReaderInv, Readable, RecorderInv, Quiet, RecorderTypes
<1>2. Stream = file
  BY <1>1, ConcatEmptySeq DEF Stream
<1> QED
  BY <1>2 DEF CaptureInv, RecorderInv, StreamHolds

\* An answer leaves the earlier answers as they are.
LEMMA Answered ==
  ASSUME ReaderTypes, NEW answer \in Answers, out' = Append(out, answer)
  PROVE  /\ out' \in Seq(Answers) /\ Len(out') = Len(out) + 1 /\ Len(out) \in Nat
         /\ DOMAIN out = 1 .. Len(out) /\ DOMAIN out' = 1 .. Len(out) + 1
         /\ out'[Len(out) + 1] = answer
         /\ \A i \in 1 .. Len(out) : out'[i] = out[i]
BY DEF ReaderTypes

\* An error keeps the answers right up to the first error.
LEMMA ErrorAnswered ==
  ASSUME ReaderTypes, RightSoFar, UNCHANGED made,
         NEW answer \in {Failed, Truncated, Invalid}, out' = Append(out, answer)
  PROVE  RightSoFar'
<1>1. answer \in Answers
  BY DEF Answers, Failed, Truncated, Invalid, None
<1>2. /\ Len(out) \in Nat /\ DOMAIN out = 1 .. Len(out) /\ DOMAIN out' = 1 .. Len(out) + 1
      /\ out'[Len(out) + 1] = answer /\ \A i \in 1 .. Len(out) : out'[i] = out[i]
  BY <1>1, Answered
<1> SUFFICES ASSUME NEW i \in DOMAIN out',
                    \A j \in 1 .. i : out'[j] \notin {Failed, Truncated, Invalid}
             PROVE  i <= Len(made') /\ out'[i] = Tick(made'[i])
  BY DEF RightSoFar
<1>3. i \in 1 .. Len(out)
  BY <1>2
<1>4. \A j \in 1 .. i : out'[j] = out[j]
  BY <1>2, <1>3
<1> QED
  BY <1>2, <1>3, <1>4 DEF RightSoFar

\* Opening reads nothing yet.
LEMMA StepOpen ==
  ASSUME CaptureInv, Open
  PROVE  ReaderInv'
<1>1. /\ recorder = "down" /\ reading' = TRUE
      /\ UNCHANGED <<recorderVars, pos, buf, out, ended, faults>>
  BY DEF Open
<1> QED
  BY <1>1 DEF CaptureInv, ReaderInv, ReaderTypes, Readable, ReplayHolds, RightSoFar, InStep,
     SawTorn, TicksFirst, Contains, recorderVars

\* A read hands over the next units of the file.
LEMMA StepRead ==
  ASSUME CaptureInv, NEW k \in 1 .. RecordSize, Read(k)
  PROVE  ReaderInv'
<1> DEFINE more == SubSeq(file, pos + 1, pos + k)
<1>1. /\ reading /\ ~ ended /\ Len(buf) < RecordSize
      /\ k <= RecordSize - Len(buf) /\ k <= Len(file) - pos
      /\ buf' = buf \o more /\ pos' = pos + k
      /\ UNCHANGED <<recorderVars, reading, out, ended, faults>>
  BY DEF Read, InNext
<1>2. /\ file \in Seq(UnitSet) /\ buf \in Seq(UnitSet) /\ pos \in Nat
      /\ Len(file) \in Nat /\ Len(buf) \in Nat /\ Len(out) \in Nat
  BY DEF CaptureInv, RecorderInv, RecorderTypes, ReaderInv, ReaderTypes
<1>3. /\ more \in Seq(UnitSet) /\ Len(more) = k
      /\ \A i \in 1 .. k : more[i] = file[pos + i]
  <2>1. pos + 1 \in Int /\ pos + k \in Int /\ pos + 1 <= pos + k
        /\ (pos + k) - (pos + 1) + 1 = k
    BY <1>2
  <2>2. \A i \in pos + 1 .. pos + k : file[i] \in UnitSet
    BY <1>1, <1>2
  <2>3. \A i \in 1 .. k : (pos + 1) + i - 1 = pos + i
    BY <1>2
  <2> QED
    BY <2>1, <2>2, <2>3, SubSeqProperties
<1> HIDE DEF more
<1>4. /\ buf' \in Seq(UnitSet) /\ Len(buf') = Len(buf) + k
      /\ \A i \in 1 .. Len(buf) : buf'[i] = buf[i]
      /\ \A i \in Len(buf) + 1 .. Len(buf) + k : buf'[i] = more[i - Len(buf)]
  <2>1. /\ buf \o more \in Seq(UnitSet) /\ Len(buf \o more) = Len(buf) + Len(more)
        /\ \A i \in 1 .. Len(buf) + Len(more) :
             (buf \o more)[i] = IF i <= Len(buf) THEN buf[i] ELSE more[i - Len(buf)]
    BY <1>2, <1>3, ConcatProperties
  <2>2. Len(more) = k /\ buf' = buf \o more
    BY <1>1, <1>3
  <2> QED
    BY <1>2, <2>1, <2>2
<1>5. /\ file' = file /\ made' = made /\ torn' = torn /\ reopened' = reopened
      /\ recorder' = recorder
  BY <1>1 DEF recorderVars
<1>6. ReaderTypes'
  <2>1. pos' \in Nat /\ pos' <= Len(file') /\ Len(buf') <= RecordSize
    BY <1>1, <1>2, <1>4, <1>5, Sizes
  <2> QED
    BY <1>1, <1>4, <2>1 DEF CaptureInv, ReaderInv, ReaderTypes
<1>7. Readable'
  BY <1>1, <1>5 DEF CaptureInv, ReaderInv, Readable
<1>8. RightSoFar => RightSoFar'
  BY <1>1, <1>5 DEF RightSoFar
<1>9. InStep => InStep'
  <2> SUFFICES ASSUME InStep PROVE InStep'
    OBVIOUS
  <2>1. pos = UnitsIn(Len(out)) + Len(buf) /\ UnitsIn(Len(out)) \in Nat
    BY <1>2, MoreUnits DEF InStep
  <2>2. pos' = UnitsIn(Len(out')) + Len(buf') /\ TicksFirst(Len(out))'
    <3>1. out' = out /\ pos' = pos + k /\ Len(buf') = Len(buf) + k
      BY <1>1, <1>4
    <3>2. pos' = UnitsIn(Len(out')) + Len(buf')
      BY <1>2, <2>1, <3>1
    <3>3. TicksFirst(Len(out))'
      BY <1>5, <3>1 DEF InStep, TicksFirst
    <3> QED
      BY <3>2, <3>3
  <2>3. ASSUME NEW j \in 1 .. Len(buf') PROVE buf'[j] = file[UnitsIn(Len(out)) + j]
    <3>1. CASE j \in 1 .. Len(buf)
      BY <1>4, <3>1 DEF InStep
    <3>2. CASE j \in Len(buf) + 1 .. Len(buf) + k
      <4> DEFINE i == j - Len(buf)
      <4>1. i \in 1 .. k /\ pos + i = UnitsIn(Len(out)) + j
        BY <1>2, <2>1, <3>2
      <4>2. buf'[j] = more[i]
        BY <1>4, <3>2
      <4> HIDE DEF i
      <4>3. more[i] = file[pos + i]
        BY <1>3, <4>1
      <4> QED
        BY <4>1, <4>2, <4>3
    <3> QED
      BY <1>2, <1>4, <3>1, <3>2
  <2> QED
    BY <1>1, <1>5, <2>2, <2>3 DEF InStep, TicksFirst
<1>10. ~ SawTorn
  BY <1>1, <1>2 DEF SawTorn
<1>11. Contains(out, Failed) => Contains(out', Failed)
  BY <1>1
<1>12. ReplayHolds'
  BY <1>5, <1>8, <1>9, <1>10, <1>11 DEF CaptureInv, ReaderInv, ReplayHolds
<1> QED
  BY <1>6, <1>7, <1>12 DEF ReaderInv

\* The end of the file: the end of the replay, or of a torn record.
LEMMA StepEndOfFile ==
  ASSUME CaptureInv, EndOfFile
  PROVE  ReaderInv'
<1>1. /\ reading /\ ~ ended /\ Len(buf) < RecordSize /\ pos = Len(file)
      /\ buf' = << >>
      /\ UNCHANGED <<recorderVars, reading, pos, faults>>
  BY DEF EndOfFile, InNext
<1>2. /\ file' = file /\ made' = made /\ torn' = torn /\ reopened' = reopened
      /\ recorder' = recorder
  BY <1>1 DEF recorderVars
<1>3. buf' \in Seq(UnitSet) /\ Len(buf') = 0
  BY <1>1, EmptySeq
<1>4. /\ file \in Seq(UnitSet) /\ buf \in Seq(UnitSet) /\ pos \in Nat /\ made \in Seq(Nat)
      /\ Len(file) \in Nat /\ Len(buf) \in Nat /\ Len(out) \in Nat /\ Len(made) \in Nat
  BY DEF CaptureInv, RecorderInv, RecorderTypes, ReaderInv, ReaderTypes
<1>5. CASE buf = << >>
  <2>1. ended' = TRUE /\ out' = out
    BY <1>5 DEF EndOfFile
  <2>2. ReaderTypes'
    BY <1>1, <1>2, <1>3, <1>4, <2>1, Sizes DEF CaptureInv, ReaderInv, ReaderTypes
  <2>3. Readable'
    BY <1>1, <1>2, <2>1 DEF CaptureInv, ReaderInv, Readable
  <2>4. ReplayHolds'
    BY <1>1, <1>2, <1>5, <2>1 DEF CaptureInv, ReaderInv, ReplayHolds, RightSoFar, InStep,
       SawTorn, TicksFirst
  <2> QED
    BY <2>2, <2>3, <2>4 DEF ReaderInv
<1>6. CASE buf # << >>
  <2>1. out' = Append(out, Truncated) /\ ended' = ended /\ Len(buf) > 0
    BY <1>4, <1>6 DEF EndOfFile
  <2>2. /\ out' \in Seq(Answers) /\ Len(out') = Len(out) + 1
        /\ out'[Len(out) + 1] = Truncated /\ \A i \in 1 .. Len(out) : out'[i] = out[i]
    <3>1. Truncated \in Answers
      BY DEF Truncated, Answers, None
    <3> QED
      BY <2>1, <3>1, Answered DEF CaptureInv, ReaderInv
  <2>3. ReaderTypes'
    BY <1>1, <1>2, <1>3, <1>4, <2>1, <2>2, Sizes DEF CaptureInv, ReaderInv, ReaderTypes
  <2>4. Readable'
    BY <1>1, <1>2, <2>1 DEF CaptureInv, ReaderInv, Readable
  <2>5. RightSoFar => RightSoFar'
    BY <1>2, <2>1, ErrorAnswered DEF CaptureInv, ReaderInv
  <2>6. Contains(out, Failed) => Contains(out', Failed)
    BY <1>4, <2>2 DEF Contains
  <2>7. ASSUME ~ reopened, InStep PROVE SawTorn'
    <3>1. /\ UnitsIn(Len(made)) <= Len(file) /\ Len(file) < UnitsIn(Len(made) + 1)
          /\ torn <=> Len(file) # UnitsIn(Len(made))
      BY <1>1, <2>7, FileHolds
    <3>2. Len(file) = UnitsIn(Len(out)) + Len(buf) /\ TicksFirst(Len(out))
      BY <1>1, <2>7 DEF InStep
    <3>3. /\ UnitsIn(Len(out)) \in Nat /\ UnitsIn(Len(out) + 1) = UnitsIn(Len(out)) + RecordSize
          /\ UnitsIn(Len(made)) \in Nat
      BY <1>4, MoreUnits
    <3>4. Len(made) <= Len(out)
      <4>1. UnitsIn(Len(made)) < UnitsIn(Len(out) + 1)
        BY <1>1, <1>4, <3>1, <3>2, <3>3, Sizes
      <4> QED
        BY <1>4, <4>1, FewerUnits
    <3>5. Len(out) = Len(made)
      BY <1>4, <3>2, <3>4 DEF TicksFirst
    <3>6. torn
      BY <1>4, <2>1, <3>1, <3>2, <3>3, <3>5
    <3> QED
      BY <1>1, <1>2, <2>2, <3>2, <3>5, <3>6 DEF SawTorn, TicksFirst
  <2>8. ~ SawTorn
    BY <1>6 DEF SawTorn
  <2>9. ReplayHolds'
    BY <1>2, <2>5, <2>6, <2>7, <2>8 DEF CaptureInv, ReaderInv, ReplayHolds
  <2> QED
    BY <2>3, <2>4, <2>9 DEF ReaderInv
<1> QED
  BY <1>5, <1>6

\* A read error is an answer, and the units of a record that were read are gone.
LEMMA StepReadFails ==
  ASSUME CaptureInv, ReadFails
  PROVE  ReaderInv'
<1>1. /\ reading /\ ~ ended /\ faults < MaxFaults /\ faults' = faults + 1
      /\ out' = Append(out, Failed) /\ buf' = << >>
      /\ UNCHANGED <<recorderVars, reading, pos, ended>>
  BY DEF ReadFails, InNext
<1>2. /\ file' = file /\ made' = made /\ torn' = torn /\ reopened' = reopened
      /\ recorder' = recorder
  BY <1>1 DEF recorderVars
<1>3. buf' \in Seq(UnitSet) /\ Len(buf') = 0
  BY <1>1, EmptySeq
<1>4. /\ out' \in Seq(Answers) /\ Len(out') = Len(out) + 1 /\ Len(out) \in Nat
      /\ out'[Len(out) + 1] = Failed
  <2>1. Failed \in Answers
    BY DEF Failed, Answers, None
  <2> QED
    BY <1>1, <2>1, Answered DEF CaptureInv, ReaderInv
<1>5. ReaderTypes'
  BY <1>1, <1>2, <1>3, <1>4, Sizes DEF CaptureInv, ReaderInv, ReaderTypes
<1>6. Readable'
  BY <1>1, <1>2 DEF CaptureInv, ReaderInv, Readable
<1>7. RightSoFar => RightSoFar'
  BY <1>1, <1>2, ErrorAnswered DEF CaptureInv, ReaderInv
<1>8. Contains(out', Failed)
  BY <1>4 DEF Contains
<1> QED
  BY <1>2, <1>5, <1>6, <1>7, <1>8 DEF CaptureInv, ReaderInv, ReplayHolds

\* A reader in step that holds a whole record answers with it, and no other.
LEMMA YieldsRecord ==
  ASSUME CaptureInv, reading, ~ reopened, InStep, Len(buf) = RecordSize
  PROVE  Len(out) < Len(made) /\ Verdicts = {Tick(made[Len(out) + 1])}
<1> DEFINE k == Len(out)
           n == UnitsIn(k)
<1>1. /\ file \in Seq(UnitSet) /\ buf \in Seq(UnitSet) /\ made \in Seq(Nat)
      /\ Len(file) \in Nat /\ k \in Nat /\ Len(made) \in Nat /\ pos <= Len(file)
  BY DEF CaptureInv, RecorderInv, RecorderTypes, ReaderInv, ReaderTypes
<1>2. /\ k <= Len(made) /\ pos = n + RecordSize
      /\ \A j \in 1 .. RecordSize : buf[j] = file[n + j]
  BY DEF InStep, TicksFirst
<1>3. n \in Nat /\ UnitsIn(k + 1) = n + RecordSize
  BY <1>1, MoreUnits
<1>4. /\ Len(file) < UnitsIn(Len(made) + 1)
      /\ \A i \in 1 .. UnitsIn(Len(made)) : file[i] = UnitAt(made, i)
  BY FileHolds
<1>5. k + 1 <= Len(made)
  <2>1. UnitsIn(k + 1) < UnitsIn(Len(made) + 1)
    <3>1. UnitsIn(Len(made) + 1) \in Nat
      BY <1>1, Len(made) + 1 \in Nat, MoreUnits
    <3> QED
      BY <1>1, <1>2, <1>3, <1>4, <3>1, Sizes
  <2>2. k + 1 \in Nat
    BY <1>1
  <2> QED
    BY <1>1, <2>1, <2>2, FewerUnits
<1>6. UnitsIn(k + 1) <= UnitsIn(Len(made)) /\ UnitsIn(Len(made)) \in Nat
  BY <1>1, <1>5, k + 1 \in Nat, MoreUnits
<1> DEFINE record == made[k + 1]
<1>7. record \in Nat
  BY <1>1, <1>5
<1>8. ASSUME NEW j \in 1 .. RecordSize PROVE buf[j] = <<record, j - 1>>
  <2>1. n + j \in 1 .. UnitsIn(Len(made))
    BY <1>3, <1>6, Sizes
  <2>2. n + j \in Nat
    BY <2>1
  <2>3. UnitAt(made, n + j) = <<record, j - 1>>
    BY <1>1, <2>2, UnitAtRecord
  <2> QED
    BY <1>2, <1>4, <2>1, <2>3
<1> HIDE DEF k, n, record
<1>9. buf[1][1] = record
  BY <1>8, Sizes
<1>10. buf = Units(<<record>>)
  <2>1. <<record>> \in Seq(Nat) /\ Len(<<record>>) = 1 /\ <<record>>[1] = record
    BY <1>7
  <2>2. UnitsIn(1) = RecordSize
    BY Sizes DEF UnitsIn
  <2>3. /\ Units(<<record>>) \in Seq(UnitSet) /\ Len(Units(<<record>>)) = RecordSize
        /\ \A j \in 1 .. RecordSize : Units(<<record>>)[j] = UnitAt(<<record>>, j)
    BY <2>1, <2>2, UnitsOfRecords
  <2>4. ASSUME NEW j \in 1 .. RecordSize PROVE UnitAt(<<record>>, j) = <<record, j - 1>>
    <3>1. j = UnitsIn(0) + j /\ 0 \in Nat /\ j \in Nat /\ 0 + 1 = 1
      BY MoreUnits, Sizes
    <3> QED
      BY <2>1, <3>1, UnitAtRecord
  <2>5. \A j \in 1 .. Len(buf) : buf[j] = Units(<<record>>)[j]
    BY <1>8, <2>3, <2>4
  <2> QED
    BY <1>1, <2>3, <2>5, SeqEqual
<1>11. Verdicts = {Tick(record)}
  BY <1>9, <1>10 DEF Verdicts
<1> QED
  BY <1>1, <1>5, <1>11 DEF k, record

\* A whole record is answered with, or with an error when the reader is out of
\* step.
LEMMA StepYield ==
  ASSUME CaptureInv, Yield
  PROVE  ReaderInv'
<1>1. /\ reading /\ Len(buf) = RecordSize /\ buf' = << >>
      /\ UNCHANGED <<recorderVars, reading, pos, ended, faults>>
  BY DEF Yield
<1>2. PICK verdict \in Verdicts : out' = Append(out, verdict)
  BY DEF Yield
<1>3. /\ file' = file /\ made' = made /\ torn' = torn /\ reopened' = reopened
      /\ recorder' = recorder
  BY <1>1 DEF recorderVars
<1>4. buf' \in Seq(UnitSet) /\ Len(buf') = 0
  BY <1>1, EmptySeq
<1>5. verdict \in Answers
  <2>1. buf[1][1] \in Nat
    <3>1. buf \in Seq(UnitSet) /\ 1 \in 1 .. Len(buf)
      BY <1>1, Sizes DEF CaptureInv, ReaderInv, ReaderTypes
    <3>2. buf[1] \in UnitSet
      BY <3>1
    <3> QED
      BY <3>2 DEF UnitSet
  <2> QED
    BY <2>1 DEF Verdicts, Tick, Invalid, Answers, None
<1>6. /\ out' \in Seq(Answers) /\ Len(out') = Len(out) + 1 /\ Len(out) \in Nat
      /\ DOMAIN out = 1 .. Len(out) /\ DOMAIN out' = 1 .. Len(out) + 1
      /\ out'[Len(out) + 1] = verdict
      /\ \A i \in 1 .. Len(out) : out'[i] = out[i]
  BY <1>2, <1>5, Answered DEF CaptureInv, ReaderInv
<1>7. ReaderTypes'
  BY <1>1, <1>3, <1>4, <1>6, Sizes DEF CaptureInv, ReaderInv, ReaderTypes
<1>8. ~ ended /\ buf # << >>
  BY <1>1, EmptySeq, Sizes DEF CaptureInv, ReaderInv, Readable
<1>9. Readable'
  BY <1>1, <1>3, <1>8 DEF CaptureInv, ReaderInv, Readable
<1>10. Contains(out, Failed) => Contains(out', Failed)
  BY <1>6 DEF Contains
<1>11. ASSUME ~ reopened PROVE RightSoFar' /\ (InStep' \/ Contains(out', Failed))
  <2>1. RightSoFar /\ (InStep \/ Contains(out, Failed))
    BY <1>8, <1>11 DEF CaptureInv, ReaderInv, ReplayHolds, SawTorn
  <2>2. CASE InStep
    <3>1. Len(out) < Len(made) /\ verdict = Tick(made[Len(out) + 1])
      BY <1>1, <1>11, <2>2, YieldsRecord
    <3>2. Len(made) \in Nat
      BY DEF CaptureInv, RecorderInv, RecorderTypes
    <3>3. TicksFirst(Len(out))'
      BY <1>3, <1>6, <2>2, <3>1, <3>2 DEF InStep, TicksFirst
    <3>4. RightSoFar'
      BY <1>6, <3>3 DEF RightSoFar, TicksFirst
    <3>5. UnitsIn(Len(out) + 1) = UnitsIn(Len(out)) + RecordSize /\ UnitsIn(Len(out)) \in Nat
      BY <1>6, MoreUnits
    <3>6. pos' = UnitsIn(Len(out')) + Len(buf')
      BY <1>1, <1>4, <1>6, <2>2, <3>5, Sizes DEF InStep
    <3> QED
      BY <1>4, <3>3, <3>4, <3>6 DEF InStep
  <2>3. CASE Contains(out, Failed)
    <3>1. PICK f \in 1 .. Len(out) : out[f] = Failed
      BY <2>3 DEF Contains
    <3>2. RightSoFar'
      <4> SUFFICES ASSUME NEW i \in DOMAIN out',
                          \A j \in 1 .. i : out'[j] \notin {Failed, Truncated, Invalid}
                   PROVE  i <= Len(made') /\ out'[i] = Tick(made'[i])
        BY DEF RightSoFar
      <4>1. i < f
        BY <1>6, <3>1
      <4>2. i \in DOMAIN out /\ \A j \in 1 .. i : out'[j] = out[j]
        BY <1>6, <3>1, <4>1
      <4> QED
        BY <1>3, <1>6, <2>1, <4>2 DEF RightSoFar
    <3> QED
      BY <1>10, <2>3, <3>2
  <2> QED
    BY <2>1, <2>2, <2>3
<1>12. ReplayHolds'
  BY <1>3, <1>11 DEF ReplayHolds
<1> QED
  BY <1>7, <1>9, <1>12 DEF ReaderInv

------------------------------------------------------------------------------
(***************************************************************************)
(* Capture and replay together.                                            *)
(***************************************************************************)

\* One case per process.
LEMMA StepCapture == CaptureInv /\ [Next]_vars => CaptureInv'
<1> SUFFICES ASSUME CaptureInv, [Next]_vars PROVE CaptureInv'
  OBVIOUS
<1>1. CASE TickRecorder
  BY <1>1, StepRecorder, ReaderUntouched DEF CaptureInv
<1>2. CASE TickReader
  <2>1. UNCHANGED recorderVars
    BY <1>2 DEF TickReader, Open, Read, EndOfFile, ReadFails, Yield
  <2>2. RecorderInv'
    BY <2>1, RecorderRests DEF CaptureInv
  <2>3. ReaderInv'
    BY <1>2, StepOpen, StepRead, StepEndOfFile, StepReadFails, StepYield DEF TickReader
  <2> QED
    BY <2>2, <2>3 DEF CaptureInv
<1>3. CASE UNCHANGED vars
  <2>1. UNCHANGED recorderVars /\ UNCHANGED readerVars /\ UNCHANGED faults
    BY <1>3 DEF vars
  <2>2. RecorderInv'
    BY <2>1, RecorderRests DEF CaptureInv
  <2>3. ReaderInv'
    BY <2>1 DEF CaptureInv, ReaderInv, ReaderTypes, Readable, ReplayHolds, RightSoFar, InStep,
       SawTorn, TicksFirst, Contains, recorderVars, readerVars
  <2> QED
    BY <2>2, <2>3 DEF CaptureInv
<1> QED
  BY <1>1, <1>2, <1>3 DEF Next

\* The inductive invariant holds throughout.
LEMMA CaptureInvHolds == Spec => []CaptureInv
<1>1. Init => CaptureInv
  BY InitRecorder, InitReader DEF CaptureInv
<1> QED
  BY <1>1, StepCapture, PTL DEF Spec

\* BufWriter never holds more than its capacity, and next() no more than a record:
\* the slices capture.rs takes of its 64-byte array are inside it.
THEOREM CaptureTypeCorrect == Spec => []TypeOK
<1>1. CaptureInv => TypeOK
  <2> SUFFICES ASSUME CaptureInv PROVE TypeOK
    OBVIOUS
  <2>1. saved <= MaxRecords
    BY Sizes DEF CaptureInv, RecorderInv, RecorderTypes, SavedWritten
  <2> QED
    BY <2>1 DEF CaptureInv, RecorderInv, RecorderTypes, ReaderInv, ReaderTypes, TypeOK
<1> QED
  BY <1>1, CaptureInvHolds, PTL

\* Short writes, failed writes and retries never misplace a unit, whatever the size
\* of a record and of the buffer.
THEOREM StreamNeverMisplaced == Spec => []StreamIntact
<1>1. CaptureInv => StreamIntact
  <2> SUFFICES ASSUME CaptureInv, ~ torn PROVE Stream = Units(made)
    BY DEF StreamIntact, Stream
  <2>1. file \in Seq(UnitSet) /\ buffer \in Seq(UnitSet) /\ made \in Seq(Nat)
    BY DEF CaptureInv, RecorderInv, RecorderTypes
  <2>2. Stream \in Seq(UnitSet)
    BY <2>1, ConcatProperties DEF Stream
  <2>3. /\ Len(Stream) = UnitsIn(Len(made))
        /\ \A i \in 1 .. UnitsIn(Len(made)) : Stream[i] = UnitAt(made, i)
    BY DEF CaptureInv, RecorderInv, Quiet, StreamHolds
  <2>4. /\ Units(made) \in Seq(UnitSet) /\ Len(Units(made)) = UnitsIn(Len(made))
        /\ \A i \in 1 .. UnitsIn(Len(made)) : Units(made)[i] = UnitAt(made, i)
    BY <2>1, UnitsOfRecords
  <2>5. \A i \in 1 .. Len(Stream) : Stream[i] = Units(made)[i]
    BY <2>3, <2>4
  <2> QED
    BY <2>2, <2>3, <2>4, <2>5, SeqEqual
<1> QED
  BY <1>1, CaptureInvHolds, PTL

\* "call this before your process exits or the tail of the session never makes it
\* to disk": what was flushed survives every later crash.
THEOREM FlushedIsSafe == Spec => []FlushedSurvives
<1>1. CaptureInv => FlushedSurvives
  <2> SUFFICES ASSUME CaptureInv, ~ reopened
               PROVE  IsPrefix(Units(SubSeq(made, 1, saved)), file)
    BY DEF FlushedSurvives, CaptureInv, RecorderInv, SavedWritten
  <2> DEFINE safe == SubSeq(made, 1, saved)
             units == Units(safe)
  <2>1. /\ file \in Seq(UnitSet) /\ buffer \in Seq(UnitSet) /\ made \in Seq(Nat)
        /\ Len(file) \in Nat /\ Len(made) \in Nat
        /\ saved \in Nat /\ saved <= Len(made) /\ UnitsIn(saved) <= Len(file)
    BY DEF CaptureInv, RecorderInv, RecorderTypes, SavedWritten
  <2>2. /\ safe \in Seq(Nat) /\ Len(safe) = saved
        /\ \A n \in 1 .. saved : safe[n] = made[n]
    BY <2>1
  <2> HIDE DEF safe
  <2>3. /\ units \in Seq(UnitSet) /\ Len(units) = UnitsIn(saved)
        /\ \A i \in 1 .. UnitsIn(saved) : units[i] = UnitAt(safe, i)
    BY <2>2, UnitsOfRecords
  <2> HIDE DEF units
  <2>4. UnitsIn(saved) \in Nat /\ UnitsIn(Len(made)) \in Nat
        /\ UnitsIn(saved) <= UnitsIn(Len(made))
    BY <2>1, MoreUnits
  <2>5. ASSUME NEW i \in 1 .. UnitsIn(saved) PROVE units[i] = file[i]
    <3>1. i \in 1 .. UnitsIn(Len(made)) /\ i \in 1 .. Len(file)
      BY <2>1, <2>4
    <3>2. Stream[i] = UnitAt(made, i)
      BY <3>1 DEF CaptureInv, RecorderInv, StreamHolds
    <3>3. Stream[i] = file[i]
      BY <2>1, <3>1, ConcatProperties DEF Stream
    <3>4. UnitAt(safe, i) = UnitAt(made, i)
      BY <2>1, <2>2, SameUnits
    <3> QED
      BY <2>3, <3>2, <3>3, <3>4
  <2>6. /\ SubSeq(file, 1, UnitsIn(saved)) \in Seq(UnitSet)
        /\ Len(SubSeq(file, 1, UnitsIn(saved))) = UnitsIn(saved)
        /\ \A i \in 1 .. UnitsIn(saved) : SubSeq(file, 1, UnitsIn(saved))[i] = file[i]
    BY <2>1, <2>4
  <2>7. units = SubSeq(file, 1, UnitsIn(saved))
    BY <2>3, <2>5, <2>6, SeqEqual
  <2>8. SubSeq(units, 1, Len(units)) = units
    BY <2>3, SubSeqFull
  <2>9. Len(units) <= Len(file)
    BY <2>1, <2>3
  <2>10. SubSeq(units, 1, Len(units)) = SubSeq(file, 1, Len(units))
    BY <2>3, <2>7, <2>8
  <2> QED
    BY <2>9, <2>10 DEF IsPrefix, units, safe
<1> QED
  BY <1>1, CaptureInvHolds, PTL

\* "reproduce an incident exactly": a replay yields the accepted records, each once
\* and in order, up to the first error, all of them without a read error, and a
\* record torn by a crash is reported after them.
THEOREM ReplayExact == Spec => []ReplayIsExact
<1>1. CaptureInv => ReplayIsExact
  <2> SUFFICES ASSUME CaptureInv, ~ reopened
               PROVE  /\ RightSoFar
                      /\ ended /\ ~ Contains(out, Failed) =>
                           out = [i \in DOMAIN made |-> Tick(made[i])] \o
                                 (IF torn THEN <<Truncated>> ELSE << >>)
    BY DEF ReplayIsExact, RightSoFar
  <2>1. RightSoFar
    BY DEF CaptureInv, ReaderInv, ReplayHolds
  <2> SUFFICES ASSUME ended, ~ Contains(out, Failed)
               PROVE  out = [i \in DOMAIN made |-> Tick(made[i])] \o
                            (IF torn THEN <<Truncated>> ELSE << >>)
    BY <2>1
  <2> DEFINE ticks == [i \in DOMAIN made |-> Tick(made[i])]
             end == IF torn THEN <<Truncated>> ELSE << >>
  <2>2. /\ out \in Seq(Answers) /\ made \in Seq(Nat) /\ Len(out) \in Nat /\ Len(made) \in Nat
        /\ pos = Len(file) /\ buf = << >> /\ reading /\ torn \in BOOLEAN
    BY DEF CaptureInv, RecorderInv, RecorderTypes, ReaderInv, ReaderTypes, Readable
  <2>3. /\ ticks \in Seq(Answers) /\ Len(ticks) = Len(made)
        /\ \A i \in 1 .. Len(made) : ticks[i] = Tick(made[i])
    <3>1. DOMAIN made = 1 .. Len(made)
      BY <2>2
    <3>2. \A i \in 1 .. Len(made) : Tick(made[i]) \in Answers
      BY <2>2 DEF Tick, Answers
    <3>3. ticks \in [1 .. Len(made) -> Answers] /\ DOMAIN ticks = 1 .. Len(made)
      BY <3>1, <3>2
    <3>4. ticks \in Seq(Answers) /\ Len(ticks) = Len(made)
      BY <2>2, <3>3
    <3> QED
      BY <3>1, <3>4
  <2> HIDE DEF ticks
  <2>4. InStep \/ SawTorn
    BY DEF CaptureInv, ReaderInv, ReplayHolds
  <2>5. CASE InStep
    <3>1. Len(file) = UnitsIn(Len(out)) /\ TicksFirst(Len(out))
      BY <2>2, <2>5, MoreUnits DEF InStep
    <3>2. /\ UnitsIn(Len(made)) <= Len(file)
          /\ torn <=> Len(file) # UnitsIn(Len(made))
      BY <2>2, FileHolds
    <3>3. Len(out) = Len(made)
      <4>1. UnitsIn(Len(made)) < UnitsIn(Len(out) + 1)
        <5>1. /\ UnitsIn(Len(out) + 1) = UnitsIn(Len(out)) + RecordSize
              /\ UnitsIn(Len(out)) \in Nat /\ UnitsIn(Len(made)) \in Nat
          BY <2>2, MoreUnits
        <5> QED
          BY <3>1, <3>2, <5>1, Sizes
      <4> QED
        BY <2>2, <3>1, <4>1, FewerUnits DEF TicksFirst
    <3>4. ~ torn
      BY <3>1, <3>2, <3>3
    <3>5. out = ticks
      BY <2>2, <2>3, <3>1, <3>3, SeqEqual DEF TicksFirst
    <3> QED
      BY <2>3, <3>4, <3>5, ConcatEmptySeq DEF ticks
  <2>6. CASE SawTorn
    <3>1. /\ torn /\ Len(out) = Len(made) + 1 /\ out[Len(made) + 1] = Truncated
          /\ \A i \in 1 .. Len(made) : out[i] = Tick(made[i])
      BY <2>6 DEF SawTorn, TicksFirst
    <3>2. <<Truncated>> \in Seq(Answers) /\ Len(<<Truncated>>) = 1 /\ <<Truncated>>[1] = Truncated
      BY DEF Truncated, Answers, None
    <3>3. /\ ticks \o <<Truncated>> \in Seq(Answers)
          /\ Len(ticks \o <<Truncated>>) = Len(made) + 1
          /\ \A i \in 1 .. Len(made) + 1 :
               (ticks \o <<Truncated>>)[i] =
                  IF i <= Len(made) THEN ticks[i] ELSE <<Truncated>>[i - Len(made)]
      BY <2>3, <3>2, ConcatProperties
    <3>4. \A i \in 1 .. Len(out) : out[i] = (ticks \o <<Truncated>>)[i]
      BY <2>2, <2>3, <3>1, <3>2, <3>3
    <3>5. out = ticks \o <<Truncated>>
      BY <2>2, <3>1, <3>3, <3>4, SeqEqual
    <3> QED
      BY <3>1, <3>5 DEF ticks
  <2> QED
    BY <2>4, <2>5, <2>6 DEF ticks
<1> QED
  BY <1>1, CaptureInvHolds, PTL

=============================================================================
