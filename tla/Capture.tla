------------------------------- MODULE Capture -------------------------------
(***************************************************************************)
(* Capture and replay (src/capture.rs): a recorder appends ticks to a file *)
(* through a buffer, may fail, crash and be started again, and a reader    *)
(* replays the file once the recorder is down.                             *)
(*                                                                         *)
(* A record is RecordSize units where the code has 64 bytes; a unit says   *)
(* which record and which part of it it is.  BufWriter is modelled by what *)
(* it does with a record: it writes its buffer out first when the record   *)
(* does not fit, keeps what a failed write left over, and one write of the *)
(* operating system may take only a part.  A read that is interrupted is   *)
(* retried and changes nothing.                                            *)
(***************************************************************************)
EXTENDS Integers, Sequences, SequencesExt

CONSTANTS
  RecordSize, \* TICK_SIZE
  BufferSize, \* BufWriter's capacity, a multiple of TICK_SIZE: 8192 = 128 * 64
  MaxRecords, \* bound: calls of record()
  MaxFaults   \* bound: failed writes, crashes and failed reads

ASSUME CaptureAssumption ==
  /\ RecordSize \in Nat \ {0} /\ BufferSize \in Nat \ {0}
  /\ BufferSize % RecordSize = 0
  /\ MaxRecords \in Nat /\ MaxFaults \in Nat

VARIABLES
  file,       \* the capture file
  buffer,     \* BufWriter's buffer
  recorder,   \* what the recorder is doing
  waiting,    \* the record that waits for room in the buffer, or None
  next,       \* the next record
  reading,    \* the reader was opened
  pos,        \* how far it has read
  buf,        \* what next() has of the record so far
  out,        \* what next() has returned, None aside
  ended,      \* next() has returned None
  made,       \* history: the records record() accepted and no crash lost
  saved,      \* history: how many of them a flush made safe
  torn,       \* history: a part of a record was left in the file by a crash ...
  reopened,   \* history: ... and records were appended after it
  faults      \* faults so far

recorderVars == <<file, buffer, recorder, waiting, next, made, saved, torn, reopened>>
readerVars == <<reading, pos, buf, out, ended>>
vars == <<recorderVars, readerVars, faults>>

None == 0

\* What next() returns: a tick, None being one that was never recorded, or one
\* of three errors.
Tick(record) == <<"tick", record>>
Truncated == <<"truncated", None>>
Invalid == <<"invalid", None>>
Failed == <<"failed", None>>

Units(records) ==
  [i \in 1 .. Len(records) * RecordSize |->
     <<records[((i - 1) \div RecordSize) + 1], (i - 1) % RecordSize>>]

Init ==
  /\ file = << >>
  /\ buffer = << >>
  /\ recorder = "down"
  /\ waiting = None
  /\ next = 1
  /\ reading = FALSE
  /\ pos = 0
  /\ buf = << >>
  /\ out = << >>
  /\ ended = FALSE
  /\ made = << >>
  /\ saved = 0
  /\ torn = FALSE
  /\ reopened = FALSE
  /\ faults = 0

------------------------------------------------------------------------------
(***************************************************************************)
(* TickRecorder.                                                           *)
(***************************************************************************)

\* create(): append to whatever is there.
Create ==
  /\ recorder = "down" /\ ~ reading
  /\ next <= MaxRecords
  /\ recorder' = "idle"
  /\ reopened' = torn
  /\ UNCHANGED <<file, buffer, waiting, next, made, saved, torn, readerVars, faults>>

\* Mutant: the room for the record is not reckoned with.
FitsAnyhow == Len(buffer) <= BufferSize

Fits == Len(buffer) + RecordSize <= BufferSize

Buffer(record) ==
  /\ buffer' = buffer \o Units(<<record>>)
  /\ made' = Append(made, record)

Record ==
  /\ recorder = "idle"
  /\ next <= MaxRecords
  /\ next' = next + 1
  /\ IF Fits
       THEN Buffer(next) /\ UNCHANGED <<recorder, waiting>>
       ELSE /\ recorder' = "spill" /\ waiting' = next
            /\ UNCHANGED <<buffer, made>>
  /\ UNCHANGED <<file, saved, torn, reopened, readerVars, faults>>

\* flush(), and the drop of the BufWriter when the recorder goes out of scope.
Flush(task) ==
  /\ recorder = "idle"
  /\ recorder' = task
  /\ UNCHANGED <<file, buffer, waiting, next, made, saved, torn, reopened,
                 readerVars, faults>>

Writing == recorder \in {"spill", "flush", "close"}

\* Mutant: a short write is taken for the whole.
WriteAll(k) ==
  /\ Writing /\ k <= Len(buffer)
  /\ file' = file \o SubSeq(buffer, 1, k)
  /\ buffer' = << >>
  /\ UNCHANGED <<recorder, waiting, next, made, saved, torn, reopened,
                 readerVars, faults>>

\* One write of the operating system takes k units.
Write(k) ==
  /\ Writing /\ k <= Len(buffer)
  /\ file' = file \o SubSeq(buffer, 1, k)
  /\ buffer' = SubSeq(buffer, k + 1, Len(buffer))
  /\ UNCHANGED <<recorder, waiting, next, made, saved, torn, reopened,
                 readerVars, faults>>

Written ==
  /\ Writing /\ buffer = << >>
  /\ IF recorder = "spill" THEN Buffer(waiting) ELSE UNCHANGED <<buffer, made>>
  /\ recorder' = IF recorder = "close" THEN "down" ELSE "idle"
  /\ saved' = Len(made)
  /\ waiting' = None
  /\ UNCHANGED <<file, next, torn, reopened, readerVars, faults>>

\* What is left of a record list when only the file survives.
Surviving == SubSeq(made, 1, Len(file) \div RecordSize)
Tears == Len(file) % RecordSize # 0

\* The recorder is gone and its buffer with it.
Lose ==
  /\ recorder' = "down"
  /\ buffer' = << >>
  /\ waiting' = None
  /\ torn' = (torn \/ Tears)
  /\ made' = IF torn THEN SubSeq(made, 1, saved) ELSE Surviving

\* The write fails: record() or flush() returns the error and the buffer keeps
\* the rest.  A failed drop is silent.
WriteFails ==
  /\ Writing /\ buffer # << >>
  /\ faults < MaxFaults
  /\ faults' = faults + 1
  /\ IF recorder = "close"
       THEN Lose
       ELSE /\ recorder' = "idle" /\ waiting' = None
            /\ UNCHANGED <<buffer, made, torn>>
  /\ UNCHANGED <<file, next, saved, reopened, readerVars>>

Crash ==
  /\ recorder # "down"
  /\ faults < MaxFaults
  /\ faults' = faults + 1
  /\ Lose
  /\ UNCHANGED <<file, next, saved, reopened, readerVars>>

------------------------------------------------------------------------------
(***************************************************************************)
(* TickReader, once the recorder is down.                                  *)
(***************************************************************************)
Open ==
  /\ recorder = "down" /\ ~ reading
  /\ reading' = TRUE
  /\ UNCHANGED <<recorderVars, pos, buf, out, ended, faults>>

InNext == reading /\ ~ ended /\ Len(buf) < RecordSize

\* One read returns k units.
Read(k) ==
  /\ InNext
  /\ k <= RecordSize - Len(buf) /\ k <= Len(file) - pos
  /\ buf' = buf \o SubSeq(file, pos + 1, pos + k)
  /\ pos' = pos + k
  /\ UNCHANGED <<recorderVars, reading, out, ended, faults>>

\* Mutant: any end of file is a clean one.
EndOfFileSilent ==
  /\ InNext /\ pos = Len(file)
  /\ ended' = TRUE
  /\ buf' = << >>
  /\ UNCHANGED <<recorderVars, reading, pos, out, faults>>

EndOfFile ==
  /\ InNext /\ pos = Len(file)
  /\ IF buf = << >>
       THEN ended' = TRUE /\ UNCHANGED out
       ELSE out' = Append(out, Truncated) /\ UNCHANGED ended
  /\ buf' = << >>
  /\ UNCHANGED <<recorderVars, reading, pos, faults>>

\* A read error other than an interruption: next() returns it, and what it had
\* of the record is gone.
ReadFails ==
  /\ InNext /\ faults < MaxFaults
  /\ faults' = faults + 1
  /\ out' = Append(out, Failed)
  /\ buf' = << >>
  /\ UNCHANGED <<recorderVars, reading, pos, ended>>

\* validate_record tells a record from a misaligned piece of two only when one
\* of three bytes happens to be out of range.
Verdicts ==
  IF buf = Units(<<buf[1][1]>>) THEN {Tick(buf[1][1])} ELSE {Tick(None), Invalid}

Yield ==
  /\ reading /\ Len(buf) = RecordSize
  /\ \E verdict \in Verdicts : out' = Append(out, verdict)
  /\ buf' = << >>
  /\ UNCHANGED <<recorderVars, reading, pos, ended, faults>>

------------------------------------------------------------------------------
TickRecorder ==
  \/ Create \/ Record \/ Flush("flush") \/ Flush("close")
  \/ (\E k \in 1 .. BufferSize : Write(k)) \/ Written \/ WriteFails \/ Crash
TickReader ==
  Open \/ (\E k \in 1 .. RecordSize : Read(k)) \/ EndOfFile \/ ReadFails \/ Yield

Next == TickRecorder \/ TickReader

Spec == Init /\ [][Next]_vars

------------------------------------------------------------------------------
TypeOK ==
  /\ recorder \in {"down", "idle", "spill", "flush", "close"}
  /\ Len(buffer) <= BufferSize
  /\ waiting # None <=> recorder = "spill"
  /\ Len(buf) <= RecordSize /\ pos <= Len(file)
  /\ saved <= MaxRecords /\ faults <= MaxFaults

\* Short writes, failed writes and retries never misplace a unit: until a crash
\* tears a record, the file and the buffer together are the accepted records.
StreamIntact == ~ torn => file \o buffer = Units(made)

\* "call this before your process exits or the tail of the session never makes
\* it to disk": what was accepted before a flush that succeeded survives any
\* later crash, a torn file or not.
FlushedSurvives ==
  /\ saved <= Len(made)
  /\ IsPrefix(Units(SubSeq(made, 1, saved)), file) \/ reopened

\* "reproduce an incident exactly": a replay yields the accepted records, each
\* once and in order, up to the first error if it meets one; without a read
\* error it yields them all, and a record torn by a crash is reported after
\* them, never passed off as a tick or as the end of the file.
ReplayIsExact ==
  ~ reopened =>
    /\ \A i \in DOMAIN out :
         (\A j \in 1 .. i : out[j] \notin {Failed, Truncated, Invalid})
           => i <= Len(made) /\ out[i] = Tick(made[i])
    /\ ended /\ ~ Contains(out, Failed) =>
         out = [i \in DOMAIN made |-> Tick(made[i])] \o
               (IF torn THEN <<Truncated>> ELSE << >>)

\* "Safe to reopen an existing capture file across process restarts, new
\* records land after whatever's already there": they can be read back.
ReopenIsSafe ==
  ended /\ ~ Contains(out, Failed)
    => \A i \in 1 .. saved : Contains(out, Tick(made[i]))

=============================================================================
