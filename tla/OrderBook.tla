------------------------------ MODULE OrderBook ------------------------------
(***************************************************************************)
(* The book of one instrument (OrderBook in src/types.rs): two sides, the  *)
(* snapshot each side belongs to, and the health counters.  apply and the  *)
(* methods it calls are operators from a book to a book, so that the       *)
(* engine of module FeedPipeline can apply a tick in its own step.         *)
(*                                                                         *)
(* This is the release build: a debug build panics on a tick for another   *)
(* book, where the release build counts it and goes on.                    *)
(***************************************************************************)
EXTENDS BookSide, Sequences

CONSTANTS
  Symbol,         \* the symbol of this book
  NoSnapshotId    \* u32::MAX, what a side that never saw a snapshot carries

Sides == {"Bid", "Ask"}

NewBook ==
  [sides |-> [s \in Sides |-> NewSide],
   snapshot_id |-> [s \in Sides |-> NoSnapshotId],
   sequence |-> 0,
   sequence_initialized |-> FALSE,
   last_update_ns |-> 0,
   symbol_mismatches |-> 0,
   sequence_gaps |-> 0,
   sequence_reorders |-> 0,
   checksum_failures |-> 0]

\* Mutant: every snapshot tick clears, not only the first of its batch.
ClearForEverySnapshotTick(book, side, id) ==
  [book EXCEPT !.sides[side] = Clear(@), !.snapshot_id[side] = id]

\* Mutant: one snapshot id for both sides.
ClearWithSharedId(book, side, id) ==
  IF id # book.snapshot_id[side]
    THEN [book EXCEPT !.sides[side] = Clear(@),
                      !.snapshot_id = [s \in Sides |-> id]]
    ELSE book

\* Mutant: only a higher id is taken for a new batch.
ClearForHigherId(book, side, id) ==
  IF book.snapshot_id[side] = NoSnapshotId \/ id > book.snapshot_id[side]
    THEN [book EXCEPT !.sides[side] = Clear(@), !.snapshot_id[side] = id]
    ELSE book

\* "Only clears on the first tick of a new snapshot batch."
MaybeClearForSnapshot(book, side, id) ==
  IF id # book.snapshot_id[side]
    THEN [book EXCEPT !.sides[side] = Clear(@), !.snapshot_id[side] = id]
    ELSE book

\* Mutant: a repeated sequence number is no reorder.
TrackSequenceRepeats(book, seq) ==
  LET gap == /\ book.sequence_initialized
             /\ seq > book.sequence /\ seq # book.sequence + 1
      reorder == book.sequence_initialized /\ seq < book.sequence
  IN  [book EXCEPT !.sequence_gaps = IF gap THEN @ + 1 ELSE @,
                   !.sequence_reorders = IF reorder THEN @ + 1 ELSE @,
                   !.sequence_initialized = TRUE,
                   !.sequence = seq]

\* Mutant: a gap of one missing tick is not noticed.
TrackSequenceLate(book, seq) ==
  LET gap == /\ book.sequence_initialized
             /\ seq > book.sequence + 2
      reorder == book.sequence_initialized /\ seq <= book.sequence
  IN  [book EXCEPT !.sequence_gaps = IF gap THEN @ + 1 ELSE @,
                   !.sequence_reorders = IF reorder THEN @ + 1 ELSE @,
                   !.sequence_initialized = TRUE,
                   !.sequence = seq]

TrackSequence(book, seq) ==
  LET gap == /\ book.sequence_initialized
             /\ seq > book.sequence /\ seq # book.sequence + 1
      reorder == book.sequence_initialized /\ seq <= book.sequence
  IN  [book EXCEPT !.sequence_gaps = IF gap THEN @ + 1 ELSE @,
                   !.sequence_reorders = IF reorder THEN @ + 1 ELSE @,
                   !.sequence_initialized = TRUE,
                   !.sequence = seq]

\* A tick that changed no level is not an update.
Effective(result) == result \notin {"NoOp", "Discarded"}

\* apply: discard a stranger's tick; otherwise clear for a new snapshot, apply
\* the delta, and when it changed a level, track its sequence and its time.
Apply(book, tick) ==
  IF tick.symbol # Symbol
    THEN [book |-> [book EXCEPT !.symbol_mismatches = @ + 1],
          result |-> "Discarded"]
    ELSE
      LET cleared == IF tick.is_snapshot
                       THEN MaybeClearForSnapshot(book, tick.side, tick.snapshot_id)
                       ELSE book
          applied == ApplyDelta(cleared.sides[tick.side], tick.price, tick.qty,
                                tick.side = "Bid")
          landed == [cleared EXCEPT !.sides[tick.side] = applied.side]
      IN  [book |-> IF Effective(applied.result)
                      THEN [TrackSequence(landed, tick.sequence)
                              EXCEPT !.last_update_ns = tick.ts_recv_ns]
                      ELSE landed,
           result |-> applied.result]

\* Mutant: levels[0] is taken for the best without a look at count.
BestStale(side) == {side.levels[0]}

\* best(): nothing, or the first level.
Best(side) == IF side.count > 0 THEN {side.levels[0]} ELSE {}

NoSpread == -1

\* spread(), which a crossed book clamps to zero.
Spread(book) ==
  IF \E bid \in Best(book.sides["Bid"]), ask \in Best(book.sides["Ask"]) : TRUE
    THEN LET bid == book.sides["Bid"].levels[0].price
             ask == book.sides["Ask"].levels[0].price
         IN  IF ask > bid THEN ask - bid ELSE 0
    ELSE NoSpread

IsCrossed(book) ==
  \E bid \in Best(book.sides["Bid"]), ask \in Best(book.sides["Ask"]) :
    bid.price > ask.price

RecordChecksumFailure(book) == [book EXCEPT !.checksum_failures = @ + 1]

------------------------------------------------------------------------------
\* Mutant: the levels beyond count are handed over as well.
ForChecksumStale(book, side, n) ==
  [i \in 1 .. (IF n < MaxLevels THEN n ELSE MaxLevels) |->
     book.sides[side].levels[i - 1]]

\* The levels of one side that for_checksum hands to its callback, in order.
ForChecksum(book, side, n) ==
  LET s == book.sides[side]
  IN  [i \in 1 .. (IF n < s.count THEN n ELSE s.count) |-> s.levels[i - 1]]

------------------------------------------------------------------------------
(***************************************************************************)
(* What a tick carries, and what a well-formed book holds.                 *)
(***************************************************************************)
IsTick(tick) ==
  /\ tick.side \in Sides
  /\ tick.price \in Prices /\ tick.qty \in Qtys
  /\ tick.sequence \in Nat /\ tick.ts_recv_ns \in Nat
  /\ tick.is_snapshot \in BOOLEAN /\ tick.snapshot_id \in Nat

AnyBook ==
  [sides : [Sides -> AnySide], snapshot_id : [Sides -> Nat \cup {NoSnapshotId}],
   sequence : Nat, sequence_initialized : BOOLEAN, last_update_ns : Nat,
   symbol_mismatches : Nat, sequence_gaps : Nat, sequence_reorders : Nat,
   checksum_failures : Nat]

IsBook(book) ==
  book \in AnyBook /\ \A s \in Sides : IsSorted(book.sides[s], s = "Bid")

=============================================================================
