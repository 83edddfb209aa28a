------------------------------- MODULE BookFeed -------------------------------
(***************************************************************************)
(* An order book in use: a feed of ticks, in any order an adapter and a    *)
(* network can produce, is applied one by one.  Of the history variables,  *)
(* first and effective count the ticks by what apply returned; lost looks  *)
(* at the levels a reader saw before the tick; the others are functions of *)
(* the ticks alone.  None looks at the ids and counters the code keeps.    *)
(*                                                                         *)
(* Every tick is captured as well, in one file for all sessions of the     *)
(* process, and `replayed' is the fresh book into which the whole file has *)
(* been replayed so far.                                                   *)
(***************************************************************************)
EXTENDS OrderBook, FiniteSets

CONSTANTS
  Feeds,          \* the feeds there are: each is the set of ticks it may carry
  Restarting,     \* bound: the feeds of them during which the process restarts
  MaxEffective,   \* bound: ticks that change the book
  MaxAnomalies    \* bound: ticks of another symbol, checksum failures

ASSUME FeedAssumption ==
  /\ \A feed \in Feeds : \A tick \in feed : IsTick(tick)
  /\ MaxEffective \in Nat /\ MaxAnomalies \in Nat

VARIABLES
  source,     \* the feed this book is for
  book,
  told,       \* history: by side, every level told since its newest batch began
  lost,       \* history: by side, the prices a full side had to give up since then
  batch,      \* history: by side, the snapshot id of the newest batch
  first,      \* history: the sequence of the first effective tick
  effective,  \* history: how many ticks changed a level
  fed,        \* history: the sequence of the last tick for this book
  contiguous, \* history: every tick's sequence was one more than the last
  replayed,   \* the book that a replay of the capture file yields
  session,    \* history: 1, or 2 after a restart
  filed,      \* history: by side, the last snapshot id in the capture file
  settled     \* history: by side, this session's ticks alone say what it holds:
              \* a snapshot began whose id is not the one filed before it

historyVars == <<told, lost, batch, first, effective, fed, contiguous, filed, settled>>
vars == <<source, book, replayed, session, historyVars>>

None == -1

Init ==
  /\ source \in Feeds
  /\ book = NewBook
  /\ replayed = NewBook
  /\ session = 1
  /\ filed = [s \in Sides |-> None]
  /\ settled = [s \in Sides |-> TRUE]
  /\ told = [s \in Sides |-> {}]
  /\ lost = [s \in Sides |-> {}]
  /\ batch = [s \in Sides |-> None]
  /\ first = None
  /\ effective = 0
  /\ fed = None
  /\ contiguous = TRUE

\* The tick begins a new snapshot batch on its side.
Begins(tick) == tick.is_snapshot /\ tick.snapshot_id # batch[tick.side]

Without(levels, price) == {level \in levels : level.price # price}

\* The price that a full side has to give up for the tick: of the levels shown so
\* far and the one it sets, the worst.
GivenUp(tick) ==
  LET s == tick.side
      shown == IF Begins(tick) THEN {} ELSE Levels(book.sides[s])
      all == Without(shown, tick.price) \cup {Level(tick.price, tick.qty)}
  IN  IF tick.qty = 0 \/ Cardinality(all) <= MaxLevels
        THEN {}
        ELSE {worst.price : worst \in
                {level \in all : \A other \in all :
                   ~ Before(level.price, other.price, s = "Bid")}}

\* What the feed has said, on the side of the tick and with the tick.
Hear(tick, result) ==
  LET s == tick.side
      heard == IF Begins(tick) THEN {} ELSE told[s]
      losses == IF Begins(tick) THEN {} ELSE lost[s]
  IN  /\ told' = [told EXCEPT ![s] =
                    Without(heard, tick.price) \cup
                    (IF tick.qty = 0 THEN {} ELSE {Level(tick.price, tick.qty)})]
      /\ lost' = [lost EXCEPT ![s] = losses \cup GivenUp(tick)]
      /\ batch' = [batch EXCEPT ![s] = IF tick.is_snapshot THEN tick.snapshot_id ELSE @]
      /\ first' = IF first = None /\ Effective(result) THEN tick.sequence ELSE first
      /\ effective' = IF Effective(result) THEN effective + 1 ELSE effective
      /\ fed' = tick.sequence
      /\ contiguous' = (contiguous /\ (fed = None \/ tick.sequence = fed + 1))
      /\ filed' = [filed EXCEPT ![s] = IF tick.is_snapshot THEN tick.snapshot_id ELSE @]
      /\ settled' = [settled EXCEPT ![s] =
                       @ \/ (tick.is_snapshot /\ tick.snapshot_id # filed[s])]

\* The sentinel is not the id of the first snapshot of a side, though it may be
\* that of a later one: "u32::MAX only bites if the very first snapshot happens to
\* carry that exact id".
NoSentinelFirst(tick) ==
  tick.is_snapshot /\ batch[tick.side] = None => tick.snapshot_id # NoSnapshotId

ApplyTick(tick) ==
  LET applied == Apply(book, tick)
  IN  /\ tick.symbol = Symbol
      /\ NoSentinelFirst(tick)
      /\ book' = applied.book
      /\ replayed' = Apply(replayed, tick).book
      /\ Hear(tick, applied.result)
      /\ effective' <= MaxEffective
      /\ UNCHANGED session

ApplyStranger(tick) ==
  /\ tick.symbol # Symbol
  /\ book.symbol_mismatches < MaxAnomalies
  /\ book' = Apply(book, tick).book
  /\ replayed' = Apply(replayed, tick).book
  /\ UNCHANGED <<session, historyVars>>

\* The adapter reports a checksum that did not match.
ChecksumFails ==
  /\ book.checksum_failures < MaxAnomalies
  /\ book' = RecordChecksumFailure(book)
  /\ UNCHANGED <<replayed, session, historyVars>>

\* The process starts again, with a new book and the old capture file.  Bound:
\* it does so once.
Restart ==
  /\ source \in Restarting
  /\ session = 1
  /\ session' = 2
  /\ book' = NewBook
  /\ told' = [s \in Sides |-> {}]
  /\ lost' = [s \in Sides |-> {}]
  /\ batch' = [s \in Sides |-> None]
  /\ first' = None
  /\ effective' = 0
  /\ fed' = None
  /\ contiguous' = TRUE
  /\ settled' = [s \in Sides |-> FALSE]
  /\ UNCHANGED <<filed, replayed>>

Next ==
  /\ UNCHANGED source
  /\ \/ \E tick \in source : ApplyTick(tick) \/ ApplyStranger(tick)
     \/ ChecksumFails
     \/ Restart

Spec == Init /\ [][Next]_vars

------------------------------------------------------------------------------
TypeOK ==
  /\ \A s \in Sides : IsSide(book.sides[s])
  /\ book.sequence_gaps \in 0 .. MaxEffective
  /\ book.sequence_reorders \in 0 .. MaxEffective
  /\ book.symbol_mismatches \in 0 .. MaxAnomalies
  /\ book.checksum_failures \in 0 .. MaxAnomalies
  /\ book.sequence_initialized \in BOOLEAN

\* A snapshot replaces the side it is for: no level survives from before its
\* first tick, whatever deltas, other side's snapshots and strangers' ticks
\* come between, and what is tracked is what the feed said last.
NoStaleLevels == \A s \in Sides : Levels(book.sides[s]) \subseteq told[s]

\* A snapshot batch lands intact: every level told since it began is in the
\* book, as long as it beats all the prices the full side had to give up.
BatchIntact ==
  \A s \in Sides : \A level \in told[s] :
    (\A price \in lost[s] : Before(level.price, price, s = "Bid"))
      => level \in Levels(book.sides[s])

\* The two counters account for the sequence numbers of the ticks that changed
\* the book: each reorder is a step back or in place, each gap a skip, so that
\* two zeroes mean that those ticks came one after the other with none missing.
SequenceAccounting ==
  book.sequence_initialized =>
    LET span == book.sequence - first
    IN  /\ book.sequence_reorders = 0 => span >= effective - 1 + book.sequence_gaps
        /\ book.sequence_gaps = 0 => span <= effective - 1 - book.sequence_reorders

\* for_checksum hands over the best levels of each side, best first.
ChecksumSeesBest ==
  \A s \in Sides, n \in 1 .. MaxLevels :
    LET seen == ForChecksum(book, s, n)
        handed == {seen[i] : i \in DOMAIN seen}
    IN  /\ handed \subseteq Levels(book.sides[s])
        /\ Cardinality(handed) = n \/ handed = Levels(book.sides[s])
        /\ \A i \in DOMAIN seen :
             \A other \in Levels(book.sides[s]) \ {seen[j] : j \in 1 .. i} :
               Before(seen[i].price, other.price, s = "Bid")

SameLevels(s) == ForChecksum(replayed, s, MaxLevels) = ForChecksum(book, s, MaxLevels)

\* Replaying the capture into a fresh book reproduces the levels of the live
\* one: in the first session always, and in a later one from the first snapshot
\* on whose id is not the one that the side's last snapshot in the file carries.
ReplayReproduces == \A s \in Sides : settled[s] => SameLevels(s)

\* "Feed a TickReader's output back into a fresh OrderBook later to reproduce an
\* incident exactly", from a file that is "safe to reopen across process
\* restarts": once the session has sent a snapshot of a side, both books agree.
ReplayAcrossRestarts == \A s \in Sides : batch[s] # None => SameLevels(s)

\* sequence_gaps is "Sequence numbers that jumped by more than one", "likely a
\* dropped packet": a feed whose sequence numbers follow each other has none.
ContiguousFeedHasNoGaps == contiguous => book.sequence_gaps = 0

=============================================================================
