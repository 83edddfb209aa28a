------------------------------ MODULE MCBookFeed ------------------------------
(***************************************************************************)
(* TLC instances of BookFeed, with three kinds of feed: the ticks of       *)
(* LevelFeed differ in all that decides which levels the book holds, those *)
(* of SequenceFeed in their sequence numbers, and RestartFeed is the       *)
(* smallest one that shows what a restart does to a side.                  *)
(***************************************************************************)
EXTENDS BookFeed

CONSTANT MaxSequence   \* bound: the sequence numbers of SequenceFeed

Tick(symbol, side, price, qty, sequence, ts, is_snapshot, snapshot_id) ==
  [symbol |-> symbol, side |-> side, price |-> price, qty |-> qty,
   sequence |-> sequence, ts_recv_ns |-> ts,
   is_snapshot |-> is_snapshot, snapshot_id |-> snapshot_id]

\* Deltas, and the ticks of two snapshots, on both sides; and a stranger's.
LevelFeed ==
  {Tick(Symbol, side, price, qty, 1, 1, FALSE, 0) :
     side \in Sides, price \in Prices, qty \in Qtys} \cup
  {Tick(Symbol, side, price, qty, 1, 1, TRUE, id) :
     side \in Sides, price \in Prices, qty \in Qtys, id \in 0 .. 1} \cup
  {Tick("other", side, price, 1, 1, 1, TRUE, 1) : side \in Sides, price \in Prices}

\* Levels that come, change and go, with any sequence number; a cancel may be
\* for a level the book does not track.
SequenceFeed ==
  {Tick(Symbol, "Bid", price, qty, sequence, 1, FALSE, 0) :
     price \in {1, 2}, qty \in Qtys, sequence \in 0 .. MaxSequence}

\* Deltas of one side and the ticks of three snapshots, one with the sentinel.
RestartFeed ==
  {Tick(Symbol, "Ask", price, qty, 1, 1, FALSE, 0) :
     price \in {1, 2}, qty \in Qtys} \cup
  {Tick(Symbol, "Ask", price, qty, 1, 1, TRUE, id) :
     price \in {1, 2}, qty \in Qtys, id \in {0, 1, NoSnapshotId}}

AllFeeds == {LevelFeed, SequenceFeed, RestartFeed}
RestartingFeeds == {RestartFeed}

=============================================================================
