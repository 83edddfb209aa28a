----------------------------- MODULE FeedPipeline -----------------------------
(***************************************************************************)
(* The whole pipeline: an adapter follows a market and publishes what      *)
(* happens to it, tick by tick, spinning on a full ring or dropping the    *)
(* tick; now and then it sends a snapshot of both sides.  BookEngine       *)
(* (src/book_engine.rs) takes the ticks one at a time or drains the ring,  *)
(* and applies each to its book.                                           *)
(*                                                                         *)
(* The ring is the bounded queue that SpscDisruptor was shown to           *)
(* implement.  The book and the counters of the engine belong to the       *)
(* engine's thread alone, so taking a tick and applying it is one step.    *)
(* Each tick carries, as history, the market it was told of, what the      *)
(* adapter knew of its own losses and what it had still to send; the       *)
(* engine does not look at any of it.                                      *)
(***************************************************************************)
EXTENDS OrderBook, FiniteSets

CONSTANTS
  RingSize,   \* slots of the ring
  Wrap,       \* the width of dropped_count()
  BatchWrap,  \* the width of the count of a batch, a u32
  NoTick,
  Bids, Asks, \* bound: the prices quoted when the feed begins
  MaxSeq      \* bound: the length of the feed

ASSUME PipelineAssumption ==
  /\ RingSize \in Nat /\ RingSize > 0
  /\ Wrap \in Nat \ {0} /\ BatchWrap \in Nat \ {0}
  /\ MaxSeq \in Nat
  /\ NoSnapshotId \in Nat /\ NoSnapshotId > MaxSeq  \* a feed too short to reach it
  /\ IsFiniteSet(Prices) /\ Prices # {}

VARIABLES
  queue,      \* the ring: accepted and not yet taken
  out,        \* the ring: the tick taken last
  refusals,   \* the ring: dropped_count()
  book,       \* the engine's book
  ticks,      \* the engine's count of ticks
  n,          \* the count of the batch under way
  pc,         \* is run_batch under way
  market,     \* the exchange: the quantity at each price, by side
  outbox,     \* the adapter: the levels of a snapshot still to be published
  snapshot,   \* the adapter: how many snapshots it has begun
  nextSeq,    \* the adapter: the sequence number the feed has reached
  told,       \* history: by side, "whole" if all since the side's last snapshot
              \* was accepted by the ring, "batch" within a snapshot, or "lost"
  lost,       \* history: ticks dropped
  taken,      \* history: ticks taken from the ring ...
  skipped,    \* history: ... and of those, the ones that changed no level
  before,     \* history: lost as of the first effective tick, None before ...
  since       \* history: ... and as of the last one

ringVars == <<queue, out, refusals>>
history == <<taken, skipped, before, since>>
engineVars == <<book, ticks, n, pc, history>>
adapterVars == <<market, outbox, snapshot, nextSeq, told, lost>>
vars == <<ringVars, engineVars, adapterVars>>

None == -1

\* A market is never crossed or locked, and no deeper than the book.
Quoted(m, s) == {p \in Prices : m[s][p] > 0}
Markets ==
  {m \in [Sides -> [Prices -> Qtys]] :
     /\ \A bid \in Quoted(m, "Bid"), ask \in Quoted(m, "Ask") : bid < ask
     /\ \A s \in Sides : Cardinality(Quoted(m, s)) <= MaxLevels}

Shown(m, s) == {Level(p, m[s][p]) : p \in Quoted(m, s)}

\* The levels that a snapshot sends for a side; the only thing it can say of an
\* empty side is that some level is not there.
Items(m, s) ==
  IF Quoted(m, s) = {} THEN {Level(CHOOSE p \in Prices : TRUE, 0)} ELSE Shown(m, s)

Opening == [s \in Sides |-> IF s = "Bid" THEN Bids ELSE Asks]

Ring == INSTANCE BoundedQueue WITH Ticks <- {}, Capacity <- RingSize

Init ==
  /\ Ring!Init
  /\ book = NewBook
  /\ ticks = 0
  /\ n = 0
  /\ pc = "idle"
  /\ market \in {m \in Markets : \A s \in Sides : Quoted(m, s) = Opening[s]}
  /\ outbox = {}
  /\ snapshot = 0
  /\ nextSeq = 1
  /\ told = [s \in Sides |-> "lost"]
  /\ lost = 0
  /\ taken = 0
  /\ skipped = 0
  /\ before = None
  /\ since = None

------------------------------------------------------------------------------
(***************************************************************************)
(* The adapter.  It handles what it hears from the exchange one by one;    *)
(* on a full ring, "caller decides whether to spin, drop, or panic."       *)
(***************************************************************************)
Tick(s, level, m, knows, rest) ==
  [symbol |-> Symbol, side |-> s, price |-> level.price, qty |-> level.qty,
   sequence |-> nextSeq, ts_recv_ns |-> 1,
   is_snapshot |-> outbox # {}, snapshot_id |-> IF outbox = {} THEN 0 ELSE snapshot,
   market |-> m, told |-> knows, lost |-> lost, rest |-> rest]

\* A level of side s goes to the ring, with the market now m and rest still to
\* be sent.
Publish(s, level, m, rest) ==
  /\ told' = [told EXCEPT ![s] =
                IF @ = "batch" /\ ~ \E l \in rest : l[1] = s THEN "whole" ELSE @]
  /\ Ring!Publish(Tick(s, level, m, told', rest))
  /\ UNCHANGED lost

Drop(s) ==
  /\ Ring!Refuse
  /\ told' = [told EXCEPT ![s] = "lost"]
  /\ lost' = lost + 1

Send(s, level, m, rest) ==
  /\ nextSeq <= MaxSeq
  /\ Publish(s, level, m, rest) \/ Drop(s)
  /\ nextSeq' = nextSeq + 1
  /\ market' = m
  /\ outbox' = rest
  /\ UNCHANGED <<snapshot, engineVars>>

\* The market moves at one price.
Quote(s, price, qty) ==
  /\ outbox = {}
  /\ market[s][price] # qty
  /\ LET m == [market EXCEPT ![s][price] = qty]
     IN  m \in Markets /\ Send(s, Level(price, qty), m, {})

\* A snapshot of both sides.
Resync ==
  /\ outbox = {} /\ nextSeq <= MaxSeq
  /\ outbox' = UNION {{<<s, level>> : level \in Items(market, s)} : s \in Sides}
  /\ snapshot' = snapshot + 1
  /\ told' = [s \in Sides |-> "batch"]
  /\ UNCHANGED <<market, nextSeq, lost, ringVars, engineVars>>

SnapshotLevel ==
  \E item \in outbox : Send(item[1], item[2], market, outbox \ {item})

Spin ==
  /\ nextSeq <= MaxSeq
  /\ Ring!Refuse
  /\ UNCHANGED <<adapterVars, engineVars>>

------------------------------------------------------------------------------
(***************************************************************************)
(* The engine.                                                             *)
(***************************************************************************)
Consume ==
  /\ Ring!Take
  /\ LET applied == Apply(book, out')
         effective == Effective(applied.result)
     IN  /\ book' = applied.book
         /\ skipped' = IF effective THEN skipped ELSE skipped + 1
         /\ before' = IF effective /\ before = None THEN out'.lost ELSE before
         /\ since' = IF effective THEN out'.lost ELSE since
  /\ taken' = taken + 1
  /\ UNCHANGED adapterVars

RunOne ==
  /\ pc = "idle"
  /\ Consume
  /\ ticks' = ticks + 1
  /\ UNCHANGED <<n, pc>>

BeginBatch ==
  /\ pc = "idle"
  /\ pc' = "batch"
  /\ n' = 0
  /\ UNCHANGED <<book, ticks, history, ringVars, adapterVars>>

BatchTick ==
  /\ pc = "batch"
  /\ Consume
  /\ n' = (n + 1) % BatchWrap
  /\ UNCHANGED <<ticks, pc>>

\* Mutant: the batch that ends is not added to the count.
EndBatchUncounted ==
  /\ pc = "batch"
  /\ queue = << >>
  /\ n' = 0
  /\ pc' = "idle"
  /\ UNCHANGED <<book, ticks, history, ringVars, adapterVars>>

\* Mutant: a batch waits for a full ring's worth of ticks.
EndBatchWhenFull ==
  /\ pc = "batch"
  /\ n >= RingSize
  /\ ticks' = ticks + n
  /\ n' = 0
  /\ pc' = "idle"
  /\ UNCHANGED <<book, history, ringVars, adapterVars>>

\* try_consume returned None.
EndBatch ==
  /\ pc = "batch"
  /\ queue = << >>
  /\ ticks' = ticks + n
  /\ n' = 0
  /\ pc' = "idle"
  /\ UNCHANGED <<book, history, ringVars, adapterVars>>

Adapter ==
  \/ \E s \in Sides, price \in Prices, qty \in Qtys : Quote(s, price, qty)
  \/ Resync
  \/ SnapshotLevel
  \/ Spin
Engine == RunOne \/ BeginBatch \/ BatchTick \/ EndBatch

Next == Adapter \/ Engine

Spec == Init /\ [][Next]_vars

\* The pinned core never stops polling: what is in the ring is taken, one by one
\* or in a batch, and a batch that finds nothing more ends.  The feed may stop.
FairSpec == Spec /\ WF_ringVars(Ring!Take) /\ WF_vars(EndBatch)

------------------------------------------------------------------------------
TypeOK ==
  /\ Len(queue) <= RingSize
  /\ refusals \in 0 .. Wrap - 1
  /\ n \in 0 .. BatchWrap - 1
  /\ pc \in {"idle", "batch"}
  /\ market \in Markets
  /\ told \in [Sides -> {"whole", "batch", "lost"}]
  /\ \A s \in Sides : IsSide(book.sides[s])

\* Every tick of the feed is in the ring, was dropped at a full ring, or was
\* taken, in the order of the feed, and counted by the engine; the count lags by
\* the batch under way, and loses whole multiples of 2^32 in a batch that long.
NothingUnaccounted ==
  /\ nextSeq - 1 = taken + Len(queue) + lost
  /\ (taken - ticks - n) % BatchWrap = 0
  /\ \A i, j \in DOMAIN queue : i < j => queue[i].sequence < queue[j].sequence
  /\ \A i \in DOMAIN queue : book.sequence < queue[i].sequence

\* "Silent drops here mean silent gaps in the book": a tick lost between two
\* ticks that changed the book is never silent, the book has counted a gap; and
\* no gap is counted but for a tick lost or one that changed nothing.
GapsAreLosses ==
  /\ before < since => book.sequence_gaps > 0
  /\ book.sequence_gaps <= skipped + (since - before)
  /\ book.sequence_reorders = 0

\* A side all of whose ticks since its last snapshot got through is the side of
\* the market, as of the last tick taken: whatever was lost before, on that side
\* or in the middle of an earlier snapshot, and whatever is lost on the other.
WholeSideIsTheMarket ==
  out # NoTick =>
    \A s \in Sides :
      out.told[s] = "whole" => Levels(book.sides[s]) = Shown(out.market, s)

\* With both sides whole, the spread is the spread of the market, and a crossed
\* book, "the thing you actually want an alert on", is never a false alarm: it
\* means that something was lost or that a snapshot is under way.
QuotesAreTheMarket ==
  out # NoTick /\ (\A s \in Sides : out.told[s] = "whole") =>
    /\ ~ IsCrossed(book)
    /\ LET bids == Quoted(out.market, "Bid")
           asks == Quoted(out.market, "Ask")
       IN  IF bids = {} \/ asks = {}
             THEN Spread(book) = NoSpread
             ELSE \E bid \in bids, ask \in asks :
                    /\ Spread(book) = ask - bid
                    /\ \A b \in bids, a \in asks : a - b >= ask - bid

\* A batch returns once the feed pauses for long enough ...
BatchReturns == pc = "batch" ~> pc = "idle"

\* ... and once the market is quiet the book stays where the market is, on every
\* side whose ticks got through.
BookConverges ==
  <>[](/\ queue = << >>
       /\ \A s \in Sides :
            told[s] = "whole" => Levels(book.sides[s]) = Shown(market, s))

=============================================================================
