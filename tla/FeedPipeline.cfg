\* A market with room for one more level, a ring of two slots and a feed of six
\* ticks: two snapshots of three ticks, or one and three moves of the market.
\* Any of them may be dropped, and a batch of three wraps its count.  Nothing
\* here reads dropped_count(), so its width is one.
CONSTANTS
  MaxLevels = 2
  Prices = {1, 2, 3}
  Qtys = {0, 1}
  Symbol = "own"
  NoSnapshotId = 9
  RingSize = 2
  Wrap = 1
  BatchWrap = 3
  NoTick = NoTick
  Bids = {1, 2}
  Asks = {3}
  MaxSeq = 6
SPECIFICATION FairSpec
INVARIANTS TypeOK NothingUnaccounted GapsAreLosses WholeSideIsTheMarket QuotesAreTheMarket
PROPERTIES BatchReturns BookConverges
