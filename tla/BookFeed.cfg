\* Two levels a side and three prices: batches overflow, bids and asks cross;
\* sequence numbers in any order; and, in a third feed, a restart.
CONSTANTS
  MaxLevels = 2
  Prices = {1, 2, 3}
  Qtys = {0, 1}
  Symbol = "own"
  NoSnapshotId = 9
  Feeds <- AllFeeds
  Restarting <- RestartingFeeds
  MaxSequence = 5
  MaxEffective = 6
  MaxAnomalies = 1
SPECIFICATION Spec
INVARIANTS TypeOK NoStaleLevels BatchIntact SequenceAccounting ChecksumSeesBest ReplayReproduces
\* The feed ends at MaxEffective.
CHECK_DEADLOCK FALSE
