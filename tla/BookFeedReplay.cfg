CONSTANTS
  MaxLevels = 2
  Prices = {1, 2, 3}
  Qtys = {0, 1}
  Symbol = "own"
  NoSnapshotId = 9
  Feeds <- AllFeeds
  Restarting <- RestartingFeeds
  MaxSequence = 5
  MaxEffective = 6
  MaxAnomalies = 1
SPECIFICATION Spec
INVARIANT ReplayAcrossRestarts
CHECK_DEADLOCK FALSE
