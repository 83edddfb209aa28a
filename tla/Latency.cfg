\* A 4-bit machine whose second has three nanoseconds: every pair of clock
\* readings, and latencies of 0, at the boundaries, and beyond the last bucket.
CONSTANTS
  W = 4
  MaxU64 = 15
  Giga = 3
  FallbackHz = 9
  Buckets = 3
  MaxSamples = 3
SPECIFICATION HistogramSpec
INVARIANTS HistogramTypeOK BucketsAreOctaves PrintedMaxIsAboveIntervals
INVARIANTS CalibrationAgrees SaturationOverstates
CHECK_DEADLOCK FALSE
