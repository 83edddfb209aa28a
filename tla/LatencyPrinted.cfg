CONSTANTS
  W = 4
  MaxU64 = 15
  Giga = 3
  FallbackHz = 9
  Buckets = 3
  MaxSamples = 2
SPECIFICATION HistogramSpec
INVARIANT CountIsOfPrintedInterval
CHECK_DEADLOCK FALSE
