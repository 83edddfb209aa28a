CONSTANTS
  RecordSize = 2
  BufferSize = 4
  MaxRecords = 2
  MaxFaults = 1
SPECIFICATION Spec
INVARIANT ReopenIsSafe
CHECK_DEADLOCK FALSE
