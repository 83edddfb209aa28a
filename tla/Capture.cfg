\* Records of three units, a buffer of two records, three faults: a failed write
\* and a crash, or a crash and a failed read, in every place.
CONSTANTS
  RecordSize = 3
  BufferSize = 6
  MaxRecords = 5
  MaxFaults = 3
SPECIFICATION Spec
INVARIANTS TypeOK StreamIntact FlushedSurvives ReplayIsExact
CHECK_DEADLOCK FALSE
