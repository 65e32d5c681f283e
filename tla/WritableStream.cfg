SPECIFICATION Spec
CONSTANTS
  MaxWrites = 4
  MaxWriters = 2
  MaxDepth = 3
  HighWaterMark = 2
CHECK_DEADLOCK FALSE
INVARIANTS StreamConsistent WriterInformed
PROPERTIES ErrorStopsSink PromisesSettle
