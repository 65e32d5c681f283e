SPECIFICATION Spec
CONSTANTS
  MaxWrites = 2
  MaxReads = 2
  MaxChunks = 2
  MaxDepth = 2
  WritableHighWaterMark = 1
  ReadableHighWaterMark = 1
CHECK_DEADLOCK FALSE
INVARIANTS FailuresNamed BackpressureFollowsDemand
PROPERTIES EndsTogether
