SPECIFICATION Spec
CONSTANTS
  MaxChunks = 3
  MaxReads = 3
  MaxReaders = 2
  MaxDepth = 3
  HighWaterMark = 1
CHECK_DEADLOCK FALSE
INVARIANTS ReadsAccounted ChunksInOrder NoReadUnheard
PROPERTIES ReadsHeard
