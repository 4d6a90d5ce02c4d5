SPECIFICATION RowsSpec
CONSTANTS
  Tokenizers <- SlashTokenizers
  Batches <- SlashBatches
  Target = 1
  MIN_CHUNK_BYTES = 1
  W = 8
  Guard = 6
  Walkback = 1
INVARIANTS
  SegmentsArePlain
\* A batch that has its rows is over.
CHECK_DEADLOCK FALSE
