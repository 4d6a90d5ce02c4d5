\* A cut inside an added token, where another one hides it from the search.
SPECIFICATION RowsSpec
CONSTANTS
  Tokenizers <- SpacedTokenizers
  Batches <- SpacedBatches
  Target = 1
  MIN_CHUNK_BYTES = 1
  W = 8
  Guard = 6
  Walkback = 1
INVARIANTS
  RowsAreWhole
\* A batch that has its rows is over.
CHECK_DEADLOCK FALSE
