\* Pretokens of every kind, short and long, in chunks of up to two; documents
\* and fragments of every tokenizer of MCBatchRows.
SPECIFICATION ChunksSpec
CONSTANTS
  Pretokens <- Kinds
  Tokens <- TokensOfAll
  Encode <- EncodeAll
  Short = {"one", "four", "spilled"}
  Inline = {"one", "four"}
  Memoized = {"long"}
  Chunk = 2
  Places = {p1, p2}
  OffsetWrap = 100
  MaxOut = 3
  MaxArena = 100
  Garbage = Garbage
  Missing = Missing
  Elsewhere = Elsewhere
  Nothing = Nothing
  Tokenizers <- MCTokenizers
  Batches <- MCBatches
  Target = 1
  MIN_CHUNK_BYTES = 1
  W = 8
  Guard = 6
  Walkback = 1
INVARIANTS
  TypeOK
  SlackLeft
  PointersFresh
  EntriesSound
  RowsAreWhole
  SegmentsArePlain
PROPERTIES
  StreamSpec
\* The loop stops before its output outgrows the bound, and a batch that has
\* its rows is over.
CHECK_DEADLOCK FALSE
