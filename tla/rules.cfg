\* Every table of three rules on up to six symbols, and training on two small
\* words past the point where no pair is left.
SPECIFICATION RulesSpec
CONSTANTS
  Initial = {0, 1}
  Tables <- MCTables
  MaxLength = 6
  None = None
  NoMerge = NoMerge
  Bytes = {0, 1}
  HfRank <- Reversed
  Corpora <- MCCorpora
  Specials <- MCSpecials
  Transition = 7
  Target = 9
INVARIANTS
  FullyMerged
  CountsExact
  TrainedAsEncoded
PROPERTIES
  MergeSpec
  RecountSpec
\* A sequence that is merged, and a training that is over, stop.
CHECK_DEADLOCK FALSE
