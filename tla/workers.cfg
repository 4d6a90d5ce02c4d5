\* Two rayon threads and an outsider contend for both kinds of slot; every
\* sequence of encodes, forks and mutations on a vocabulary of three ids.
SPECIFICATION WorkersSpec
CONSTANTS
  Rayon = {r1, r2}
  Outsiders = {x1}
  MaxUses = 2
  MaxPoolPanics = 2
  Nobody = Nobody
  NoWorker = NoWorker
  short = short
  long = long
  Contents <- MCContents
  Short <- MCShort
  Ids <- MCIds
  Workers = {w1}
  Proto = proto
  Pieces = Pieces
  Absent = Absent
  NoId = NoId
  Unused = Unused
INVARIANTS
  PoolTypeOK
  ExclusiveWorker
  NoBrokenWorker
  RayonNeverSpins
  ShortAnswers
  ForkAgrees
PROPERTIES
  EveryUseEnds
  AnswersStable
\* Threads that have no more to encode stop.
CHECK_DEADLOCK FALSE
