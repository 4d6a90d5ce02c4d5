\* Three tasks on up to three chunks of any size, a drain limit of one, one
\* panic, and reservations from none to more than enough.
SPECIFICATION FairSpec
CONSTANTS
  \* through the inline path (none, one) to one per task
  ChunkCounts = {0, 1, 2, 3}
  MaxTokens = 2
  MaxPanics = 1
  \* 0 refuses the reservation; the others fall below, on or above the total
  Caps = {0, 1, 2}
  Threads = 3
  MaxDrain = 1
  NoTask = NoTask
  NoResult = NoResult
  Panic = Panic
INVARIANTS
  TypeOK
  CommittedPrefix
  CopiesDisjoint
  DeliveredIsSerial
  PanicsReported
  OverflowIsReal
PROPERTIES
  OrderedSpec
  CallEnds
CHECK_DEADLOCK FALSE
