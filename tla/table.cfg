\* Four keys with every assignment of two hashes, in tables of one to four pairs
\* that may have been sized for a seed.
SPECIFICATION Spec
CONSTANTS
  Keys = {k1, k2, k3, k4}
  Values = {v1, v2}
  MaxHash = 1
  Sizes = {1, 2}
  MinSeed = 0
  MaxSeed = 2
  NoKey = NoKey
  NoValue = NoValue
  Missing = Missing
  Elsewhere = Elsewhere
  Nothing = Nothing
SYMMETRY Alike
INVARIANTS
  TypeOK
  NoHoles
  WalksEnd
PROPERTIES
  MapSpec
  SeedNeverGrows
CHECK_DEADLOCK FALSE
