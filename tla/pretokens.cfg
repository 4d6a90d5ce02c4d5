SPECIFICATION Spec
CONSTANTS
    W = 8
    Guard = 6
    Chunk = 3
    U16 = 20
    Never = 1000
    Walkback = 1
INVARIANTS
    SpansAreScalar
    BufferFits
    SchemesSound
