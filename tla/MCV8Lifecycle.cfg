SPECIFICATION LifecycleSpec
CONSTANTS
    i1 = i1
    i2 = i2
    Isolates <- TwoIsolates
    MaxDepth = 2
SYMMETRY Symmetry
INVARIANTS
    TypeOK
    NothingOutlivesItsHost
