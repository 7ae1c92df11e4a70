CONSTANTS
    Stores = {s1, s2}
    Slots = {p1, p2}
    b1 = b1
    b2 = b2
    b3 = b3
    i1 = i1
    i2 = i2
    Buffers <- MCBuffers
    Isolates = {i1, i2}
    Heap <- MCHeap
    NoStore = NoStore
SPECIFICATION FairSpec
INVARIANTS
    TypeOK
    CountMatches
    NoDangling
    AllocatorOutlivesStores
PROPERTIES
    GarbageIsFreed
    ImplementsSharedOwnership
