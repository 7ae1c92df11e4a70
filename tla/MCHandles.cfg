CONSTANTS
    Objects = {o1, o2}
    Vars = {p1, p2}
    Nodes = {n1, n2}
    MaxScopes = 2
    Null = Null
SPECIFICATION FairSpec
INVARIANTS
    TypeOK
    NodesOwned
    NothingDangles
PROPERTIES
    UnreferencedIsCollected
    ImplementsReferences
