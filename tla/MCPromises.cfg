CONSTANTS
    Promise = {p1, p2, p3}
    None = None
SPECIFICATION FairSpec
INVARIANTS
    TypeOK
    RejectionsAreKnown
PROPERTIES
    ImplementsFutures
