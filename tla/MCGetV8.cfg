SPECIFICATION FairSpec
CONSTANTS
    Windows = TRUE
    MaxBumps = 1
    MaxRemovals = 1
    MaxDeaths = 2
INVARIANTS
    TypeOK
    SuccessMeansPinned
    PatchedUnlessAbandoned
PROPERTY Recovers
