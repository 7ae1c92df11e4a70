SPECIFICATION Spec
CONSTANTS
    Windows = FALSE
    MaxBumps = 0
    MaxRemovals = 0
    MaxDeaths = 1
INVARIANT FetchedIsPatched
