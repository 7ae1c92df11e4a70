CONSTANTS
    Procs = {p1}
    Goals <- EveryGoal
    MaxEdits = 1
    MaxFaults = 0
    MaxExposed = 1
SPECIFICATION Spec
INVARIANT CopyBeforeGn
