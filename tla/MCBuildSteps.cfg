CONSTANTS
    Procs = {p1, p2}
    Goals <- EveryGoal
    MaxEdits = 1
    MaxFaults = 1
    MaxExposed = 1
SPECIFICATION Spec
CONSTRAINT OneUserOrRace
INVARIANTS
    TypeOK
    BuiltWithinFour
    SuccessHasLibrary
    SettledWithinThree
    FetchStaysPossible
SYMMETRY Symmetry
