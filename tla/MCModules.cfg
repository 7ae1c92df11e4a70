CONSTANTS
    a = a
    b = b
    c = c
    Modules <- MCModules
    Requests <- MCRequests
    Caching = {a}
    NoModule = NoModule
SPECIFICATION Spec
INVARIANTS
    TypeOK
    CachesHaveOneOwner
    AttemptsAreWhole
PROPERTY ImplementsModuleRecords
CHECK_DEADLOCK FALSE
