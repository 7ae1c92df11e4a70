CONSTANTS
    Errors = {e1, e2}
    Termination = Termination
    None = None
    MaxDepth = 6
    MaxRequests = 2
SPECIFICATION FairSpec
INVARIANTS
    TypeOK
    FailureHasReason
    ScheduledIsOnItsWay
PROPERTIES
    TerminatedScriptsEnd
    ImplementsStructuredExceptions
