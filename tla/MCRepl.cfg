SPECIFICATION ReplSpec
CONSTANTS
    i1 = i1
    t1 = t1
    t2 = t2
    Isolates <- OneIsolate
    Isolate = i1
    Tasks <- TwoTasks
    MaxLines = 3
    MaxDepth = 3
INVARIANTS
    ReplTypeOK
    LeavesNothing
    AnswersTheLine
    TasksRunBeforeInput
PROPERTIES
    ObeysLifecycle
    EveryLineEnds
