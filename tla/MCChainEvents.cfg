SPECIFICATION Spec
CONSTANTS
    Classes = {logic, runtime}
    BadCall = bad_call
    InitCaptures = TRUE
    ClearRunning = FALSE
    MaxOps = 4
    MaxThrows = 4
    MaxDepth = 3
CHECK_DEADLOCK FALSE
INVARIANTS
    NoFreedClosure
    FinallyOnce
    NoExceptionLost
    RetriesAreBounded
    WatchersSeeEvents
PROPERTIES
    FateIsFinal
    ChainsEnd
