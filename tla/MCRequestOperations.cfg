SPECIFICATION Spec
CONSTANTS
    Reqs = {r1, r2}
    Ops <- EverySort
    MaxUsers = 2
    MaxCalls = 2
    ReuseInHandler = FALSE
CHECK_DEADLOCK FALSE
INVARIANTS
    RightContext
    RequestOutlivesUv
    CleanupBeforeFinally
    HandlersCanRead
PROPERTIES
    ImplementsRequest
    ImplementsRequestSafety
