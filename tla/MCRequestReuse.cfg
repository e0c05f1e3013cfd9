SPECIFICATION SafeSpec
CONSTANTS
    Reqs = {r1, r2}
    Ops <- ReusedSorts
    MaxUsers = 1
    MaxCalls = 3
    ReuseInHandler = TRUE
CHECK_DEADLOCK FALSE
INVARIANTS
    CleansNothingInUse
