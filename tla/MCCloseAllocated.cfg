SPECIFICATION SafeSpec
CONSTANTS
    Handles = {h1}
    Kinds <- OnlyAsync
    MaxRefs = 1
    MaxClips = 1
    Misuse <- CloseAllocated
CHECK_DEADLOCK FALSE
INVARIANTS
    CloseKeepsItsPromise
