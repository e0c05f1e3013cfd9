SPECIFICATION SafeSpec
CONSTANTS
    Handles = {h1}
    Kinds <- OnlyProcess
    MaxRefs = 1
    MaxClips = 0
    Misuse <- NoMisuse
CHECK_DEADLOCK FALSE
INVARIANTS
    ClosedReachesUv
