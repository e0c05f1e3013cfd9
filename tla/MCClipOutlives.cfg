SPECIFICATION SafeSpec
CONSTANTS
    Handles = {h1}
    Kinds <- OnlyAsync
    MaxRefs = 1
    MaxClips = 1
    Misuse <- ClipMayOutlive
CHECK_DEADLOCK FALSE
INVARIANTS
    ClipsAreSafe
