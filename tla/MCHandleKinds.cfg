SPECIFICATION Spec
CONSTANTS
    Handles = {h1}
    Kinds <- NoProcess
    MaxRefs = 2
    MaxClips = 2
    Misuse <- NoMisuse
CHECK_DEADLOCK FALSE
INVARIANTS
    NoFault
    ClosedReachesUv
    AttachedIsRecycled
PROPERTIES
    CloseCompletes
    UnreferencedIsReleased
