SPECIFICATION SafeSpec
CONSTANTS
    Handles = {h1, h2}
    Kinds <- PairKinds
    MaxRefs = 1
    MaxClips = 1
    Misuse <- Misuses
CHECK_DEADLOCK FALSE
SYMMETRY HandleSymmetry
INVARIANTS
    MemoryOutlivesUv
PROPERTIES
    ClosedForCause
    ImplementsLifecycle
