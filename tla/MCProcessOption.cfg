SPECIFICATION Spec
CONSTANTS
    Options = {o1, o2}
    Blocks = {b1, b2, b3}
    Items = {e1}
    Ignore = Ignore
    MaxItems = 2
    MaxCalls = 5
SYMMETRY Symmetry
CHECK_DEADLOCK FALSE
INVARIANTS
    PointersHold
    ReadsWhatWasGiven
