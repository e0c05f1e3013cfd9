SPECIFICATION QCSpec
CONSTANTS
    Producers = {loop, p}
    Loop = loop
    Consumers = {c1, c2, c3}
    Values = {a, b}
    Limits <- MCLimits
    MaxPush = 4
CHECK_DEADLOCK FALSE
INVARIANTS
    NobodyStranded
    ProducersNeverBlock
    EndedForCause
PROPERTIES
    ImplementsAbstract
    ImplementsAbstractSafety
    ReleasedWithHandle
