SPECIFICATION Spec
CONSTANTS
    Futures = {f1, f2}
    MaxHandlers = 2
    MaxFinally = 2
    MaxAnswers = 2
CHECK_DEADLOCK FALSE
INVARIANTS
    NoFutureForgotten
    FuturesGetTheirAnswer
    FinallyRunsBeforeRestart
PROPERTIES
    ReleasedOnceDropped
