SPECIFICATION Spec
CONSTANTS
    Workers = {w1, w2}
    MaxFailures = 2
    Window = 5
    Second = 2
    Delay = 1
    LastTick = 9
INVARIANTS
    FewAttempts
PROPERTIES
    PromiseIsKept
    DenialsAreEarned
SYMMETRY Symmetry
CHECK_DEADLOCK FALSE
