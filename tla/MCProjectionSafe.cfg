SPECIFICATION Spec
CONSTANTS
    Memories = {m1}
    Generations = {g1}
    NoGeneration = none
    Workers = {w1, w2}
    MaxRevision = 2
    MaxAttempts = 2
    MaxFaults = 2
    Enumerable = TRUE
    LateCalls = TRUE
CHECK_DEADLOCK FALSE
SYMMETRY Symmetric
INVARIANTS
    SafetyInv
PROPERTIES
    OnlyHolderSettles
    SettledStaysSettled
    ImplementsIndex
