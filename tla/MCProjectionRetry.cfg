SPECIFICATION Spec
CONSTANTS
    Memories = {m1}
    Generations = {g1}
    NoGeneration = none
    Workers = {w1, w2}
    MaxRevision = 1
    MaxAttempts = 3
    MaxFaults = 2
    Enumerable = TRUE
    LateCalls = FALSE
CHECK_DEADLOCK FALSE
INVARIANT RetryIsCertain
