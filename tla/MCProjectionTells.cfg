SPECIFICATION Spec
CONSTANTS
    Memories = {m1}
    Generations = {g1, g2}
    NoGeneration = none
    Workers = {w1, w2}
    MaxRevision = 1
    MaxAttempts = 3
    MaxFaults = 3
    Enumerable = TRUE
    LateCalls = TRUE
CHECK_DEADLOCK FALSE
SYMMETRY Symmetric
INVARIANTS
    OrphanFree
    RetryHadNoEffect
