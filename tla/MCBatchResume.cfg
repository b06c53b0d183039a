SPECIFICATION Spec
CONSTANTS
    Candidates = {c1}
    Batches = {b1}
    NoBatch = none
    Memories = {m1}
    NoMemory = nil
    Workers = {w1}
    Operations = {"new", "refine"}
    MaxRevision = 2
    MaxAttempts = 3
    MaxFaults = 1
CHECK_DEADLOCK FALSE
PROPERTY ConsistentPlanCommits
