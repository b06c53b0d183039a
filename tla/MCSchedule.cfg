SPECIFICATION ScheduleFairSpec
CONSTANTS
    Candidates = {c1, c2}
    Batches = {b1, b2}
    NoBatch = none
    Memories = {m1}
    NoMemory = nil
    Workers = {w1}
    Operations = {"new", "conflict"}
    MaxRevision = 2
    MaxAttempts = 2
    MaxFaults = 1
    MaxRuns = 2
CHECK_DEADLOCK FALSE
INVARIANTS
    ScheduleInv
PROPERTIES
    DecisionsStand
    ManagedBatchRests
    DueIsTaken
