SPECIFICATION Spec
CONSTANTS
    Candidates = {c1, c2}
    Batches = {b1, b2}
    NoBatch = none
    Memories = {m1}
    NoMemory = nil
    Workers = {w1, w2}
    Operations = {"new", "supersede", "conflict", "no_change"}
    MaxRevision = 2
    MaxAttempts = 2
    MaxFaults = 1
CHECK_DEADLOCK FALSE
INVARIANTS
    BatchInv
PROPERTIES
    OnlyHolderChangesBatch
    CommittedWhole
