SPECIFICATION ReviewSpec
CONSTANTS
    Candidates = {c1, c2}
    Batches = {b1}
    NoBatch = none
    Memories = {m1}
    NoMemory = nil
    Workers = {w1}
    Operations = {"new", "conflict"}
    MaxRevision = 3
    MaxAttempts = 2
    MaxFaults = 2
    Reviewers = {v1}
    Receipts = {r1, r2}
    NoReceipt = noreceipt
CHECK_DEADLOCK FALSE
SYMMETRY Symmetric
INVARIANTS
    ReviewInv
    OneByOne
