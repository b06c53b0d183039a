SPECIFICATION FairReviewSpec
CONSTANTS
    Candidates = {c1}
    Batches = {b1}
    NoBatch = none
    Memories = {m1}
    NoMemory = nil
    Workers = {w1}
    Operations = {"conflict"}
    MaxRevision = 3
    MaxAttempts = 2
    MaxFaults = 1
    Reviewers = {v1}
    Receipts = {r1, r2}
    NoReceipt = noreceipt
CHECK_DEADLOCK FALSE
PROPERTY ReviewEnds
