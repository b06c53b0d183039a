SPECIFICATION WindowFairSpec
CONSTANTS
    Hosts = {h1, h2}
    NoRecord = norecord
    Injections = {i1}
    Receipts = {r1}
    Kinds = {"wrong_recall"}
    MaxRuns = 2
    MaxUpdates = 1
    MaxFaults = 2
CHECK_DEADLOCK FALSE
INVARIANTS
    WindowInv
PROPERTIES
    WindowCloses
