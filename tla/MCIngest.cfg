SPECIFICATION IngestSpec
CONSTANTS
    Procs = {p1, p2}
    Keys = {k1, k2}
    NoKey = nokey
    Receipts = {r1, r2, r3}
    NoReceipt = noreceipt
    Digests = {d1}
    MaxRuns = 2
    MaxEdits = 1
    Daemon = p1
    Sessions = {s1, s2}
    SourceKeys = {e1}
    Payloads = {x1, x2}
    Prompts = {x1}
    NoPayload = nopayload
    MaxSessions = 1
    MaxCandidates = 1
SYMMETRY Symmetry
CHECK_DEADLOCK FALSE
INVARIANTS
    IngestInv
    BudgetsHold
PROPERTIES
    NothingIsUndone
