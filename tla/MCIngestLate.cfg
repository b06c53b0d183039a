SPECIFICATION IngestSpec
CONSTANTS
    Procs = {p1}
    Keys = {k1}
    NoKey = nokey
    Receipts = {r1, r2, r3}
    NoReceipt = noreceipt
    Digests = {d1}
    MaxRuns = 2
    MaxEdits = 0
    Daemon = p1
    Sessions = {s1, s2, s3}
    SourceKeys = {e1}
    Payloads = {x1, x2}
    Prompts = {x1}
    NoPayload = nopayload
    MaxSessions = 2
    MaxCandidates = 1
SYMMETRY Symmetry
CHECK_DEADLOCK FALSE
PROPERTIES
    NothingEntersAfterStop
