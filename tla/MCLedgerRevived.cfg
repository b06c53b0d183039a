SPECIFICATION LedgerSpec
CONSTANTS
    Procs = {p1, p2}
    Memories = {m1, m2}
    NoMemory = NoMemory
    Contents = {x, y}
    Sources = {e}
    Receipts = {r1, r2}
    Forgets = {f1}
    NoReceipt = NoReceipt
    MaxRevision = 2
    Version = 2
SYMMETRY Symmetry
CHECK_DEADLOCK FALSE
PROPERTIES RevivesNothing
