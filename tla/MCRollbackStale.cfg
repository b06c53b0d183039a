SPECIFICATION RollbackSpec
CONSTANTS
    Memories = {m1}
    Workers = {w1, w2}
    Runners = {r1}
    Throughs = {5}
    NoProc = NoProc
    MaxAttempts = 2
    MaxFaults = 1
    UsersAct = TRUE
SYMMETRY Symmetry
INVARIANT
    StoppedRowsSettled
