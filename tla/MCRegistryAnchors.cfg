SPECIFICATION Spec
CONSTANTS
    Outer = Outer
    Inner = Inner
    Spare = Spare
    Callers = {c1, c2}
    Paths = {Outer, Inner, Spare}
    Below <- TwoNested
    Allowed = Inner
    Sessions = {s1}
    MaxPlaces = 2
    MaxTasks = 0
    MaxBindings = 0
    MaxEvents = 2
    MaxMemories = 1
    MaxMoves = 2
SYMMETRY Symmetry
INVARIANT AnchorsOfTheSession
CHECK_DEADLOCK FALSE
