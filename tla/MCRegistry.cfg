SPECIFICATION Spec
CONSTANTS
    Outer = Outer
    Inner = Inner
    Spare = Spare
    Callers = {c1, c2}
    Paths = {Outer, Inner, Spare}
    Below <- TwoNested
    Allowed = Inner
    Sessions = {s1}
    MaxPlaces = 2
    MaxTasks = 1
    MaxBindings = 2
    MaxEvents = 2
    MaxMemories = 1
    MaxMoves = 1
SYMMETRY Symmetry
INVARIANTS RegistryInv ShownInPlace
PROPERTY NothingMoves
CHECK_DEADLOCK FALSE
