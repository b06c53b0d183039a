SPECIFICATION Spec
CONSTANTS
    g1 = g1
    g2 = g2
    k1 = k1
    k2 = k2
    b1 = b1
    b2 = b2
    Callers = {c1, c2}
    Generations = {g1, g2}
    EventKeys = {k1, k2}
    Bodies = {b1, b2}
    HookEvents <- Hooks
    AliasKeys = {k2}
    Source <- Lines
    MaxDeaths = 2
PROPERTY
    ResolvesOnce
