SPECIFICATION Spec
CONSTANTS
    m1 = m1
    m2 = m2
    m3 = m3
    h1 = h1
    h2 = h2
    Messages = {m1, m2, m3}
    Kind <- BounceKinds
    Handlers = {h1, h2}
    Pixels = {p1}
    MaxOpens = 1
    Expected = "topic"
    Faults <- WriteFaults
SYMMETRY HandlerSymmetry
INVARIANTS AppliedOnce TrailAgrees
PROPERTIES NegativeIsFinal AdvancesLifecycle
CHECK_DEADLOCK FALSE
