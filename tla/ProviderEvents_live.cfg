SPECIFICATION FairSpec
CONSTANTS
    m1 = m1
    m2 = m2
    m3 = m3
    h1 = h1
    h2 = h2
    Messages = {m1, m2, m3}
    Kind <- SubscribeKinds
    Handlers = {h1}
    Pixels = {}
    MaxOpens = 1
    Expected = "none"
    Faults <- Duplicates
PROPERTIES EveryMessageEnds NegativeSuppresses
CHECK_DEADLOCK FALSE
