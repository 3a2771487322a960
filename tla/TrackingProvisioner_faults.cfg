SPECIFICATION Spec
CONSTANTS
    Procs = {p1, p2}
    Configs = {c1, c2}
    Config0 = c1
    MaxRequests = 3
    MaxFaults = 2
CHECK_DEADLOCK FALSE
INVARIANTS
    StatusIsHonest
    AnsweredIsReal
    RetryCompletes
    NothingLeaks
