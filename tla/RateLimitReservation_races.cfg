SPECIFICATION FairSpec
CONSTANTS
    Workers = {w1, w2}
    Reservations = {r1, r2, r3}
    None = None
    Free = Free
    BurstSize = 2
    Limits = {1, 2}
    MaxIssued = 4
    Faults <- DbFault
INVARIANTS InUseIsCurrent TokensConserved
PROPERTIES BurstWithinLimit AcquireReturns
