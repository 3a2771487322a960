SPECIFICATION FairSpec
CONSTANTS
    Jobs = {j1, j2}
    MaxAttempts = 2
    Threshold = 2
    Faults <- AllFaults
INVARIANTS ThresholdDisables DisabledStaysInactive
PROPERTIES InactiveIsNotCalled JobEnds
CHECK_DEADLOCK FALSE
