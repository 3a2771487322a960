\* Provider trouble only: no crash, no lost write, no failed lookup.
SPECIFICATION FairSpec
CONSTANTS
    Emails = {e1}
    MaxAttempts = 5
    Faults <- ProviderFaults
INVARIANT JobEndSettlesEmail
PROPERTY QueuedSettles
