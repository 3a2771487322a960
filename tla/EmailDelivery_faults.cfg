\* One email, every failure, the code's five attempts.
SPECIFICATION FairSpec
CONSTANTS
    Emails = {e1}
    MaxAttempts = 5
    Faults <- AllFaults
INVARIANTS SentIsRecorded DeliveriesBounded EventsAgreeWithStatus
PROPERTIES NeverResentOnceRecorded SuppressionHonoured
           FollowsLifecycle ProcessingSettles
