SPECIFICATION SendSpec
CONSTANTS
    Addresses <- MCAddresses
    Canonical <- MCCanonical
    Locales = {"es"}
    NoLocale = NoLocale
    NoRow = NoRow
    FirstBlocks <- MCFirstBlocks
    DefaultLocale = NoLocale
    Sends <- MCSends
    TypeRows <- MCTypeRows
    WorkspacePolicy <- MCWorkspacePolicy
    MaxEdits = 3
    MaxFaults = 2
CHECK_DEADLOCK FALSE
INVARIANTS
    SuppressionHonoured
    TestMailIsContained
    AnswerAgrees
