SPECIFICATION Spec
CONSTANTS
    w1 = w1 system = system news = news newsSystem = newsSystem digest = digest
    Workspaces = {w1} System = system
    Types = {news, newsSystem, digest}
    Slugs = {"news", "digest"} NoSlug = NoSlug
    FirstSlug <- MCFirstSlug FirstBulk = {newsSystem, digest} Scope <- MCScope
    Spellings = {"lower", "mixed"} Lower = "lower"
    Senders = {"s1"} MaxSends = 2 MaxChanges = 1 MaxTypeEdits = 1
CHECK_DEADLOCK FALSE
INVARIANTS StandingBlocksHold SeriousIsPermanent 
