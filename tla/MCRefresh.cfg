CONSTANTS
    Concurrency = 2
    SkipValidation = FALSE
    Feeds <- FeedsMC
    Content <- ContentMC
    Candidates = {"c1", "c2"}
    Retention = 1
    MaxRefreshes = 2
SPECIFICATION RefreshSpec
INVARIANTS
    RefreshTypeOK
    ReportsAddUp
    RecentSnapshotsKept
PROPERTIES
    ImplementsValidation
