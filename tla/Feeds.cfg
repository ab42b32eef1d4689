SPECIFICATION FairSpec
CONSTANTS
    u1 = u1
    FeedId      = {1}
    Guid        = {"a", "b"}
    Undated     = {"b"}
    Docs        <- Growing
    User        = {u1}
    Threshold   = 2
    MaxFailures = 2
    MaxCrashes  = 1
INVARIANTS
    TypeOK
    HeadersCoverItems
    InsertsAreNew
    FailuresAreTold
    QueuedIsAccepted
PROPERTIES
    EveryItemIsAdded
