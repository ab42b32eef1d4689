SPECIFICATION FairSpec
CONSTANTS
    u1 = u1
    FeedId      = {1}
    Guid        = {"a", "b"}
    Undated     = {}
    Docs        <- Repeating
    User        = {u1}
    Threshold   = 2
    MaxFailures = 2
    MaxCrashes  = 0
PROPERTIES
    EveryItemIsAdded
