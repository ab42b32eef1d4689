SPECIFICATION Spec
CONSTANTS
    MaxFetch = 2
    MaxRev   = 2
    Deaths   = TRUE
INVARIANTS
    TypeOK
    PublishedIsServable
    OriginalStaysForTheRun
    ReviewIsDecided
PROPERTY
    PublishesWhatWasAsked
