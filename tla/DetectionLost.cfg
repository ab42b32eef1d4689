SPECIFICATION Spec
CONSTANTS
    Duration          = 51
    Grain             = 3
    SnapTolerance     = 3
    MinDuration       = 4
    MergeGap          = 2
    BridgeGap         = 4
    EdgeExtension     = 3
    CueSlack          = 1
    RefineWindow      = 9
    RefineMinGap      = 2
    Utterances        <- Said
    SpeakerOf         <- Monologue
    SentenceEnds      <- Pauses
    PartSeconds       = 30
    Overlap           = 4
    Drift             = 1
    MaxLines          = 5
    Budget            = 28
    ChunkOverlap      = 8
    MALFORMED_RETRIES = 1
    Cited             <- Replies
    Cues              <- Stings
    PromoActions      = {"skip", "passthrough"}
    ManualTimes       <- Entered
    MaxCorrections    = 2
INVARIANT NothingIsLost
