SPECIFICATION Spec
CONSTANTS
    MaxFetch = 2
    MaxRev   = 2
    Deaths   = FALSE
INVARIANT OriginalIsSource
