SPECIFICATION Spec
CONSTANTS
    f1 = f1  c1 = c1  c2 = c2  r1 = r1
    MaxId         = 1
    Feed          = {f1}
    Consumer      = {c1, c2}
    RetrySettings = {2}
    Plans         = {"full", "whitelisted"}
    RetryBound    = 2
    Request       = {r1}
    Deletable     = {f1}
SYMMETRY ConsumerSymmetry
INVARIANTS
    TypeOK
    OneRunPerEpisode
    ActiveIsOwned
    RunningJobsAreOwned
PROPERTIES
    ImplementsWorkSet
    
