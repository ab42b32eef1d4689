SPECIFICATION FairSpec
CONSTANTS
    f1 = f1  c1 = c1  r1 = r1
    MaxId         = 2
    Feed          = {f1}
    Consumer      = {c1}
    RetrySettings = {1}
    Plans         = {"whitelisted"}
    RetryBound    = 0
    Request       = {r1}
    Deletable     = {f1}
PROPERTIES
    ImplementsWorkSetLive
