SPECIFICATION Spec
CONSTANTS
    f1 = f1  c1 = c1  r1 = r1
    MaxId         = 1
    Feed          = {f1}
    Consumer      = {c1}
    RetrySettings = {1, 2}
    Plans         = {"whitelisted"}
    RetryBound    = 3
    Request       = {r1}
    Deletable     = {f1}
INVARIANTS
    BudgetIsConsistent
    AutoRetryIsBounded
