SPECIFICATION Spec
CONSTANTS
    u1 = u1  u2 = u2
    t1 = t1  t2 = t2  t3 = t3
    n1 = n1  n2 = n2  s1 = s1  s2 = s2
    User     = {u1, u2}
    Client   = {u1, u2}
    Visitor  = {u1, u2}
    Token    = {t1, t2, t3}
    Secret   = {"k1"}
    Username = {n1, n2}
    Password = {"p1"}
    Salt     = {s1, s2}
SYMMETRY ServiceSymmetry
INVARIANTS
    TypeOK
    CacheIsFresh
    ShownTokenIsStored
    KnownIsStored
PROPERTIES
    RestartKeepsLogins
