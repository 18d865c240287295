SPECIFICATION Spec
CONSTANTS
    Keys = {k1}
    StaleKeys = {k1}
    Requests = {r1, r2}
    Workers = {w1}
    NoProc = NoProc
    Nil = Nil
    Ttl = 1
    L1Ttl = 1
    StaleWindow = 1
    MaxTime = 3
    MaxVersion = 1
    MaxEntries = 1
    L2MayFail = TRUE
SYMMETRY RequestSymmetry
INVARIANTS
    CacheSound
    AgeCeiling
    QuietInvalidationComplete
PROPERTY L2NeverRegresses
