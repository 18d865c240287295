SPECIFICATION FairSpec
CONSTANTS
    Keys = {k1}
    StaleKeys = {k1}
    Requests = {r1, r2}
    Workers = {w1}
    NoProc = NoProc
    Nil = Nil
    Ttl = 1
    L1Ttl = 1
    StaleWindow = 1
    MaxTime = 1
    MaxVersion = 0
    MaxEntries = 1
    L2MayFail = TRUE
PROPERTY CacheAnswers
