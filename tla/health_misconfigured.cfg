SPECIFICATION MCSpec
CONSTANTS
    Parts = {"health"}
    Callers = {c1, c2, c3}
    FAILURE_THRESHOLD = 3
    COOLDOWN = 3
    MAX_FAILURES = 7
    Keys = {k1, k2}
    Procs = {p1, p2, p3}
    Locks = {o1, o2, o3}
    NoProc = NoProc
    NoLock = NoLock
    NoKey = NoKey
    Threads = {t1, t2}
    NoThread = NoThread
    Deployments <- Misconfigured
PROPERTY EveryoneAnswered
CHECK_DEADLOCK FALSE
