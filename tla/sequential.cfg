SPECIFICATION MCSpec
CONSTANTS
    L1Keys = {k1, k2, k3}
    MaxEntries = 2
    Ttl = 1
    L1Ttl = 1
    StaleWindow = 1
    MaxTime = 2
    MaxSteps = 1
    DecisionRequests = {r1, r2}
    Roles = {"management", "exploration_admin", "mine_planner", "viewer"}
    MaxDecisions = 2
    Nobody = Nobody
    MemoCallers = {c1, c2}
    MemoKeys = {k1, k2}
    MEMO_TTL = 2
    MEMO_SIZE = 1
    MaxMemoTime = 4
    Unmemoised = Unmemoised
    ClockRequests = {c1, c2}
    Tasks = {"shortfall", "equipment_failure"}
    CLOCK_TTL = 1
    DAY = 3
    RECENT = 1
    STALE = 2
    LIVE_THRESHOLD = 2
    MaxClockTime = 3
    Analysts = {c1, c2}
    Shifts <- MCShifts
    Fleets <- MCFleets
    FLOW_TTL = 1
    MaxShifts = 2
    MaxFlowTime = 2
    Mines <- MCMines
    Change <- MCChange
    Limits = {1, 4}
    Records <- MCRecords
    Changed <- MCChanged
    Requests <- MCRequests
    QUERY_TTL = 1
    MaxRequests = 2
    MaxScenarioTime = 1
    Loaders = {c1, c2}
    MaxSaves = 2
    MaxChanges = 2
    e1 = e1
    e2 = e2
    AuditExecutions = {e1, e2}
    NewCheckpoints <- MCCheckpoints
    MaxFailures = 2
    MaxTorn = 1
    MaxCheckpoints = 2
    Datasets <- MCDatasets
    GivenTargets = {"", "grade"}
    GivenTasks = {"", "regression"}
    CandidateLimits <- MCLimits
CHECK_DEADLOCK FALSE
SYMMETRY CallerSymmetry
INVARIANTS
    L1Sound
    DecisionsSound
    MemoSound
    FlowSound
    MineSound
    OffersSound
    ArtifactSound
    AuditSound
    ModelSound
    NormalPlatformIsRecent
