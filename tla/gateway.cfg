SPECIFICATION MCSpec
CONSTANTS
    HubRequests = {h1, h2}
    Curator = h1
    Mappings = {a, b}
    NoMapping = NoMapping
    HubSchemas = {"init.sql", "migrate_all.py"}
    MaxVersions = 3
    TrainRequests = {t1, t2}
    Trainer = t1
    Tasks <- MCTasks
    Modes = {"modal", "simulation"}
    MaxRuns = 2
    MaxRestarts = 1
    N = 3
    Terrains <- MCTerrains
    RouteRequests <- MCRouteRequests
    CORRIDOR = 0
CHECK_DEADLOCK FALSE
INVARIANTS
    VersionsSound
    TrainingSound
    RoutesJustified
    LegsAreCheapest
PROPERTY RunsSettle
