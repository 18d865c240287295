SPECIFICATION FairSpec
CONSTANTS
    seed = seed
    m1 = m1
    m2 = m2
    Models <- TwoModels
    Seed = seed
    Operations = {"promote", "rollback"}
    Admins = {a1, a2}
    Clients = {c1}
    LeakFree = {seed, m1}
    Recorded = {seed, m1}
    Artifact <- TwoArtifacts
    Sound = {seed, m1}
    AuditOutcomes = {TRUE, FALSE}
    MaxRestarts = 0
    Missing = Missing
    NoModel = NoModel
    NoRow = NoRow
    Default = Default
PROPERTY RegistryLive
