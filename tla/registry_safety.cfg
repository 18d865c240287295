SPECIFICATION Spec
CONSTANTS
    seed = seed
    m1 = m1
    m2 = m2
    Models <- MCModels
    Seed = seed
    Operations = {"approve", "promote", "reject", "rollback"}
    Admins = {a1, a2}
    Clients = {c1}
    LeakFree = {seed, m1}
    Recorded = {seed, m1}
    Artifact <- OwnArtifacts
    Sound = {seed, m1}
    AuditOutcomes = {TRUE, FALSE}
    MaxRestarts = 1
    Missing = Missing
    NoModel = NoModel
    NoRow = NoRow
    Default = Default
SYMMETRY AdminSymmetry
INVARIANT RegistrySound
PROPERTY ChampionSucceeded
