SPECIFICATION MCSpec
CONSTANTS
    Length = 3
    MaxAttempts = 2
    Executions = {e1, e2}
    Lone = e1
    Nobody = Nobody
    Candidates <- MCCandidates
    RunErrors <- MCRunErrors
    MaxAnalyses = 2
CHECK_DEADLOCK FALSE
INVARIANTS
    PipelineSound
    RecoverySound
    HealingSound
    RunsSound
PROPERTY EngineEnds
