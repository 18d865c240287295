SPECIFICATION FairSpec
CONSTANTS
    Requests = {r1, r2}
    Operations = {"submit", "approve", "modify", "reject", "start", "complete", "outcome"}
    MaxPlans = 2
    MaxOutcomes = 2
    Schemas = {"init.sql", "migrate_all.py"}
    Free = Free
INVARIANTS
    PlansWellFormed
    PlansDocumented
PROPERTIES
    ImplementsLifecycle
    RequestsAnswered
