SPECIFICATION Spec
CONSTANTS
    u = u
    v = v
    c = c
    d = d
    Worker = {u, v}
    Client = {c, d}
    Crashable = {}
    BatchSize = 1
    Stage = "none"
    MaxTime = 1
    MaxExtra = 1
    MaxFaults = 0
    Scenario <- OwnerScenario
    Nobody = Nobody
INVARIANTS
    AlwaysScheduled
CHECK_DEADLOCK FALSE
