SPECIFICATION LiveSpec
CONSTANTS
    u = u
    v = v
    c = c
    d = d
    Worker = {u, v}
    Crashable = {u}
    Client = {c, d}
    BatchSize = 1
    Stage = "on_success"
    MaxTime = 1
    MaxExtra = 1
    MaxFaults = 1
    Scenario <- MCScenario
    Nobody = Nobody
INVARIANTS
    ScheduleKept
    OneExecutor
    StageAfterRun
PROPERTIES
    DueRunsSettle
CHECK_DEADLOCK FALSE
