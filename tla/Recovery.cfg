SPECIFICATION LiveSpec
CONSTANTS
    ann = ann
    bob = bob
    cid = cid
    c1 = c1
    p = p
    q = q
    None = None
    Agent <- MCAnn
    Reviewer = {}
    Worker = {p, q}
    Assignment <- MCAssignment
    Call = {c1}
    Effect <- MCEffect
    MaxTasks = 1
    Concurrency = 2
    RestSeconds = 0
    BrowserUser = {}
    Stoppable = {ann}
    Outcome = {"failed"}
    MaxLeases = 2
    MaxActive = 1
    MaxDrains = 0
    MaxFaults = 1
    Crashable = {p}
    Stopping = {}
INVARIANTS
    SettledIsOver
PROPERTIES
    SlotsRespected
    StopReachesEffects
    RecoveredEventually
    StopReachesExecutor
