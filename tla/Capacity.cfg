SPECIFICATION RunnerSpec
CONSTANTS
    ann = ann
    bob = bob
    cid = cid
    c1 = c1
    p = p
    q = q
    None = None
    Agent <- MCThree
    Reviewer = {}
    Worker = {p}
    Assignment <- MCAssignment
    Call = {}
    Effect <- MCEffect
    MaxTasks = 3
    Concurrency = 3
    RestSeconds = 0
    BrowserUser = {}
    Stoppable = {}
    Outcome = {"cancelled"}
    MaxLeases = 0
    MaxActive = 2
    MaxDrains = 2
    MaxFaults = 1
    Crashable = {}
    Stopping = {p}
INVARIANTS
    DrainHonest
    CapacityRespected
PROPERTY
    RevokedNeverLaunches
SYMMETRY Teammates
