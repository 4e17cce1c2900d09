SPECIFICATION Spec
CONSTANTS
    ann = ann
    bob = bob
    rev = rev
    c1 = c1
    c2 = c2
    c3 = c3
    e1 = e1
    e2 = e2
    None = None
    Agent <- MCAgent
    Reviewer <- MCReviewers
    Worker = {w}
    Assignment <- AdmissionAssignment
    Call = {}
    Effect <- MCEffect
    MaxTasks = 3
    Concurrency = 2
    RestSeconds = 0
    BrowserUser = {}
    Stoppable = {ann}
    Outcome = {"succeeded", "failed"}
    MaxLeases = 0
INVARIANTS
    ConcurrencyBound
    OneTaskPerAgent
    DisjointWrites
    DependenciesAccepted
    TypeOK
    IndependentReview
PROPERTY
    ExecutedAtMostOnce
