SPECIFICATION Spec
CONSTANTS
    ann = ann
    bob = bob
    rev = rev
    c1 = c1
    c2 = c2
    c3 = c3
    e1 = e1
    e2 = e2
    None = None
    Agent <- MCAgent
    Reviewer <- MCReviewer
    Worker = {w}
    Assignment <- JournalAssignment
    Call = {c1, c2, c3}
    Effect <- MCEffect
    MaxTasks = 2
    Concurrency = 1
    RestSeconds = 30
    BrowserUser = {ann}
    Stoppable = {ann}
    Outcome = {"succeeded", "failed", "cancelled"}
    MaxLeases = 2
INVARIANTS
    QuietWhenReleased
PROPERTY
    StopSticks
