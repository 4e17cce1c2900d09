SPECIFICATION LiveSpec
CONSTANTS
    u = u
    v = v
    one = one
    two = two
    other = other
    hook = hook
    app = app
    None = None
    Worker = {u, v}
    Crashable = {u}
    Request = {one, two, other}
    Key <- MCKey
    Target <- MCTarget
    Live = {one, two, other}
    Step = {1}
    Scenario <- MCScenario
INVARIANTS
    AnsweredAlike
    OneExecutor
    TargetExclusive
    LaunchedOnce
PROPERTIES
    OutcomeLasts
    RunsEnd
CHECK_DEADLOCK FALSE
