SPECIFICATION Spec
CONSTANTS
    Release = {a, b}
    Nobody = Nobody
    Original = Original
    Duration = 2
    StaleAfter = 3
    MaxSkew = 1
    MaxTime = 2
SYMMETRY Releases
INVARIANTS
    ReportsTrue
PROPERTIES LeaseHonored
CHECK_DEADLOCK FALSE
