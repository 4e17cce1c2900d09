SPECIFICATION Spec
CONSTANTS
    None = None
    Container = {k}
    Task = {t1, t2}
    Pod = {p1}
    Pvc = {v1, v2}
    Binding = {b1}
    Seen = {s1}
    Pin = {n1}
SYMMETRY Identities
INVARIANTS
    ClosedIsProven
    ProfileContinuity
PROPERTIES
    RecordsLast
    TurnHonored
