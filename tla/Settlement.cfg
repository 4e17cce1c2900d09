SPECIFICATION RecoverySpec
CONSTANTS
    bp = bp  hp = hp  bc = bc  hc = hc  bb = bb  hb = hb
    None = None
    Task = {t1}
    Pod = {bp, hp}
    Container = {bc, hc}
    Binding = {bb, hb}
    Pvc = {v1}
    Seen = {s1}
    Pin = {pin}
    Node = {n1, n2}
    Browser <- MCBrowser
    Helper <- MCHelper
SYMMETRY Symmetric
INVARIANTS HelperPostedOnce RecoveredOnce ReceiptIsTrue ClosedIsQuiet
