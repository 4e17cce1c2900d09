SPECIFICATION SystemSpec
CONSTANTS
    bp = bp  hp = hp  bc = bc  hc = hc  bb = bb  hb = hb
    None = None
    Task = {t1}
    Pod = {bp, hp}
    Container = {bc, hc}
    Binding = {bb, hb}
    Pvc = {v1}
    Seen = {s1}
    Pin = {pin}
    Node = {n1}
    Browser <- MCBrowser
    Helper <- MCHelper
    Volume = v1
    MaxFaults = 0
INVARIANT NeverUsedIsClosed
CHECK_DEADLOCK FALSE
