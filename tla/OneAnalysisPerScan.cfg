\* Four calls on two scans and two slots: two run, two wait.
SPECIFICATION Safety
CONSTANTS
    Scans = {s1, s2}
    NoScan = NoScan
    Requests = {r1, r2, r3, r4}
    Deleters = {}
    Slots = 2
    Ticks <- NoTicks
    MaxLost = 1
SYMMETRY Symmetry
INVARIANT OneAnalysisPerScan
CHECK_DEADLOCK FALSE
