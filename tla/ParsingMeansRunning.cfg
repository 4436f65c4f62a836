\* One call of /analyze and its job are enough.
SPECIFICATION Safety
CONSTANTS
    Scans = {s1}
    NoScan = NoScan
    Requests = {r1}
    Deleters = {}
    Slots = 1
    Ticks <- NoTicks
    MaxLost = 1
INVARIANT ParsingMeansRunning
CHECK_DEADLOCK FALSE
