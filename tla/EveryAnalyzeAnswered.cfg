\* One slot and two calls: the second waits for the first one's release.
SPECIFICATION Spec
CONSTANTS
    Scans = {s1}
    NoScan = NoScan
    Requests = {r1, r2}
    Deleters = {}
    Slots = 1
    Ticks <- NoTicks
    MaxLost = 1
PROPERTY EveryAnalyzeAnswered
CHECK_DEADLOCK FALSE
