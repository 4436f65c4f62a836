\* One scan, two overlapping requests of any kind and their jobs, one failed
\* call, one crash; the clock passes the retention once.
SPECIFICATION Safety
CONSTANTS
    Scans = {s1}
    Threads = {t1, t2}
    NoScan = NoScan
    NoRow = NoRow
    CleanupLimit = 1
    Retention = 1
    MaxClock = 1
    MaxFaults = 1
    MaxCrashes = 1
SYMMETRY Symmetry
INVARIANTS StoreInv DurableResult ServedComplete CaptureKept
CHECK_DEADLOCK FALSE
