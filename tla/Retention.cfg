\* Two scans, as many as the clean-up query returns; one failed call.
SPECIFICATION Spec
CONSTANTS
    Scans = {s1, s2}
    Threads = {t1}
    NoScan = NoScan
    NoRow = NoRow
    CleanupLimit = 2
    Retention = 1
    MaxClock = 1
    MaxFaults = 1
    MaxCrashes = 0
PROPERTY RetentionHonoured
CHECK_DEADLOCK FALSE
