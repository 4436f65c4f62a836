\* Safety at the default width of two slots: four calls of /analyze on one
\* scan (two in use, two waiting), and a DELETE.
SPECIFICATION Safety
CONSTANTS
    Scans = {s1}
    NoScan = NoScan
    Requests = {r1, r2, r3, r4}
    Deleters = {d1}
    Slots = 2
    Ticks <- OneTick
    MaxLost = 1
SYMMETRY Symmetry
INVARIANTS  ResultBeforeComplete ServiceInv
CHECK_DEADLOCK FALSE
