\* Liveness at one slot: a call that runs, two that wait, and a DELETE.
SPECIFICATION Spec
CONSTANTS
    Scans = {s1}
    NoScan = NoScan
    Requests = {r1, r2, r3}
    Deleters = {d1}
    Slots = 1
    Ticks <- OneTick
    MaxLost = 1
INVARIANT OneSlotKept
PROPERTIES SlotComesBack WaiterServed
CHECK_DEADLOCK FALSE
