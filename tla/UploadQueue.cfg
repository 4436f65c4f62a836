\* Two files, two picks, two attempts of every call.
SPECIFICATION Spec
CONSTANTS
    Files = {f1, f2}
    MaxItems = 2
    Attempts = 2
INVARIANTS TypeOK ItemShowsItsScan CopiesBounded QueueInv
PROPERTIES StatusMovesOn EveryItemSettles
CHECK_DEADLOCK FALSE
