\* Four bytes in a space of eight sequence numbers, and four packets of any cut.
SPECIFICATION Spec
CONSTANTS
    Mod = 8
    Isns <- WrappingIsns
    SendLen = 4
    Cap = 5
    MaxPackets = 4
    NotServed = NotServed
INVARIANTS ShortfallFlagged StreamInv LoopMatchesPipeline
PROPERTY ImplementsHonest
CHECK_DEADLOCK FALSE
