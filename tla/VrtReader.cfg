SPECIFICATION FairSpec
CONSTANTS
    SizeOf <- Sizes
    LookAlikes <- Passing
    MaxPackets = 2
    MaxBuffer = 1
    MaxFaults = 1
INVARIANTS
    ReaderInv
    AbortedIsQuiet
PROPERTIES
    PacketsInOrder
    CallsReturn
    Recovers
