SPECIFICATION CaptureSpec
CONSTANTS
    Modes = {"SH", "SHN"}
    Properties <- Table
    SppMultiple = 4
    MinSpp = 60
    MaxSpp = 200
    FloatErrors <- Errors
    Requests <- AllAsked
    MaxTune = 9000
    DefaultEntry <- Template
    InvertedFrom = 5000
    Word = 1000000
    MaxFaults = 0
    MaxMeasurements = 2
    MaxSocket = 3
INVARIANTS
    CaptureInv
    WholeSpectrum
    BinsNearby
    NothingLeft
PROPERTIES
    NeverOverwrites
CHECK_DEADLOCK FALSE
