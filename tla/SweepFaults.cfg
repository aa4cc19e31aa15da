SPECIFICATION FairCapture
CONSTANTS
    Modes = {"SH", "SHN"}
    Properties <- Table
    SppMultiple = 4
    MinSpp = 60
    MaxSpp = 200
    FloatErrors <- OneError
    Requests <- FewAsked
    MaxTune = 9000
    DefaultEntry <- Template
    InvertedFrom = 5000
    Word = 1000000
    MaxFaults = 1
    MaxMeasurements = 2
    MaxSocket = 2
PROPERTIES
    MeasurementReturns
CHECK_DEADLOCK FALSE
