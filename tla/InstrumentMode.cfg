SPECIFICATION Spec
CONSTANTS
    Sessions <- MCSessions
    Candidates <- MCCandidates
    Holds <- MCHolds
    Ids <- MCIds
    StartIds <- MCStartIds
    UIntMax = 7
    MaxCalls = 3
    MaxLate = 1
    MaxEntries = 3
INVARIANT ModeKnown
CHECK_DEADLOCK FALSE
