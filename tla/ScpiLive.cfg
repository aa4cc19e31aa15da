SPECIFICATION FairSpec
CONSTANTS
    MaxCalls = 1
    MaxLate = 3
    MaxErrors = 2
    Scripts <- FileScripts
PROPERTIES
    CallsReturn
    OpenReturns
CHECK_DEADLOCK FALSE
