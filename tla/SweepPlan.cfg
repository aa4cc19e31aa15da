SPECIFICATION PlanSpec
CONSTANTS
    Modes = {"SH", "SHN", "DD"}
    Properties <- Table
    SppMultiple = 4
    MinSpp = 32
    MaxSpp = 200
    FloatErrors <- Errors
    Requests <- AllRequests
INVARIANTS
    PlanCovers
    StepsTunable
    PacketsAgree
    ResolutionMet
    NeverCleanup
