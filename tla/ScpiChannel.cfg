SPECIFICATION Spec
CONSTANTS
    MaxCalls = 3
    MaxLate = 1
    MaxErrors = 2
    Scripts <- FileScripts
INVARIANTS
    TypeOK
    OwnAnswers
    StaleAnswersBounded
    DoneMeansApplied
    FailedMeansRefused
    ErrorBacklogBounded
    OpenDrainsErrors
    ChannelInv
PROPERTY NoLateEffect
\* The session ends after MaxCalls calls.
CHECK_DEADLOCK FALSE
