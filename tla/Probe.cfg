SPECIFICATION FairProbe
CONSTANTS
    Networks <- MCNetworks
    Instruments = {"a", "b", "old"}
    Old = {"old"}
    Handles = {h, g}
    MaxSockets = 2
    MaxFd = 3
    MaxBegins = 2
    MaxStrange = 1
INVARIANTS
    ProbeInv
    ReportIsOne
PROPERTY ProbesReturn
CHECK_DEADLOCK FALSE
