SPECIFICATION FairSpec
CONSTANTS
    Flows = {f1, f2, f3}
    None = None
    Overlap = 1
    Settle = 1
    Lookback = 5
    MaxCatchup = 5
    MaxWindow = 4
    MinWindow = 1
    QueryCap = 2
    PageSize = 1
    MaxPages = 1
    MaxCycle = 1
    Poll = 1
    Retention = 7
    Delays = {0, 2}
    Horizon = 6
    MaxFaults = 1
PROPERTIES
    CatchesUpSafely
