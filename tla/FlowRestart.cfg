SPECIFICATION Spec
SYMMETRY Symmetry
CONSTANTS
    Flows = {f1, f2}
    None = None
    Overlap = 1
    Settle = 1
    Lookback = 2
    MaxCatchup = 3
    MaxWindow = 2
    MinWindow = 1
    QueryCap = 2
    PageSize = 1
    MaxPages = 2
    MaxCycle = 1
    Poll = 1
    Retention = 5
    Delays = {0, 2}
    Horizon = 6
    MaxFaults = 1
INVARIANTS
    CollectorSafe
PROPERTIES
    AcceptedOnce
    KeepsArchive
