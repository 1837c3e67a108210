SPECIFICATION FairSpec
CHECK_DEADLOCK FALSE
CONSTANTS
    typist = typist
    other = other
    k = k
    Helpers = {typist, other}
    Kvmd = Kvmd
    Neutral = Neutral
    None = None
    Keys = {k}
    Script <- Taps
    StartTimeout = 2
    ReportTimeout = 2
    IoBudget = 3
    ReportAllowance = 1
    CleanupTimeout = 1
    Horizon = 5
    MaxFaults = 2
INVARIANTS
    HelpersSafe
PROPERTIES
    CleanSequences
    HelpersEndInTime
