SPECIFICATION FairSpec
CHECK_DEADLOCK FALSE
CONSTANTS
    Sizes = {s}
    Rates = {60, 30}
    Null = Null
    Unknown = Unknown
    Deadline = 5
    Settle = 2
    Poll = 1
    ReadLimit = 1
    Horizon = 7
INVARIANTS
    VerdictIsSeen
PROPERTIES
    WatchStops
