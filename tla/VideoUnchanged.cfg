SPECIFICATION Spec
CHECK_DEADLOCK FALSE
CONSTANTS
    Sizes = {s}
    Rates = {60, 30}
    Null = Null
    Unknown = Unknown
    Deadline = 3
    Settle = 2
    Poll = 1
    ReadLimit = 1
    Horizon = 4
INVARIANTS
    UnchangedIsSame
