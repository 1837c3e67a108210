SPECIFICATION FairSpec
CONSTANTS
    Poll = 1
    MaxBackoff = 5
    MaxPages = 2
    RetryAfters = {0, 3, 7}
    MaxRefusals = 4
    Spacing <- Doubling
    MaxFaults = 3
INVARIANTS
    SessionSafe
PROPERTIES
    SparesTheConsole
    KeepsReading
