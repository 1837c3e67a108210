SPECIFICATION FairSpec
CONSTANTS
    Hosts = {h1, h2}
    None = None
    MaxFaults = 1
    MaxReloads = 2
INVARIANTS
    PageSafe
PROPERTIES
    NoPulseInDoubt
    NoticesSignIn
