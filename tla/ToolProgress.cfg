\* Programs stop where they end.
CHECK_DEADLOCK FALSE
SPECIFICATION MCSpec
CONSTANTS
    high = high
    medium = medium
    small = small
    p1 = p1
    p2 = p2
    m1 = m1
    m2 = m2
    NoReply = NoReply
    Default = Default
    Missing = Missing
    EffortOrder <- MCOrder
    Prompts = {p1, p2}
    Engines <- MCEngines
    Profiles <- MCProfiles
    Warmups = 1
    MaxSwaps = 1
    Requests = {a}
    Phases = 1
    Hosts <- MCHosts
    LowLimit = 2
    SshTimeout = 1
    JoinTimeout = 2
    Sources <- MCFixed
    Images <- MCImages
    MaxFixKills = 2
    Configs <- MCConfigs
    Skips <- MCSkips
    Rdma <- MCRdma
    Devices = {"d0", "d1"}
    Weights = {"w1", "template"}
    Shards = {"s1"}
    KitFiles = {"aot"}
    VisionFiles = {"tower", "bias"}
    Template = "template"
    Bias = "bias"
    Index = "index"
    Unset = Unset
    MaxKills = 1
    Hooks = {"lego", "hand"}
    LegoHook = "lego"
    Lost = Lost
    MaxIssues = 3
    MaxImportFaults = 2
    MaxRebinds = 1
    watchdog = watchdog
    backup = backup
    other = other
    t1 = t1
    t2 = t2
    x1 = x1
    x2 = x2
    c1 = c1
    Slugs = {watchdog, backup, other}
    Protected = {watchdog}
    Timings = {t1, t2}
    Texts = {x1, x2}
    Channels = {c1}
    Files <- MCFiles
    Projects <- MCProjects
    MaxChanges = 1
    MaxFaults = 1
    TargetCount = 3
    Workload <- MCWorkload
    Videos = {v1, v2}
    None = None
    MaxAttempts = 3
    Rowsets <- MCRowsets
    NoTime = NoTime
    Overlap = 1
    SettleBatch = 1
    MaxCatchup = 2
    MaxWindow = 2
    MaxCycle = 1
    Poll = 1
    Timeout = 1
    BatchRows = 2
    Horizon = 9
    LastFault = 3
    MaxRowFaults = 1
INVARIANTS
    GateSafe
    SuiteSafe
    FixesSafe
    
    CertificateSafe
    SyncSafe
    ScreenSafe
    PlaybackSafe
    RowsSafe
PROPERTIES
    ProgramsGetThere
