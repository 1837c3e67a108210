\* Components stop where their program ends.
CHECK_DEADLOCK FALSE
SPECIFICATION MCSpec
CONSTANTS
    InputVersions <- MCInputs
    MaxCommits = 2
    MaxRuns = 3
    Forwards = {"f1", "f2"}
    Returns <- MCReturns
    OtherPolicies = {"o1"}
    Spare = {"s1", "s2"}
    NoOrigin = "none"
    MaxMeddling = 2
    Keys = {k1, k2}
    Planned = 3
    Slack = 2
    LongEvery = 2
    MaxRows = 4
    MaxLosses = 2
    Typings <- MCTypings
    Holds <- MCHolds
    ChannelKeys = {0, 1, 5, 8, 9}
    Leftovers <- MCLeftovers
    MaxSlack = 1
    Systems <- MCSystems
    Sources <- MCHomes
    Builders <- MCBuilders
    Allowed <- MCAllowed
    AlertSeries <- MCAlerts
    Collectors <- MCCollectors
    Disks <- MCDisks
    Hosts <- MCMachines
    HealthCounts = {"Pods not ready"}
    Used = {60, 90}
    DaysLeft = {6, 7}
    Rooms = {4, 5}
    SampleWindow = 2
    Scrapers = {s1, s2}
    Atxs <- MCAtxs
    Infos <- MCInfos
    Gpios <- MCGpios
    Hidden = {"__h"}
    Ttl = 1
    MaxTime = 3
    MaxLines = 3
    Target = 1
    MaxIterations = 1
    MaxIoFaults = 1
    Pins = {"p1", "p2"}
    Ceiling <- MCCeiling
    Rests = {"r1", "r2"}
    None = None
    MaxMain = 2
    MaxWork = 2
    MaxPublishes = 2
INVARIANTS
    ProbeSafe
    PromotionSafe
    DeltaSafe
    GestureSafe
    DrillSafe
    ScriptsSafe
    HomePageSafe
    ExportSafe
    DashboardSafe
    QualificationSafe
    CeilingSafe
PROPERTIES
    RunsEndAndTagsAdvance
