SPECIFICATION TuiSpec
CONSTANTS
    Nodes = {"a", "b"}
    NameOrder <- MCNameOrder
    LevelNames <- MCLevels
    MaxLines = 1
    Characters <- MCCharacters
    All = ""
    Pids = {1, 2}
    OnGpu = {2}
    Cpus = 2
    Width = 16
    Profiles <- MCProfiles
    TerminalHeights = {15, 24}
    Scenarios <- MCScenarios
CHECK_DEADLOCK FALSE
INVARIANTS
    TuiInv
    CacheCurrent
    TotalsAddUp
PROPERTIES
    SightKept
    StopHonoured
    RefreshReturns
    LogsCatchUp
    NodesCatchUp
    FiguresCatchUp
