SPECIFICATION LFairSpec
CONSTANTS
    out = out
    err = err
    talker = talker
    rosout = rosout
    Streams = {out, err}
    Names = {talker, rosout}
    Rosout = rosout
    Process <- OneProcess
    SourcesOf <- OwnSources
    NoThread = NoThread
    NumProfiles = 2
    MaxFileSize = 2
    MaxLine = 2
    MaxRotated = 1
    MaxFailures = 1
    MaxEntries = 2
    Lines <- ThreeLines
    MaxChanges = 2
CHECK_DEADLOCK FALSE
INVARIANTS
    LInv
    RecentLinesKept
    SameOrder
    ShownIsLogged
    FailureCostsALine
PROPERTIES
    LinesReachDisk
    ChangeCompletes
