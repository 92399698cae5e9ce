SPECIFICATION FairSpec
CHECK_DEADLOCK FALSE
CONSTANTS
    scan = scan
    Topics = {scan}
    Profiles <- AnyProfile
    Window = 4
    MaxSamples = 3
    QueueCapacity = 2
INVARIANTS
    TInv
PROPERTIES
    VerdictIsRight
    SubscribedAtLast
    DeathShows
    StopCompletes
