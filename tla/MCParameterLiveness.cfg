SPECIFICATION PFairSpec
CONSTANTS
    n1 = n1
    n2 = n2
    low = low
    high = high
    Nodes = {n1}
    Kind <- SingleKind
    Declared <- SingleRange
    Order <- OneNode
    Leaves = TRUE
    Values = {low, high}
    Default = low
    Garbage = garbage
    NoValue = NoValue
    NoNode = NoNode
    MaxFetches = 1
    MaxSets = 1
    MaxCrashes = 1
    MaxFailures = 1
CHECK_DEADLOCK FALSE
PROPERTIES
    PendingResolves
    FetchCompletes
    GoneIsForgotten
