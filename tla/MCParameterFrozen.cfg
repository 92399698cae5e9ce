SPECIFICATION PSpec
CONSTANTS
    n1 = n1
    n2 = n2
    low = low
    high = high
    Nodes = {n1, n2}
    Kind <- NumberKind
    Declared <- NumberRange
    Order <- TwoNodes
    Leaves = TRUE
    Values = {low, high}
    Default = low
    Garbage = garbage
    NoValue = NoValue
    NoNode = NoNode
    MaxFetches = 1
    MaxSets = 1
    MaxCrashes = 0
    MaxFailures = 0
CHECK_DEADLOCK FALSE
INVARIANT NeverFrozen
