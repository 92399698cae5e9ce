SPECIFICATION LFairSpec
CONSTANTS
    n1 = n1
    p1 = p1
    p2 = p2
    main = main
    w1 = w1
    Names = {n1}
    Procs = {p1}
    Callers = {main, w1}
    Main = main
    Autostart = {n1}
    Policy <- OnFailurePolicy
    NoProc = NoProc
    NoThread = NoThread
    NoName = NoName
PROPERTIES
    QuitCompletes
    CallsReturn
    RestartFollowsExit
    StopEndsItsTargets
