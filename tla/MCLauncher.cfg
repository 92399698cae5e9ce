SPECIFICATION LSpec
CONSTANTS
    n1 = n1
    p1 = p1
    p2 = p2
    main = main
    w1 = w1
    Names = {n1}
    Procs = {p1, p2}
    Callers = {main, w1}
    Main = main
    Autostart = {n1}
    Policy <- NeverPolicy
    NoProc = NoProc
    NoThread = NoThread
    NoName = NoName
SYMMETRY ProcSymmetry
INVARIANTS
    LInv
    StoppedIsJoined
    AskedAreStopped
    NoOrphans
