SPECIFICATION Spec
CONSTANTS
    n1 = n1
    n2 = n2
    p1 = p1
    p2 = p2
    c1 = c1
    Names = {n1, n2}
    Procs = {p1, p2}
    Callers = {c1}
    Policy <- MixedPolicy
    NoProc = NoProc
    NoThread = NoThread
    NoName = NoName
SYMMETRY ProcSymmetry
INVARIANTS
    IInv
    RestartObeysPolicy
    UnaskedExitReported
PROPERTIES
    LiveKeepsItsPlace
    StopSuppressesRestart
    Supervised
