---------------------------- MODULE SystemMonitor ----------------------------
(***************************************************************************)
(* SystemMonitor (src/system_monitor.cpp) and the tick of the launch       *)
(* screen (app/screens/launch_screen.cpp) that shows its figures: which    *)
(* processes descend from each running entry, and what share of the        *)
(* machine they take.  /proc is read entry by entry while processes start, *)
(* work and end; the shares are differences of counters of two scans.      *)
(*                                                                         *)
(* Abstractions.  Only the tick thread calls the monitor, so its mutex_ is *)
(* never contended.  Memory and system gauges are left out, and so is the  *)
(* busy share of the whole machine: they are copied as they are read.      *)
(* /proc can always be opened, and a scan is shorter than the interval     *)
(* between two.  A pid is used again, but not within one scan, nor while   *)
(* ProcessManager still reports its process as running.                    *)
(***************************************************************************)
EXTENDS Integers, FiniteSetsExt, Functions

CONSTANTS
    Pids,        \* pids in use, positive integers
    Cpus,        \* num_cpus_
    OnGpu,       \* pids whose processes use the GPU
    Width        \* one more than the largest unsigned long long

ASSUME MonitorAssumption ==
    /\ Pids \subseteq Nat \ {0} /\ OnGpu \subseteq Pids
    /\ Cpus \in Nat \ {0} /\ Width \in Nat \ {0}

VARIABLES
    \* the machine
    hasGpu,      \* cached_system_.has_gpu
    kernel,      \* the processes there are: parent and CPU ticks
    elapsed,     \* ticks of all CPUs since /proc/stat was last read, or since boot
    running,     \* children ProcessManager reports as running
    freed,       \* pids of processes that ended during the scan under way
    \* SystemMonitor
    deltaTotal,  \* delta_total_ticks_
    prevTicks,   \* prev_proc_ticks_
    table,       \* cached_procs_
    children,    \* children_index_
    gpuUsers,    \* the pids of gpu_proc_mem_
    procFresh, gpuFresh,  \* last_proc_refresh_, last_gpu_refresh_: not long ago
    sysTick,     \* where the tick is, and its locals
    trees        \* cached_trees_ of the launch screen

machineVars == <<hasGpu, kernel, elapsed, running, freed>>
statVars == <<deltaTotal, prevTicks, table, children, gpuUsers>>
monitorVars == <<machineVars, statVars, procFresh, gpuFresh, sysTick, trees>>

SysIdle == [at |-> "idle", gpu |-> FALSE, todo |-> {}, procs |-> <<>>, ticks |-> <<>>]

MonitorInit(gpu) ==
    /\ hasGpu = gpu
    /\ kernel = <<>> /\ elapsed = Cpus /\ running = {} /\ freed = {}
    /\ deltaTotal = 0
    /\ prevTicks = <<>> /\ table = <<>> /\ gpuUsers = {}
    /\ children = [p \in Pids \union {0} |-> {}]
    /\ procFresh = FALSE /\ gpuFresh = FALSE
    /\ sysTick = SysIdle
    /\ trees = <<>>

-----------------------------------------------------------------------------
(* The machine.  Parent 0 stands for the launcher and init: the children of
   the former are running entries, those of a process that ends go to init. *)

Start(p, parent) ==
    /\ p \notin DOMAIN kernel \union freed \union running
    /\ parent \in DOMAIN kernel \union {0}
    /\ kernel' = [q \in DOMAIN kernel \union {p} |->
                    IF q = p THEN [parent |-> parent, ticks |-> 0] ELSE kernel[q]]
    /\ running' = IF parent = 0 THEN running \union {p} ELSE running
    /\ UNCHANGED <<hasGpu, elapsed, freed, statVars, procFresh, gpuFresh, sysTick, trees>>

\* A process works for one tick, while the other CPUs rest.
Work(p) ==
    /\ p \in DOMAIN kernel
    /\ kernel' = [kernel EXCEPT ![p].ticks = @ + 1]
    /\ elapsed' = elapsed + Cpus
    /\ UNCHANGED <<hasGpu, running, freed, statVars, procFresh, gpuFresh, sysTick, trees>>

Exit(p) ==
    /\ p \in DOMAIN kernel
    /\ kernel' = [q \in DOMAIN kernel \ {p} |->
                    IF kernel[q].parent = p THEN [kernel[q] EXCEPT !.parent = 0] ELSE kernel[q]]
    /\ freed' = IF sysTick.at = "scan" THEN freed \union {p} ELSE freed
    /\ UNCHANGED <<hasGpu, elapsed, running, statVars, procFresh, gpuFresh, sysTick, trees>>

\* ProcessManager's wait thread stores that the child has ended.
NoticeExit(p) ==
    /\ p \in running \ DOMAIN kernel
    /\ running' = running \ {p}
    /\ UNCHANGED <<hasGpu, kernel, elapsed, freed, statVars, procFresh, gpuFresh, sysTick, trees>>

\* The CPUs tick while time passes, at work or not.
ProcIntervalPasses ==
    /\ procFresh /\ sysTick.at \notin {"cpu", "scan"}
    /\ procFresh' = FALSE
    /\ elapsed' = elapsed + Cpus
    /\ UNCHANGED <<hasGpu, kernel, running, freed, statVars, gpuFresh, sysTick, trees>>

GpuIntervalPasses ==
    /\ gpuFresh
    /\ gpuFresh' = FALSE
    /\ UNCHANGED <<machineVars, statVars, procFresh, sysTick, trees>>

-----------------------------------------------------------------------------
(* refresh() *)

\* The throttles, together.
BeginSysTick ==
    LET gpuDue == hasGpu /\ ~gpuFresh
    IN  /\ sysTick' = [SysIdle EXCEPT
             !.at = CASE ~procFresh -> "cpu" [] procFresh /\ gpuDue -> "gpu" [] OTHER -> "show",
             !.gpu = gpuDue]
        /\ procFresh' = TRUE
        /\ gpuFresh' = hasGpu
        /\ UNCHANGED <<machineVars, statVars, trees>>

\* The first reading is a difference to zero.
RefreshSystemCpu ==
    /\ sysTick.at = "cpu"
    /\ deltaTotal' = elapsed
    /\ elapsed' = 0
    /\ sysTick' = [sysTick EXCEPT !.at = "scan", !.todo = Pids]
    /\ UNCHANGED <<hasGpu, kernel, running, freed, prevTicks, table, children, gpuUsers,
                   procFresh, gpuFresh, trees>>

\* The difference of two unsigned counters, as a percentage within bounds.
Share(p, ticks) ==
    IF p \in DOMAIN prevTicks /\ deltaTotal > 0
    THEN Min({100 * Cpus, (((ticks - prevTicks[p]) % Width) * 100 * Cpus) \div deltaTotal})
    ELSE 0

\* The processes the scan will still come to: /proc lists pids in ascending
\* order.  One that ends before its stat is read is as good as not listed.
Ahead == sysTick.todo \intersect DOMAIN kernel

ScanNext ==
    /\ sysTick.at = "scan" /\ Ahead # {}
    /\ LET p == Min(Ahead)
           stat == kernel[p]
           info == [parent |-> stat.parent, share |-> Share(p, stat.ticks), gpu |-> p \in gpuUsers]
           Put(map, value) == [q \in DOMAIN map \union {p} |-> IF q = p THEN value ELSE map[q]]
       IN  sysTick' = [sysTick EXCEPT
             !.todo = {q \in @ : q > p}, !.procs = Put(@, info), !.ticks = Put(@, stat.ticks)]
    /\ UNCHANGED <<machineVars, statVars, procFresh, gpuFresh, trees>>

\* Mistake: counters once read are kept.
FirstTicks == [p \in DOMAIN sysTick.ticks |->
                 IF p \in DOMAIN prevTicks THEN prevTicks[p] ELSE sysTick.ticks[p]]

NewTicks == sysTick.ticks

\* Mistake: the index is not cleared.
GrownIndex ==
    [p \in Pids \union {0} |->
        children[p] \union {c \in DOMAIN sysTick.procs \ {p} : sysTick.procs[c].parent = p}]

NewIndex ==
    [p \in Pids \union {0} |->
        {c \in DOMAIN sysTick.procs \ {p} : sysTick.procs[c].parent = p}]

InstallScan ==
    /\ sysTick.at = "scan" /\ Ahead = {}
    /\ table' = sysTick.procs
    /\ prevTicks' = NewTicks
    /\ children' = NewIndex
    /\ sysTick' = [SysIdle EXCEPT !.at = IF sysTick.gpu THEN "gpu" ELSE "show"]
    /\ freed' = {}
    /\ UNCHANGED <<hasGpu, kernel, elapsed, running, deltaTotal, gpuUsers,
                   procFresh, gpuFresh, trees>>

\* What the GPU's driver reports; if it fails to, nothing or what it reported
\* last, which depends on the way it is asked.
RefreshGpu ==
    /\ sysTick.at = "gpu"
    /\ gpuUsers' \in {gpuUsers, {}, OnGpu \intersect DOMAIN kernel}
    /\ sysTick' = [SysIdle EXCEPT !.at = "show"]
    /\ UNCHANGED <<machineVars, deltaTotal, prevTicks, table, children,
                   procFresh, gpuFresh, trees>>

-----------------------------------------------------------------------------
(* processTree(pid) *)

\* buildTree: a process's own share and those of the trees of its children; one
\* the scan did not see counts nothing.
Tree(root) ==
    LET build[p \in Pids] ==
            [members |-> {p} \union UNION {build[c].members : c \in children[p]},
             total |-> (IF p \in DOMAIN table THEN table[p].share ELSE 0)
                          + SumFunction([c \in children[p] |-> build[c].total])]
    IN  build[root]

\* The rest of LaunchScreen::tick: a tree for every running child.
ShowTrees ==
    /\ sysTick.at = "show"
    /\ trees' = [p \in running |-> Tree(p)]
    /\ sysTick' = SysIdle
    /\ UNCHANGED <<machineVars, statVars, procFresh, gpuFresh>>

SysTickStep ==
    RefreshSystemCpu \/ ScanNext \/ InstallScan \/ RefreshGpu \/ ShowTrees

-----------------------------------------------------------------------------
\* p and what descends from it by the parents that parentOf has: the least set that
\* has p and the children of its members.
Descendants(p, parentOf) ==
    LET all == DOMAIN parentOf \union {p}
        Closed(S) == \A q \in DOMAIN parentOf : parentOf[q] \in S => q \in S
    IN  {q \in all : \A S \in SUBSET all : p \in S /\ Closed(S) => q \in S}

\* Between two ticks, a tree has the processes that descend from its root by the
\* parents of one scan, each of them counted once.
TotalsAddUp ==
    sysTick.at = "idle" =>
        \A p \in DOMAIN trees :
            LET family == Descendants(p, [q \in DOMAIN table |-> table[q].parent])
            IN  /\ trees[p].members = family
                /\ trees[p].total =
                     SumFunctionOnSet([q \in DOMAIN table |-> table[q].share],
                                      family \intersect DOMAIN table)

\* The trees are those of the machine, and nothing that rests seems to work.
FiguresShown ==
    /\ running \subseteq DOMAIN kernel
    /\ DOMAIN trees = running
    /\ \A p \in running :
        trees[p].members = Descendants(p, [q \in DOMAIN kernel |-> kernel[q].parent])
    /\ \A p \in DOMAIN table : table[p].share = 0
=============================================================================
