------------------------------ MODULE Launcher ------------------------------
(***************************************************************************)
(* The life of the launcher around its ProcessManager: runTui              *)
(* (app/main.cpp) starts the autostart entries, runs the terminal      *)
(* interface, stops everything when the user quits and then destroys its   *)
(* locals; the launch screen (app/screens/launch_screen.cpp) runs      *)
(* every operation the user asks for on a background thread of its own,    *)
(* which the main thread waits for before it destroys the manager.         *)
(***************************************************************************)
EXTENDS ProcessManager

CONSTANTS
    Main,       \* the thread that runs runTui
    Autostart   \* the entries with autostart set

ASSUME MainAssumption == Main \in Callers /\ Autostart \subseteq Names

VARIABLE phase  \* how far runTui has come

lvars == <<vars, phase>>

\* The background tasks of the launch screen: as many as Callers has besides
\* Main may be under way at once.
Workers == Callers \ {Main}

Phases == {"init", "autostart", "tui", "quit", "stopAll", "bgwait", "dtor",
           "futures", "destroy", "gone"}

LInit == Init /\ phase = "init"

-----------------------------------------------------------------------------
\* An exception of Main leaves runTui with spin_thread joinable, or leaves a
\* destructor: either way the launcher terminates.
Killed == Aborted \/ pc[Main] = "threw"

Over == Killed \/ phase = "gone"

\* Main is between two calls.
At(ph) == phase = ph /\ pc[Main] = "idle"

GoTo(ph) == phase' = ph /\ UNCHANGED vars

BeginAutostart ==
    /\ At("init")
    /\ phase' = "autostart"
    /\ IF Autostart = {} THEN UNCHANGED vars ELSE CallStart(Main, Autostart)

RunTui == At("autostart") /\ GoTo("tui")

\* tui.run() returns.
Quit == At("tui") /\ GoTo("quit")

\* proc_mgr.stopAll() of runTui, while background tasks may still run.
StopAllOnQuit == At("quit") /\ phase' = "stopAll" /\ CallStopAll(Main)

LeaveRunTui == At("stopAll") /\ GoTo("bgwait")

\* Mistake: ~LaunchScreen does not wait for the background tasks.
DestructorUnawaited ==
    /\ At("bgwait")
    /\ phase' = "dtor"
    /\ CallStopAll(Main)

\* ~LaunchScreen waits for the background tasks, then ~ProcessManager begins
\* with stopAll.
DestructorStopAll ==
    /\ At("bgwait")
    /\ \A w \in Workers : Free(w)
    /\ phase' = "dtor"
    /\ CallStopAll(Main)

\* waitForRestartFutures: restart_mutex_ is held until every task is ready.
LockRestartFutures ==
    /\ At("dtor")
    /\ phase' = "futures"
    /\ restartMutex' = Main
    /\ UNCHANGED <<procs, mutex, futures, childVars, objectVars, localVars,
                   abandoned>>

\* Mistake: the wait threads that have a restart to push are waited for too.
PushersAwaited ==
    /\ At("futures")
    /\ \A p \in futures : pc[p] = "idle"
    /\ \A p \in Procs : waiter[p] # "push"
    /\ phase' = "destroy"
    /\ futures' = {}
    /\ restartMutex' = NoThread
    /\ UNCHANGED <<procs, mutex, childVars, objectVars, localVars,
                   abandoned>>

RestartFuturesReady ==
    /\ At("futures")
    /\ \A p \in futures : pc[p] = "idle"
    /\ phase' = "destroy"
    /\ futures' = {}
    /\ restartMutex' = NoThread
    /\ UNCHANGED <<procs, mutex, childVars, objectVars, localVars,
                   abandoned>>

\* The members go: restart_futures_ first, which waits for a task pushed since,
\* procs_ later.
DestroyMembers ==
    /\ At("destroy")
    /\ \A p \in futures : pc[p] = "idle"
    /\ phase' = "gone"
    /\ futures' = {}
    /\ procs' = [n \in Names |-> NoProc]
    /\ UNCHANGED <<mutex, restartMutex, childVars, objectVars, localVars,
                   abandoned>>

-----------------------------------------------------------------------------
\* The keys of the launch screen.  Enter toggles on the state processInfo
\* reports: Stopped for a name that was never started.

ReportedRunning(n) == \E p \in Procs : procs[n] = p /\ state[p] = "Running"

ToggleSelected(t, n) ==
    /\ mutex = NoThread
    /\ IF ReportedRunning(n) THEN CallStop(t, n) ELSE CallStart(t, {n})

RestartSelected(t, n) == CallRestart(t, n)

StartAll(t) == CallStart(t, Names)

StopAll(t) == CallStopAll(t)

Key(t) ==
    /\ phase = "tui"
    /\ \/ \E n \in Names : ToggleSelected(t, n) \/ RestartSelected(t, n)
       \/ StartAll(t)
       \/ StopAll(t)
    /\ UNCHANGED phase

-----------------------------------------------------------------------------
MainStep ==
    \/ BeginAutostart \/ RunTui \/ StopAllOnQuit \/ LeaveRunTui
    \/ DestructorStopAll \/ LockRestartFutures \/ RestartFuturesReady
    \/ DestroyMembers

LNext ==
    \/ /\ ~Over
       /\ \/ Steps /\ UNCHANGED phase
          \/ \E w \in Workers : Key(w)
          \/ MainStep
          \/ Quit
    \/ Over /\ UNCHANGED lvars

LSpec == LInit /\ [][LNext]_lvars

(***************************************************************************)
(* Fairness.  Every thread inside an operation and every wait and reader   *)
(* thread keeps being scheduled, and a killed child dies; a child that is  *)
(* not killed owes nothing, nor does who holds a pipe: read() returns only *)
(* at the end of file.  The user owes neither a key nor the quit.          *)
(* Threads that wait for mutex_ compete with threads that hold it only for *)
(* moments: strong fairness says that a waiting one gets it at last.       *)
(***************************************************************************)
LocksMutex(t) ==
    \/ \E n \in Names : RefuseStart(t, n) \/ AcceptStart(t, n)
    \/ Publish(t) \/ FindAbsent(t) \/ FindPresent(t)

LFairness ==
    /\ WF_lvars(~Over /\ MainStep)
    /\ SF_lvars(~Over /\ (StopAllOnQuit \/ DestructorStopAll))
    /\ \A t \in Threads :
        /\ WF_lvars(~Over /\ (StartStep(t) \/ StopStep(t)) /\ UNCHANGED phase)
        /\ SF_lvars(~Over /\ LocksMutex(t) /\ UNCHANGED phase)
    /\ \A p \in Procs :
        /\ WF_lvars(~Over /\ WaiterStep(p) /\ UNCHANGED phase)
        /\ SF_lvars(~Over /\ ~held[p] /\ ReaderEnds(p) /\ UNCHANGED phase)
        /\ WF_lvars(~Over /\ os[p] = "killed" /\ ChildExits(p, "failure") /\ UNCHANGED phase)

LFairSpec == LSpec /\ LFairness

-----------------------------------------------------------------------------
(* Safety. *)

\* The manager's invariant holds throughout, and its destruction is orderly: no
\* background task is under way once the destructor has begun, and restart_mutex_
\* is held exactly while the restart tasks are waited for.
LInv ==
    /\ IInv
    /\ phase \in Phases
    /\ phase \in {"dtor", "futures", "destroy", "gone"} => \A w \in Workers : Free(w)
    /\ restartMutex = IF phase = "futures" THEN Main ELSE NoThread
    /\ phase \in {"init", "tui", "quit", "bgwait", "futures", "destroy", "gone"}
        => pc[Main] = "idle"

\* The launcher never takes itself down by std::terminate.
LauncherSurvives == ~Killed

\* Once the manager is destroyed no child of it is left running.
NoOrphans == phase = "gone" => \A p \in Procs : ~Alive(p)

(* Liveness. *)

\* t joins a reader thread whose child is dead, and a descendant of that child
\* keeps the pipe open.
AwaitsPipe(t) == pc[t] = "inReader" /\ ~Alive(cur[t]) /\ held[cur[t]]

\* A call that does not return or throw waits for the pipe of a dead child to be
\* let go of, and for nothing else: a child that ignores SIGINT is killed, and no
\* thread waits for another for ever.
CallsReturn ==
    \A t \in Threads : pc[t] \notin {"idle", "threw"} ~>
        pc[t] \in {"idle", "threw"} \/ AwaitsPipe(t) \/ Over

\* A child that ends unasked and whose policy asks for a restart gets to be
\* started again, unless someone asks for a stop first, another child has been
\* started under its name, or the launcher is over.
RestartFollowsExit ==
    \A p \in Procs :
        /\ waiter[p] = "load" /\ ~shuttingDown[p]
        /\ \/ Policy[name[p]] = "always"
           \/ Policy[name[p]] = "on-failure" /\ exit[p] = "failure"
        ~> \/ pc[p] = "fork" \/ shuttingDown[p] \/ Over
           \/ \E q \in Procs : name[q] = name[p] /\ Active(q)

\* After the quit runTui gets to its end, whether the children heed SIGINT or not,
\* unless some thread waits for the pipe of a dead child.
QuitCompletes ==
    phase \in {"quit", "stopAll", "bgwait", "dtor", "futures", "destroy"} ~>
        Over \/ \E t \in Callers : AwaitsPipe(t)
=============================================================================
