--------------------------- MODULE LauncherProofs ---------------------------
(***************************************************************************)
(* Proofs about Launcher: the manager's invariant survives the life of the *)
(* launcher, the destruction of the manager included, and no background    *)
(* task of the launch screen outlives the wait in ~LaunchScreen.  No child *)
(* that was asked to stop is forgotten on the way: what outlives the       *)
(* manager was never asked, or has its SIGKILL.                            *)
(***************************************************************************)
EXTENDS Launcher, ProcessManagerProofs

USE PolicyAssumption, DistinctAssumption, MainAssumption
USE DEF Threads, States, OsStates, WaiterSteps, ReaderSteps, HandleStates,
   ScanSteps, StopSteps, ThreadSteps, childVars, objectVars, localVars,
   Workers, Phases, At

-----------------------------------------------------------------------------
\* A thread that is in no operation is not moved by what others do.
LEMMA StepsKeepFree ==
  ASSUME IInv, Steps, NEW c \in Callers, pc[c] \in {"idle", "threw"}
  PROVE  pc'[c] = pc[c]
<1>. USE DEF IInv, TypeOK
<1>1. CASE \E t \in Threads : StartStep(t)
  BY <1>1 DEF StartStep, RefuseStart, AcceptStart, Fork, ForkFails, Publish
<1>2. CASE \E t \in Threads : StopStep(t)
  <2>. PICK t \in Threads : StopStep(t)
    BY <1>2
  <2>1. CASE FindAbsent(t) \/ FindPresent(t) \/ EndScan(t) \/ EndKill(t)
    BY <2>1 DEF FindAbsent, FindPresent, EndScan, EndKill
  <2>2. CASE \E q \in Procs : ScanInactive(t, q) \/ ScanActive(t, q) \/ Kill(t, q)
    BY <2>2 DEF ScanInactive, ScanActive, Kill
  <2>3. CASE \E q \in Procs : JoinWaitThread(t, q)
    BY <2>3 DEF JoinWaitThread
  <2>4. CASE MarkShutdown(t) \/ MarkStopping(t)
    BY <2>4 DEF MarkShutdown, MarkStopping
  <2>5. CASE WaitThreadJoined(t) \/ JoinReader(t) \/ ReaderJoined(t)
    BY <2>5 DEF WaitThreadJoined, JoinReader, ReaderJoined
  <2>6. CASE JoinThrows(t) \/ EndStop(t)
    BY <2>6 DEF JoinThrows, EndStop
  <2>. QED  BY <2>1, <2>2, <2>3, <2>4, <2>5, <2>6 DEF StopStep
<1>3. CASE \E q \in Procs : WaiterStep(q)
  <2>1. CASE \E q \in Procs : PushRestart(q)
    BY <2>1 DEF PushRestart
  <2>2. CASE \E q \in Procs : WaiterStep(q) /\ ~PushRestart(q)
    BY <2>2 DEF WaiterStep, WaitPid, Deactivate, LoadState, StoreState,
       ReadShutdown, ApplyPolicy, WaiterGoes
  <2>. QED  BY <1>3, <2>1, <2>2
<1>4. CASE \E q \in Procs : \/ LetGo(q) \/ ReaderEnds(q)
                           \/ \E e \in {"clean", "failure"} : ChildExits(q, e)
  BY <1>4 DEF LetGo, ReaderEnds, ChildExits
<1>. QED  BY <1>1, <1>2, <1>3, <1>4 DEF Steps

\* Only the destructor takes restart_mutex_ for longer than a moment.
LEMMA StepsKeepRestartMutex == ASSUME Steps PROVE restartMutex' = restartMutex
<1>1. CASE \E t \in Threads : StartStep(t)
  BY <1>1 DEF StartStep, RefuseStart, AcceptStart, Fork, ForkFails, Publish
<1>2. CASE \E t \in Threads : StopStep(t)
  BY <1>2 DEF StopStep, FindAbsent, FindPresent, ScanInactive, ScanActive,
     MarkShutdown, MarkStopping, EndScan, Kill, EndKill, JoinWaitThread,
     WaitThreadJoined, JoinReader, ReaderJoined, JoinThrows, EndStop
<1>3. CASE \E p \in Procs :
             \/ WaiterStep(p) \/ LetGo(p) \/ ReaderEnds(p)
             \/ \E e \in {"clean", "failure"} : ChildExits(p, e)
  BY <1>3 DEF WaiterStep, WaitPid, Deactivate, LoadState, StoreState,
     ReadShutdown, ApplyPolicy, PushRestart, WaiterGoes, LetGo, ReaderEnds, ChildExits
<1>. QED  BY <1>1, <1>2, <1>3 DEF Steps

\* What a call does to the position of the caller, and of nobody else.
LEMMA CallMoves ==
  ASSUME IInv, NEW t \in Callers,
         \/ \E ns \in SUBSET Names : CallStart(t, ns)
         \/ \E n \in Names, w \in SUBSET Names : BeginStop(t, n, w)
         \/ CallStopAll(t)
  PROVE  /\ IInv'
         /\ restartMutex' = restartMutex
         /\ \A c \in Callers \ {t} : pc'[c] = pc[c]
<1>1. IInv'
  BY CallStartPreserves, BeginStopPreserves, CallStopAllPreserves
<1>2. /\ restartMutex' = restartMutex
      /\ \A c \in Callers \ {t} : pc'[c] = pc[c]
  BY DEF CallStart, BeginStop, CallStopAll, IInv, TypeOK
<1>. QED  BY <1>1, <1>2

\* A key of the launch screen is a call by a background task.
LEMMA KeyIsCall ==
  ASSUME NEW t \in Workers, Key(t)
  PROVE  /\ phase = "tui" /\ phase' = "tui"
         /\ \/ \E ns \in SUBSET Names : CallStart(t, ns)
            \/ \E n \in Names, w \in SUBSET Names : BeginStop(t, n, w)
            \/ CallStopAll(t)
  BY DEF Key, ToggleSelected, RestartSelected, StartAll, StopAll, CallStop, CallRestart

\* The steps of the destructor that touch the manager's members directly.
LEMMA DestructionPreserves ==
  ASSUME IInv, LockRestartFutures \/ RestartFuturesReady \/ DestroyMembers
  PROVE  IInv'
<1>1. TypeOK'
  BY DEF LockRestartFutures, RestartFuturesReady, DestroyMembers, IInv, TypeOK
<1>2. ChildInv' /\ HandleInv' /\ UnaskedExitReported'
  BY DEF LockRestartFutures, RestartFuturesReady, DestroyMembers, Alive, IInv,
     ChildInv, HandleInv, UnaskedExitReported
<1>3. RestartInv'
  BY DEF LockRestartFutures, RestartFuturesReady, DestroyMembers, IInv, RestartInv,
     RestartDue
<1>4. ThreadInv' /\ JoinInv'
  <2>1. UNCHANGED <<os, name, waiter, shuttingDown, waitThread, readerThread, localVars>>
    BY DEF LockRestartFutures, RestartFuturesReady, DestroyMembers
  <2>2. ThreadInv /\ JoinInv
    BY DEF IInv
  <2>3. ThreadInv'
    BY <2>1, <2>2 DEF ThreadInv, Active
  <2>4. JoinInv'
    BY <2>1, <2>2 DEF JoinInv
  <2>. QED  BY <2>3, <2>4
<1>5. MapInv'
  BY DEF LockRestartFutures, RestartFuturesReady, DestroyMembers, IInv, MapInv
<1>. QED  BY <1>1, <1>2, <1>3, <1>4, <1>5 DEF IInv

-----------------------------------------------------------------------------
\* The manager's invariant and the order of its destruction hold for any number
\* of background tasks, entries and forks.
THEOREM LauncherInvariance == LSpec => []LInv
<1>1. LInit => LInv
  BY InitEstablishes DEF LInit, LInv, Init
<1>2. LInv /\ [LNext]_lvars => LInv'
  <2>. SUFFICES ASSUME LInv, [LNext]_lvars PROVE LInv'
    OBVIOUS
  <2>. USE DEF LInv
  <2>1. CASE Steps /\ UNCHANGED phase
    BY <2>1, StepsPreserve, StepsKeepFree, StepsKeepRestartMutex DEF Free
  <2>2. CASE \E w \in Workers : Key(w)
    BY <2>2, KeyIsCall, CallMoves
  <2>3. CASE BeginAutostart \/ StopAllOnQuit
    <3>1. IInv' /\ restartMutex' = restartMutex
      BY <2>3, CallMoves, StutterPreserves DEF BeginAutostart, StopAllOnQuit, vars
    <3>. QED  BY <2>3, <3>1 DEF BeginAutostart, StopAllOnQuit
  <2>4. CASE DestructorStopAll
    <3>1. IInv' /\ restartMutex' = restartMutex
            /\ \A c \in Callers \ {Main} : pc'[c] = pc[c]
      BY <2>4, CallMoves DEF DestructorStopAll
    <3>. QED  BY <2>4, <3>1 DEF DestructorStopAll, Free
  <2>5. CASE RunTui \/ Quit \/ LeaveRunTui
    BY <2>5, StutterPreserves DEF RunTui, Quit, LeaveRunTui, GoTo, vars
  <2>6. CASE LockRestartFutures \/ RestartFuturesReady \/ DestroyMembers
    <3>1. IInv'
      BY <2>6, DestructionPreserves
    <3>. QED  BY <2>6, <3>1 DEF LockRestartFutures, RestartFuturesReady,
                DestroyMembers, Free
  <2>7. CASE UNCHANGED lvars
    BY <2>7, StutterPreserves DEF lvars, vars, Free
  <2>. QED  BY <2>1, <2>2, <2>3, <2>4, <2>5, <2>6, <2>7 DEF LNext, MainStep
<1>. QED  BY <1>1, <1>2, PTL DEF LSpec

-----------------------------------------------------------------------------
(* What was asked to stop, until the end. *)

\* What runTui and the destructor do themselves concerns no object that is in the
\* hands of a call.
LEMMA MainKeepsTargets ==
  ASSUME TargetsInv,
         \/ LockRestartFutures \/ RestartFuturesReady \/ DestroyMembers
         \/ UNCHANGED vars
  PROVE  TargetsInv'
<1>1. UNCHANGED <<os, shuttingDown, waitThread, readerThread, abandoned, toStop, todo, pc>>
  BY DEF LockRestartFutures, RestartFuturesReady, DestroyMembers, vars
<1>. QED  BY <1>1, TargetsKept

\* TargetsInv survives the life of the launcher, beside LInv.
LEMMA LauncherTargets == LSpec => [](LInv /\ TargetsInv)
<1>1. LInit => TargetsInv
  BY InitTargets DEF LInit
<1>2. LInv /\ TargetsInv /\ [LNext]_lvars => TargetsInv'
  <2>. SUFFICES ASSUME LInv, TargetsInv, [LNext]_lvars PROVE TargetsInv'
    OBVIOUS
  <2>0. IInv
    BY DEF LInv
  <2>1. CASE Steps
    BY <2>0, <2>1, StepsKeepTargets
  <2>2. CASE \E w \in Workers : Key(w)
    BY <2>0, <2>2, KeyIsCall, OthersTargets
  <2>3. CASE BeginAutostart \/ StopAllOnQuit \/ DestructorStopAll
    BY <2>0, <2>3, OthersTargets, MainAssumption
       DEF BeginAutostart, StopAllOnQuit, DestructorStopAll
  <2>4. CASE LockRestartFutures \/ RestartFuturesReady \/ DestroyMembers
    BY <2>4, MainKeepsTargets
  <2>5. CASE RunTui \/ Quit \/ LeaveRunTui \/ UNCHANGED lvars
    <3>1. UNCHANGED vars
      BY <2>5 DEF RunTui, Quit, LeaveRunTui, GoTo, lvars
    <3>. QED  BY <3>1, MainKeepsTargets
  <2>. QED  BY <2>1, <2>2, <2>3, <2>4, <2>5 DEF LNext, MainStep
<1>. QED  BY <1>1, <1>2, LauncherInvariance, PTL DEF LSpec

\* From the first autostart to the last step of the destructor, with any number of
\* background tasks, entries, forks and restarts: no child that was asked to stop is
\* forgotten before it is dead or killed.
THEOREM LauncherStopsWhatItAsks == LSpec => []AskedAreStopped
<1>1. LInv /\ TargetsInv => AskedAreStopped
  BY DEF TargetsInv
<1>. QED  BY <1>1, LauncherTargets, PTL

\* What outlives the manager in spite of its destructor was never asked to stop, or
\* has its SIGKILL: with any number of background tasks, entries, forks and restarts,
\* the orphans are those whose start no stopAll saw.
THEOREM OrphansWereNeverAsked ==
  LSpec => [](phase = "gone" => \A p \in Procs : os[p] = "alive" => ~shuttingDown[p])
<1>1. ASSUME LInv, TargetsInv, phase = "gone", NEW p \in Procs, os[p] = "alive"
      PROVE  ~shuttingDown[p]
  <2>1. \A t \in Callers : pc[t] \in {"idle", "threw"}
    BY <1>1 DEF LInv, Free
  <2>2. \A t \in Procs : pc[t] \notin StopSteps
    BY <1>1 DEF LInv, IInv, ThreadInv
  <2>3. \A t \in Threads : pc[t] \notin ScanSteps \union {"kill"}
    BY <2>1, <2>2
  <2>. QED  BY <1>1, <2>3 DEF TargetsInv, AskedAreStopped
<1>2. LInv /\ TargetsInv =>
        (phase = "gone" => \A p \in Procs : os[p] = "alive" => ~shuttingDown[p])
  BY <1>1
<1>. QED  BY <1>2, LauncherTargets, PTL
=============================================================================
