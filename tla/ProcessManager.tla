--------------------------- MODULE ProcessManager ---------------------------
(***************************************************************************)
(* ProcessManager (src/process_manager.cpp): the owner of the child    *)
(* processes of a launch profile.  Any thread may call start, stop,        *)
(* restart and stopAll; every child that is started gets a ManagedProcess  *)
(* object, a reader thread that pumps its output, and a wait thread that   *)
(* reaps it and, per its restart policy, spawns a std::async task that     *)
(* starts it again.                                                        *)
(*                                                                         *)
(* Abstractions.  A ManagedProcess, its pid and the restart task its wait  *)
(* thread may spawn are one identity, a member of Procs; the number of     *)
(* forks is bounded by Procs.  Deadlines may pass at any moment.  SIGINT   *)
(* lets a child exit, which ChildExits allows at any time, so sending it   *)
(* changes no variable.  The two pipes of a child are one here.  Log lines *)
(* are left out: the reader takes mutex_ only to hand one over.            *)
(***************************************************************************)
EXTENDS Integers, FiniteSets, Functions

CONSTANTS
    Names,      \* display names of the launch entries
    Procs,      \* ManagedProcess objects, one per successful fork
    Callers,    \* threads that call the public operations
    Policy,     \* the restart_policy of each entry
    NoProc, NoThread, NoName

\* A restart task is a thread too: the one p's wait thread spawns is named p.
Threads == Callers \union Procs

ASSUME PolicyAssumption == Policy \in [Names -> {"never", "on-failure", "always"}]
ASSUME DistinctAssumption ==
    /\ Callers \intersect Procs = {}
    /\ NoProc \notin Procs
    /\ NoThread \notin Threads
    /\ NoName \notin Names

VARIABLES
    procs,         \* procs_: the object registered under each name
    mutex,         \* mutex_: the stopAll that is scanning procs_, if any
    restartMutex,  \* restart_mutex_: its holder while futures are waited for
    futures,       \* restart_futures_: the restart tasks not yet cleaned up
    \* the operating system's view of each child; held: its pipe is there to be
    \* read from and a process, the child or a descendant, has the write end open
    os, exit, held,
    \* ManagedProcess: entry name, info.state, shutting_down, its two threads'
    \* positions and the std::thread handles on them
    name, state, shuttingDown, waiter, reader, waitThread, readerThread,
    \* locals of the threads inside an operation
    pc,            \* position
    work,          \* names still to be started by this call
    entry,         \* the entry being started
    seen,          \* what start's check found registered under it
    cur,           \* the object at hand
    todo,          \* objects the current loop has yet to visit
    toStop,        \* to_stop: objects this stop/stopAll must see the end of
    abandoned      \* history: objects left to themselves by a call that threw

childVars  == <<os, exit, held>>
objectVars == <<name, state, shuttingDown, waiter, reader, waitThread, readerThread>>
localVars  == <<pc, work, entry, seen, cur, todo, toStop>>
vars == <<procs, mutex, restartMutex, futures, childVars, objectVars, localVars,
          abandoned>>

States       == {"Stopped", "Running", "Crashed", "Stopping"}
OsStates     == {"unborn", "alive", "killed", "zombie", "reaped"}
WaiterSteps  == {"none", "waitpid", "reaped", "load", "storeStopped", "storeExit",
                 "decide", "policy", "push", "done"}
ReaderSteps  == {"none", "reading", "done"}
HandleStates == {"none", "joinable", "joining", "joined"}
ScanSteps    == {"scan", "markShutdown", "markStopping"}
StopSteps    == ScanSteps \union {"kill", "join", "joinWait", "joinReader", "inReader"}
ThreadSteps  == {"idle", "threw", "check", "fork", "publish", "find"} \union StopSteps

TypeOK ==
    /\ procs \in [Names -> Procs \union {NoProc}]
    /\ mutex \in Threads \union {NoThread}
    /\ restartMutex \in Threads \union {NoThread}
    /\ futures \in SUBSET Procs
    /\ os \in [Procs -> OsStates]
    /\ exit \in [Procs -> {"none", "clean", "failure"}]
    /\ held \in [Procs -> BOOLEAN]
    /\ name \in [Procs -> Names \union {NoName}]
    /\ state \in [Procs -> States]
    /\ shuttingDown \in [Procs -> BOOLEAN]
    /\ waiter \in [Procs -> WaiterSteps]
    /\ reader \in [Procs -> ReaderSteps]
    /\ waitThread \in [Procs -> HandleStates]
    /\ readerThread \in [Procs -> HandleStates]
    /\ pc \in [Threads -> ThreadSteps]
    /\ work \in [Threads -> SUBSET Names]
    /\ entry \in [Threads -> Names \union {NoName}]
    /\ seen \in [Threads -> Procs \union {NoProc}]
    /\ cur \in [Threads -> Procs \union {NoProc}]
    /\ todo \in [Threads -> SUBSET Procs]
    /\ toStop \in [Threads -> SUBSET Procs]
    /\ abandoned \in SUBSET Procs

Init ==
    /\ procs = [n \in Names |-> NoProc]
    /\ mutex = NoThread
    /\ restartMutex = NoThread
    /\ futures = {}
    /\ os = [p \in Procs |-> "unborn"]
    /\ exit = [p \in Procs |-> "none"]
    /\ held = [p \in Procs |-> FALSE]
    /\ name = [p \in Procs |-> NoName]
    /\ state = [p \in Procs |-> "Stopped"]
    /\ shuttingDown = [p \in Procs |-> FALSE]
    /\ waiter = [p \in Procs |-> "none"]
    /\ reader = [p \in Procs |-> "none"]
    /\ waitThread = [p \in Procs |-> "none"]
    /\ readerThread = [p \in Procs |-> "none"]
    /\ pc = [t \in Threads |-> "idle"]
    /\ work = [t \in Threads |-> {}]
    /\ entry = [t \in Threads |-> NoName]
    /\ seen = [t \in Threads |-> NoProc]
    /\ cur = [t \in Threads |-> NoProc]
    /\ todo = [t \in Threads |-> {}]
    /\ toStop = [t \in Threads |-> {}]
    /\ abandoned = {}

-----------------------------------------------------------------------------
\* active: true from construction until the wait thread has reaped the child.
Active(p) == waiter[p] \in {"waitpid", "reaped"}

Alive(p) == os[p] \in {"alive", "killed"}

RunsAs(n) == \E p \in Procs : procs[n] = p /\ Active(p)

\* The shared_ptr's to p: the map, p's own threads, callers' locals.
Referenced(p) ==
    \/ \E n \in Names : procs[n] = p
    \/ waiter[p] # "done" \/ reader[p] # "done"
    \/ \E t \in Threads : p = cur[t] \/ p \in todo[t] \/ p \in toStop[t]

\* Destroying an object whose std::thread is still joinable is std::terminate.
Aborted ==
    \E p \in Procs :
        /\ os[p] # "unborn"
        /\ ~Referenced(p)
        /\ waitThread[p] # "joined" \/ readerThread[p] # "joined"

\* A thread that may begin an operation: an exception that left an operation
\* died in the future of the background task, whose slot is free again.
Free(t) == t \in Callers /\ pc[t] \in {"idle", "threw"}

\* Where a call goes on when it has w left to start.
AfterStop(w) == IF w = {} THEN "idle" ELSE "check"

-----------------------------------------------------------------------------
\* start(entry), called for one entry or in turn for all of them.

CallStart(t, ns) ==
    /\ Free(t)
    /\ pc' = [pc EXCEPT ![t] = "check"]
    /\ work' = [work EXCEPT ![t] = ns]
    /\ UNCHANGED <<procs, mutex, restartMutex, futures, childVars, objectVars,
                   entry, seen, cur, todo, toStop, abandoned>>

\* "Process is already running": this entry is done with.
RefuseStart(t, n) ==
    /\ pc[t] = "check" /\ n \in work[t]
    /\ mutex = NoThread
    /\ RunsAs(n)
    /\ work' = [work EXCEPT ![t] = @ \ {n}]
    /\ pc' = [pc EXCEPT ![t] = AfterStop(work'[t])]
    /\ UNCHANGED <<procs, mutex, restartMutex, futures, childVars, objectVars,
                   entry, seen, cur, todo, toStop, abandoned>>

\* Mistake: start no longer checks that the entry is not running.
AcceptUnchecked(t, n) ==
    /\ pc[t] = "check" /\ n \in work[t]
    /\ mutex = NoThread
    /\ work' = [work EXCEPT ![t] = @ \ {n}]
    /\ entry' = [entry EXCEPT ![t] = n]
    /\ seen' = [seen EXCEPT ![t] = procs[n]]
    /\ pc' = [pc EXCEPT ![t] = "fork"]
    /\ UNCHANGED <<procs, mutex, restartMutex, futures, childVars, objectVars,
                   cur, todo, toStop, abandoned>>

\* Not running as far as procs_ knows; mutex_ is released again.
AcceptStart(t, n) ==
    /\ pc[t] = "check" /\ n \in work[t]
    /\ mutex = NoThread
    /\ ~RunsAs(n)
    /\ work' = [work EXCEPT ![t] = @ \ {n}]
    /\ entry' = [entry EXCEPT ![t] = n]
    /\ seen' = [seen EXCEPT ![t] = procs[n]]
    /\ pc' = [pc EXCEPT ![t] = "fork"]
    /\ UNCHANGED <<procs, mutex, restartMutex, futures, childVars, objectVars,
                   cur, todo, toStop, abandoned>>

\* fork, construction of the object and of its two threads.
Fork(t, p) ==
    /\ pc[t] = "fork"
    /\ os[p] = "unborn"
    /\ os' = [os EXCEPT ![p] = "alive"]
    /\ held' = [held EXCEPT ![p] = TRUE]
    /\ name' = [name EXCEPT ![p] = entry[t]]
    /\ state' = [state EXCEPT ![p] = "Running"]
    /\ waiter' = [waiter EXCEPT ![p] = "waitpid"]
    /\ reader' = [reader EXCEPT ![p] = "reading"]
    /\ waitThread' = [waitThread EXCEPT ![p] = "joinable"]
    /\ readerThread' = [readerThread EXCEPT ![p] = "joinable"]
    /\ cur' = [cur EXCEPT ![t] = p]
    /\ pc' = [pc EXCEPT ![t] = "publish"]
    /\ UNCHANGED <<procs, mutex, restartMutex, futures, exit, shuttingDown,
                   work, entry, seen, todo, toStop, abandoned>>

\* pipe2 or fork failed: start returns false and leaves nothing behind.
ForkFails(t) ==
    /\ pc[t] = "fork"
    /\ entry' = [entry EXCEPT ![t] = NoName]
    /\ seen' = [seen EXCEPT ![t] = NoProc]
    /\ pc' = [pc EXCEPT ![t] = AfterStop(work[t])]
    /\ UNCHANGED <<procs, mutex, restartMutex, futures, childVars, objectVars,
                   work, cur, todo, toStop, abandoned>>

\* procs_[name] = proc: whatever was registered under the name is dropped.
Publish(t) ==
    /\ pc[t] = "publish"
    /\ mutex = NoThread
    /\ procs' = [procs EXCEPT ![entry[t]] = cur[t]]
    /\ entry' = [entry EXCEPT ![t] = NoName]
    /\ seen' = [seen EXCEPT ![t] = NoProc]
    /\ cur' = [cur EXCEPT ![t] = NoProc]
    /\ pc' = [pc EXCEPT ![t] = AfterStop(work[t])]
    /\ UNCHANGED <<mutex, restartMutex, futures, childVars, objectVars,
                   work, todo, toStop, abandoned>>

-----------------------------------------------------------------------------
\* stop(name), restart(name) and stopAll().  They share the sequence mark,
\* SIGINT, wait, SIGKILL, join: stop runs it for one object without mutex_,
\* stopAll marks every object of procs_ while it holds mutex_.

\* stop(name) has nothing to start afterwards, restart(name) has name.
BeginStop(t, n, w) ==
    /\ Free(t)
    /\ entry' = [entry EXCEPT ![t] = n]
    /\ work' = [work EXCEPT ![t] = w]
    /\ pc' = [pc EXCEPT ![t] = "find"]
    /\ UNCHANGED <<procs, mutex, restartMutex, futures, childVars, objectVars,
                   seen, cur, todo, toStop, abandoned>>

CallStop(t, n) == BeginStop(t, n, {})

CallRestart(t, n) == BeginStop(t, n, {n})

\* procs_.find(name): an unknown name ends the operation, restart's too.  (A
\* name never leaves procs_, so restart's own lookup and that of the stop it
\* calls are one.)
FindAbsent(t) ==
    /\ pc[t] = "find"
    /\ mutex = NoThread
    /\ procs[entry[t]] = NoProc
    /\ entry' = [entry EXCEPT ![t] = NoName]
    /\ work' = [work EXCEPT ![t] = {}]
    /\ pc' = [pc EXCEPT ![t] = "idle"]
    /\ UNCHANGED <<procs, mutex, restartMutex, futures, childVars, objectVars,
                   seen, cur, todo, toStop, abandoned>>

FindPresent(t) ==
    /\ pc[t] = "find"
    /\ mutex = NoThread
    /\ procs[entry[t]] # NoProc
    /\ todo' = [todo EXCEPT ![t] = {procs[entry[t]]}]
    /\ entry' = [entry EXCEPT ![t] = NoName]
    /\ pc' = [pc EXCEPT ![t] = "scan"]
    /\ UNCHANGED <<procs, mutex, restartMutex, futures, childVars, objectVars,
                   work, seen, cur, toStop, abandoned>>

CallStopAll(t) ==
    /\ Free(t)
    /\ mutex = NoThread
    /\ mutex' = t
    /\ todo' = [todo EXCEPT ![t] = Range(procs) \ {NoProc}]
    /\ pc' = [pc EXCEPT ![t] = "scan"]
    /\ UNCHANGED <<procs, restartMutex, futures, childVars, objectVars,
                   work, entry, seen, cur, toStop, abandoned>>

\* if (!proc->active) ...: an inactive object is left alone, threads and all.
ScanInactive(t, p) ==
    /\ pc[t] = "scan" /\ p \in todo[t]
    /\ ~Active(p)
    /\ todo' = [todo EXCEPT ![t] = @ \ {p}]
    /\ UNCHANGED <<procs, mutex, restartMutex, futures, childVars, objectVars,
                   pc, work, entry, seen, cur, toStop, abandoned>>

ScanActive(t, p) ==
    /\ pc[t] = "scan" /\ p \in todo[t]
    /\ Active(p)
    /\ todo' = [todo EXCEPT ![t] = @ \ {p}]
    /\ toStop' = [toStop EXCEPT ![t] = @ \union {p}]
    /\ cur' = [cur EXCEPT ![t] = p]
    /\ pc' = [pc EXCEPT ![t] = "markShutdown"]
    /\ UNCHANGED <<procs, mutex, restartMutex, futures, childVars, objectVars,
                   work, entry, seen, abandoned>>

MarkShutdown(t) ==
    /\ pc[t] = "markShutdown"
    /\ shuttingDown' = [shuttingDown EXCEPT ![cur[t]] = TRUE]
    /\ pc' = [pc EXCEPT ![t] = "markStopping"]
    /\ UNCHANGED <<procs, mutex, restartMutex, futures, childVars, name, state,
                   waiter, reader, waitThread, readerThread,
                   work, entry, seen, cur, todo, toStop, abandoned>>

\* state = Stopping, then SIGINT to the process group.
MarkStopping(t) ==
    /\ pc[t] = "markStopping"
    /\ state' = [state EXCEPT ![cur[t]] = "Stopping"]
    /\ cur' = [cur EXCEPT ![t] = NoProc]
    /\ pc' = [pc EXCEPT ![t] = "scan"]
    /\ UNCHANGED <<procs, mutex, restartMutex, futures, childVars, name,
                   shuttingDown, waiter, reader, waitThread, readerThread,
                   work, entry, seen, todo, toStop, abandoned>>

\* Everything is marked; the deadline may pass at any moment from here on.
EndScan(t) ==
    /\ pc[t] = "scan" /\ todo[t] = {}
    /\ mutex' = IF mutex = t THEN NoThread ELSE mutex
    /\ todo' = [todo EXCEPT ![t] = toStop[t]]
    /\ pc' = [pc EXCEPT ![t] = "kill"]
    /\ UNCHANGED <<procs, restartMutex, futures, childVars, objectVars,
                   work, entry, seen, cur, toStop, abandoned>>

\* Mistake: no SIGKILL after the deadline.
KillNobody(t, p) ==
    /\ pc[t] = "kill" /\ p \in todo[t]
    /\ todo' = [todo EXCEPT ![t] = @ \ {p}]
    /\ UNCHANGED <<procs, mutex, restartMutex, futures, childVars, objectVars,
                   pc, work, entry, seen, cur, toStop, abandoned>>

\* SIGKILL to the group of an object that is still active after the deadline;
\* it reaches the child only while there is one.
Kill(t, p) ==
    /\ pc[t] = "kill" /\ p \in todo[t]
    /\ os' = IF Active(p) /\ os[p] = "alive" THEN [os EXCEPT ![p] = "killed"] ELSE os
    /\ todo' = [todo EXCEPT ![t] = @ \ {p}]
    /\ UNCHANGED <<procs, mutex, restartMutex, futures, exit, held, objectVars,
                   pc, work, entry, seen, cur, toStop, abandoned>>

\* Mistake: nothing is joined.
JoinNobody(t) ==
    /\ pc[t] = "kill" /\ todo[t] = {}
    /\ pc' = [pc EXCEPT ![t] = "join"]
    /\ UNCHANGED <<procs, mutex, restartMutex, futures, childVars, objectVars,
                   work, entry, seen, cur, todo, toStop, abandoned>>

EndKill(t) ==
    /\ pc[t] = "kill" /\ todo[t] = {}
    /\ todo' = [todo EXCEPT ![t] = toStop[t]]
    /\ pc' = [pc EXCEPT ![t] = "join"]
    /\ UNCHANGED <<procs, mutex, restartMutex, futures, childVars, objectVars,
                   work, entry, seen, cur, toStop, abandoned>>

\* if (joinable()) join(), for the wait thread ...
JoinWaitThread(t, p) ==
    /\ pc[t] = "join" /\ p \in todo[t]
    /\ \/ /\ waitThread[p] = "joinable"
          /\ waitThread' = [waitThread EXCEPT ![p] = "joining"]
          /\ pc' = [pc EXCEPT ![t] = "joinWait"]
       \/ /\ waitThread[p] = "joined"
          /\ pc' = [pc EXCEPT ![t] = "joinReader"]
          /\ UNCHANGED waitThread
    /\ todo' = [todo EXCEPT ![t] = @ \ {p}]
    /\ cur' = [cur EXCEPT ![t] = p]
    /\ UNCHANGED <<procs, mutex, restartMutex, futures, childVars, name, state,
                   shuttingDown, waiter, reader, readerThread,
                   work, entry, seen, toStop, abandoned>>

\* Mistake: the wait thread is detached, not joined.
WaitThreadDetached(t) ==
    /\ pc[t] = "joinWait"
    /\ waitThread' = [waitThread EXCEPT ![cur[t]] = "joined"]
    /\ pc' = [pc EXCEPT ![t] = "joinReader"]
    /\ UNCHANGED <<procs, mutex, restartMutex, futures, childVars, name, state,
                   shuttingDown, waiter, reader, readerThread,
                   work, entry, seen, cur, todo, toStop, abandoned>>

\* Mistake: the reader thread is not joined.
ReaderForgotten(t) ==
    /\ pc[t] = "joinWait"
    /\ waiter[cur[t]] = "done"
    /\ waitThread' = [waitThread EXCEPT ![cur[t]] = "joined"]
    /\ cur' = [cur EXCEPT ![t] = NoProc]
    /\ pc' = [pc EXCEPT ![t] = "join"]
    /\ UNCHANGED <<procs, mutex, restartMutex, futures, childVars, name, state,
                   shuttingDown, waiter, reader, readerThread,
                   work, entry, seen, todo, toStop, abandoned>>

WaitThreadJoined(t) ==
    /\ pc[t] = "joinWait"
    /\ waiter[cur[t]] = "done"
    /\ waitThread' = [waitThread EXCEPT ![cur[t]] = "joined"]
    /\ pc' = [pc EXCEPT ![t] = "joinReader"]
    /\ UNCHANGED <<procs, mutex, restartMutex, futures, childVars, name, state,
                   shuttingDown, waiter, reader, readerThread,
                   work, entry, seen, cur, todo, toStop, abandoned>>

\* ... and for the reader thread.
JoinReader(t) ==
    /\ pc[t] = "joinReader"
    /\ \/ /\ readerThread[cur[t]] = "joinable"
          /\ readerThread' = [readerThread EXCEPT ![cur[t]] = "joining"]
          /\ pc' = [pc EXCEPT ![t] = "inReader"]
          /\ UNCHANGED cur
       \/ /\ readerThread[cur[t]] = "joined"
          /\ pc' = [pc EXCEPT ![t] = "join"]
          /\ cur' = [cur EXCEPT ![t] = NoProc]
          /\ UNCHANGED readerThread
    /\ UNCHANGED <<procs, mutex, restartMutex, futures, childVars, name, state,
                   shuttingDown, waiter, reader, waitThread,
                   work, entry, seen, todo, toStop, abandoned>>

ReaderJoined(t) ==
    /\ pc[t] = "inReader"
    /\ reader[cur[t]] = "done"
    /\ readerThread' = [readerThread EXCEPT ![cur[t]] = "joined"]
    /\ cur' = [cur EXCEPT ![t] = NoProc]
    /\ pc' = [pc EXCEPT ![t] = "join"]
    /\ UNCHANGED <<procs, mutex, restartMutex, futures, childVars, name, state,
                   shuttingDown, waiter, reader, waitThread,
                   work, entry, seen, todo, toStop, abandoned>>

\* join() on a thread that another caller is joining is undefined; pthread_join
\* reports EINVAL and std::system_error leaves the operation, which therefore
\* joins nothing more and, in restart, starts nothing.
JoinThrows(t) ==
    /\ \/ pc[t] = "join" /\ \E p \in todo[t] : waitThread[p] = "joining"
       \/ pc[t] = "joinReader" /\ readerThread[cur[t]] = "joining"
    /\ pc' = [pc EXCEPT ![t] = "threw"]
    /\ work' = [work EXCEPT ![t] = {}]
    /\ cur' = [cur EXCEPT ![t] = NoProc]
    /\ todo' = [todo EXCEPT ![t] = {}]
    /\ toStop' = [toStop EXCEPT ![t] = {}]
    /\ abandoned' = abandoned \union toStop[t]
    /\ UNCHANGED <<procs, mutex, restartMutex, futures, childVars, objectVars, entry, seen>>

\* stop and stopAll return; restart goes on to start.
EndStop(t) ==
    /\ pc[t] = "join" /\ todo[t] = {}
    /\ toStop' = [toStop EXCEPT ![t] = {}]
    /\ pc' = [pc EXCEPT ![t] = AfterStop(work[t])]
    /\ UNCHANGED <<procs, mutex, restartMutex, futures, childVars, objectVars,
                   work, entry, seen, cur, todo, abandoned>>

-----------------------------------------------------------------------------
\* The child: it may exit whenever it likes, and dies of a SIGKILL.

ChildExits(p, e) ==
    /\ \/ os[p] = "alive"
       \/ os[p] = "killed" /\ e = "failure"
    /\ os' = [os EXCEPT ![p] = "zombie"]
    /\ exit' = [exit EXCEPT ![p] = e]
    /\ UNCHANGED <<procs, mutex, restartMutex, futures, held, objectVars, localVars,
                   abandoned>>

\* The last write end of the pipe is closed.  Nobody owes it: a descendant of the
\* child may keep one for as long as it lives, and it may outlive the child.
LetGo(p) ==
    /\ held[p]
    /\ held' = [held EXCEPT ![p] = FALSE]
    /\ UNCHANGED <<procs, mutex, restartMutex, futures, os, exit, objectVars, localVars,
                   abandoned>>

\* The reader thread leaves its loop at the end of file, or where a line has
\* brought it back to while (active) and the child has been reaped; inside read()
\* it waits for the one or the other.  Last line under mutex_, close.
ReaderEnds(p) ==
    /\ reader[p] = "reading"
    /\ ~held[p] \/ ~Active(p)
    /\ mutex = NoThread
    /\ reader' = [reader EXCEPT ![p] = "done"]
    /\ held' = [held EXCEPT ![p] = FALSE]
    /\ UNCHANGED <<procs, mutex, restartMutex, futures, os, exit, name, state, shuttingDown,
                   waiter, waitThread, readerThread, localVars, abandoned>>

\* The wait thread, one step per access to what other threads read or write.

WaitPid(p) ==
    /\ waiter[p] = "waitpid"
    /\ os[p] = "zombie"
    /\ os' = [os EXCEPT ![p] = "reaped"]
    /\ waiter' = [waiter EXCEPT ![p] = "reaped"]
    /\ UNCHANGED <<procs, mutex, restartMutex, futures, exit, held, name, state,
                   shuttingDown, reader, waitThread, readerThread, localVars,
                   abandoned>>

\* The steps that move the wait thread on and change nothing else.
WaiterGoes(p, from, to) ==
    /\ waiter[p] = from
    /\ waiter' = [waiter EXCEPT ![p] = to]
    /\ UNCHANGED <<procs, mutex, restartMutex, futures, childVars, name, state,
                   shuttingDown, reader, waitThread, readerThread, localVars,
                   abandoned>>

\* active = false.
Deactivate(p) == WaiterGoes(p, "reaped", "load")

\* state.load() == Stopping ?
LoadState(p) ==
    WaiterGoes(p, "load", IF state[p] = "Stopping" THEN "storeStopped" ELSE "storeExit")

\* Mistake: the exit code is not looked at.
CrashedAnyway(p) == IF waiter[p] = "storeExit" THEN "Crashed" ELSE "Stopped"

FinalState(p) ==
    IF waiter[p] = "storeExit" /\ exit[p] = "failure" THEN "Crashed" ELSE "Stopped"

StoreState(p) ==
    /\ waiter[p] \in {"storeStopped", "storeExit"}
    /\ state' = [state EXCEPT ![p] = FinalState(p)]
    /\ waiter' = [waiter EXCEPT ![p] = "decide"]
    /\ UNCHANGED <<procs, mutex, restartMutex, futures, childVars, name,
                   shuttingDown, reader, waitThread, readerThread, localVars,
                   abandoned>>

\* Mistake: shutting_down is not looked at.
ShutdownIgnored(p) == WaiterGoes(p, "decide", "policy")

\* if (!shutting_down) ...
ReadShutdown(p) == WaiterGoes(p, "decide", IF shuttingDown[p] THEN "done" ELSE "policy")

\* Mistake: "on-failure" restarts whatever the exit code.
RestartAnyExit(p) == Policy[name[p]] \in {"always", "on-failure"}

\* Mistake: "on-failure" never restarts.
RestartAlwaysOnly(p) == Policy[name[p]] = "always"

\* should_restart, from the state as it is now.
ShouldRestart(p) ==
    \/ Policy[name[p]] = "always"
    \/ Policy[name[p]] = "on-failure" /\ state[p] = "Crashed"

ApplyPolicy(p) == WaiterGoes(p, "policy", IF ShouldRestart(p) THEN "push" ELSE "done")

\* Under restart_mutex_: drop the futures that are ready, spawn the restart.
PushRestart(p) ==
    /\ waiter[p] = "push"
    /\ restartMutex = NoThread
    /\ futures' = {q \in futures : pc[q] # "idle"} \union {p}
    /\ waiter' = [waiter EXCEPT ![p] = "done"]
    /\ pc' = [pc EXCEPT ![p] = "check"]
    /\ work' = [work EXCEPT ![p] = {name[p]}]
    /\ UNCHANGED <<procs, mutex, restartMutex, childVars, name, state, shuttingDown,
                   reader, waitThread, readerThread, entry, seen, cur, todo, toStop,
                   abandoned>>

-----------------------------------------------------------------------------
Call(t) ==
    \/ \E ns \in SUBSET Names \ {{}} : CallStart(t, ns)
    \/ \E n \in Names : CallStop(t, n) \/ CallRestart(t, n)
    \/ CallStopAll(t)

\* The steps a thread takes inside an operation.
StartStep(t) ==
    \/ \E n \in Names : RefuseStart(t, n) \/ AcceptStart(t, n)
    \/ \E p \in Procs : Fork(t, p)
    \/ ForkFails(t)
    \/ Publish(t)

StopStep(t) ==
    \/ FindAbsent(t) \/ FindPresent(t)
    \/ \E p \in Procs : ScanInactive(t, p) \/ ScanActive(t, p)
    \/ MarkShutdown(t) \/ MarkStopping(t) \/ EndScan(t)
    \/ \E p \in Procs : Kill(t, p)
    \/ EndKill(t)
    \/ \E p \in Procs : JoinWaitThread(t, p)
    \/ WaitThreadJoined(t) \/ JoinReader(t) \/ ReaderJoined(t)
    \/ JoinThrows(t) \/ EndStop(t)

WaiterStep(p) ==
    \/ WaitPid(p) \/ Deactivate(p) \/ LoadState(p) \/ StoreState(p)
    \/ ReadShutdown(p) \/ ApplyPolicy(p) \/ PushRestart(p)

Steps ==
    \/ \E t \in Threads : StartStep(t) \/ StopStep(t)
    \/ \E p \in Procs :
        \/ \E e \in {"clean", "failure"} : ChildExits(p, e)
        \/ LetGo(p)
        \/ ReaderEnds(p)
        \/ WaiterStep(p)

\* The launcher process is gone; nothing of it moves any more.
Dead == Aborted /\ UNCHANGED vars

Next ==
    \/ ~Aborted /\ (Steps \/ \E t \in Callers : Call(t))
    \/ Dead

Spec == Init /\ [][Next]_vars

-----------------------------------------------------------------------------
(* Safety. *)

\* The policy of p's entry asks for a restart after an end like p's.
RestartDue(p) ==
    \/ Policy[name[p]] = "always"
    \/ Policy[name[p]] = "on-failure" /\ exit[p] = "failure"

\* A restart task exists only for a process whose policy asks for one: never
\* for "never", and for "on-failure" only when the child really failed.
RestartObeysPolicy ==
    \A p \in Procs : pc[p] # "idle" \/ p \in futures => RestartDue(p)

\* What processes() reports of a child nobody asked to stop is how it ended.
UnaskedExitReported ==
    \A p \in Procs : waiter[p] \in {"decide", "policy", "push", "done"} /\ ~shuttingDown[p] =>
        state[p] = IF exit[p] = "failure" THEN "Crashed" ELSE "Stopped"

\* shutting_down: a process marked before its wait thread has read the flag
\* never gets a restart task, then or later.
StopSuppressesRestart ==
    [][\A p \in Procs :
        shuttingDown[p] /\ waiter[p] \notin {"policy", "push"} /\ pc[p] = "idle" =>
            waiter'[p] \notin {"policy", "push"} /\ pc'[p] = "idle"]_vars

\* A stop, restart or stopAll that gets past its joins leaves every object it
\* marked with a reaped child and both threads finished.
StopEndsItsTargets ==
    [][\A t \in Callers :
        pc[t] = "join" /\ pc'[t] \in {"idle", "check"} =>
            \A p \in toStop[t] : os[p] = "reaped" /\ waiter[p] = "done" /\ reader[p] = "done"]_vars

\* A child that lives loses its place in procs_, by which stop and stopAll find
\* it, only to a start that had looked there before the child was registered: two
\* starts of one entry at a time.
LiveKeepsItsPlace ==
    [][\A n \in Names, p \in Procs :
        procs[n] = p /\ Alive(p) /\ procs'[n] # p =>
            \E t \in Threads : pc[t] = "publish" /\ entry[t] = n /\ seen[t] # p]_vars

\* A child that was asked to stop is dead or killed, or the call that asked has yet
\* to look whether it must kill it: no overlapping call, and no call that threw,
\* leaves one alive that ignored SIGINT.
AskedAreStopped ==
    \A p \in Procs : shuttingDown[p] /\ os[p] = "alive" =>
        \E t \in Threads :
            /\ p \in toStop[t]
            /\ pc[t] \in ScanSteps \/ (pc[t] = "kill" /\ p \in todo[t])

\* An object that was stopped on request is destroyed with both its threads
\* joined, unless a call that had it in hand threw: dropping it cannot terminate
\* the launcher.
StoppedIsJoined ==
    \A p \in Procs : shuttingDown[p] /\ ~Referenced(p) =>
        \/ waitThread[p] = "joined" /\ readerThread[p] = "joined"
        \/ p \in abandoned

\* How far a child's life has come, as its wait thread sees it.
LifeOf(p) ==
    CASE waiter[p] = "none" -> "unborn"
      [] waiter[p] = "waitpid" /\ os[p] # "zombie" -> "running"
      [] waiter[p] \in {"policy", "push"} /\ RestartDue(p) -> "due"
      [] \/ waiter[p] = "done"
         \/ waiter[p] \in {"policy", "push"} /\ ~RestartDue(p) -> "settled"
      [] OTHER -> "ended"

Life == [p \in Procs |-> LifeOf(p)]

Tasks == [p \in Procs |-> pc[p] # "idle"]

Promise == INSTANCE Supervision WITH
    life <- Life,
    entry <- name,
    outcome <- exit,
    asked <- shuttingDown,
    task <- Tasks

\* Every child is supervised as promised: one end leads to at most one restart,
\* by policy, and to none once the child was asked to stop before its wait
\* thread read shutting_down; whatever other threads do meanwhile.
Supervised == Promise!Spec

(* The inductive strengthening of the safety properties, in named parts. *)

\* The wait and reader threads and the child they look after move together,
\* and what is registered or used was forked.
ChildInv ==
    \A p \in Procs :
        /\ waiter[p] = "none" <=> os[p] = "unborn"
        /\ waiter[p] = "waitpid" => os[p] \in {"alive", "killed", "zombie"}
        /\ waiter[p] \notin {"none", "waitpid"} => os[p] = "reaped"
        /\ waiter[p] # "none" => name[p] \in Names
        /\ reader[p] = "none" <=> os[p] = "unborn"
        /\ held[p] => reader[p] = "reading"

\* A std::thread is joined only after it has finished.
HandleInv ==
    \A p \in Procs :
        /\ waitThread[p] = "joined" => waiter[p] = "done"
        /\ readerThread[p] = "joined" => reader[p] = "done"

\* The state the wait thread stores, and the restarts it decides on.
RestartInv ==
    \A p \in Procs :
        /\ state[p] = "Crashed" => exit[p] = "failure" /\ os[p] \in {"zombie", "reaped"}
        /\ waiter[p] \in {"none", "waitpid", "reaped", "load", "storeExit"} /\ ~shuttingDown[p] =>
              state[p] # "Stopping"
        /\ waiter[p] = "storeStopped" => shuttingDown[p]
        /\ waiter[p] # "done" => pc[p] = "idle" /\ p \notin futures
        /\ waiter[p] = "push" \/ pc[p] # "idle" \/ p \in futures => RestartDue(p)

\* What a thread has at hand at each position.
ThreadInv ==
    \A t \in Threads :
        /\ t \in Procs => pc[t] \in {"idle", "check", "fork", "publish"}
        /\ pc[t] \in {"fork", "publish", "find"} => entry[t] \in Names
        /\ pc[t] = "publish" =>
              cur[t] \in Procs /\ os[cur[t]] # "unborn" /\ name[cur[t]] = entry[t]
        /\ pc[t] \in {"markShutdown", "markStopping", "joinWait", "joinReader", "inReader"} =>
              cur[t] \in toStop[t]
        /\ pc[t] \in {"idle", "threw", "check", "fork", "find", "scan", "kill", "join"} =>
              cur[t] = NoProc
        /\ pc[t] \in {"fork", "publish"} /\ seen[t] # NoProc =>
              os[seen[t]] # "unborn" /\ ~Active(seen[t])
        /\ pc[t] = "markStopping" => shuttingDown[cur[t]]
        /\ pc[t] \notin StopSteps => toStop[t] = {}
        /\ pc[t] \in StopSteps \ ScanSteps => todo[t] \subseteq toStop[t]
        /\ \A p \in todo[t] \union toStop[t] : os[p] # "unborn"

\* The objects whose turn in the final loop is over are joined.
JoinInv ==
    \A t \in Threads :
        /\ pc[t] \in {"join", "joinWait", "joinReader", "inReader"} =>
              \A p \in toStop[t] \ (todo[t] \union {cur[t]}) :
                  waitThread[p] = "joined" /\ readerThread[p] = "joined"
        /\ pc[t] \in {"joinReader", "inReader"} => waitThread[cur[t]] = "joined"

\* procs_ keeps an object under its own name; only a scanning stopAll holds
\* mutex_ across steps.
MapInv ==
    /\ \A n \in Names : procs[n] # NoProc => os[procs[n]] # "unborn" /\ name[procs[n]] = n
    /\ mutex # NoThread => pc[mutex] \in ScanSteps

IInv ==
    /\ TypeOK
    /\ ChildInv
    /\ HandleInv
    /\ RestartInv
    /\ UnaskedExitReported
    /\ ThreadInv
    /\ JoinInv
    /\ MapInv
=============================================================================
