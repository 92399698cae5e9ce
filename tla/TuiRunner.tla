------------------------------ MODULE TuiRunner ------------------------------
(***************************************************************************)
(* TuiRunner (app/screens/tui_runner.cpp) as runTui (app/main.cpp) uses    *)
(* it, with the screens it runs: the event loop on the main thread, which  *)
(* hands keys to the tab on display and draws it, the tick thread, which   *)
(* ticks that tab, and the handler of SIGINT and SIGTERM, which asks the   *)
(* loop to end.  Of the five screens, the launch screen, the log screen    *)
(* and the node screen are here: they share the inspector and the widgets. *)
(*                                                                         *)
(* Abstractions.  What the user, the graph, the machine and the processes  *)
(* do is one of a set of scenarios.  Quitting starts in the loop; the rest *)
(* of runTui is in module Launcher.  A handler that finds the screen just  *)
(* as run returns calls Exit on an object that is gone: taken to have no   *)
(* effect.  Handlers that FTXUI has of its own for the same signals while  *)
(* its loop runs end the loop as Exit does, and are not told apart from    *)
(* the program's.  No tick and no frame throws.                            *)
(***************************************************************************)
EXTENDS LaunchScreen, LogScreen, NodeScreen

CONSTANTS
    Scenarios,       \* what may happen, and how often: see TuiInit
    TerminalHeights  \* rows the terminal may have

ASSUME RunnerAssumption ==
    /\ TerminalHeights \subseteq Nat
    /\ \A s \in Scenarios : s.rows \in TerminalHeights

\* The tabs, from 0, with their hotkeys and the number keys.
LaunchTab == 0
LogTab == 1
NodeTab == 2
TabCount == 3
TabOf == [L |-> LaunchTab, G |-> LogTab, N |-> NodeTab]
NumberOf == [k \in {"1", "2", "3"} |-> CASE k = "1" -> 0 [] k = "2" -> 1 [] k = "3" -> 2]

VARIABLES
    main,      \* position of the main thread in runTui and run
    up,        \* running_
    leavable,  \* active_screen_ is set
    exiting,   \* Exit of the screen has been called, and the loop will see it
    tab,       \* selected_tab
    ticker,    \* the tick thread: none yet, on or ended
    handler,   \* position of the signal handler
    rows,      \* height of the terminal
    left       \* what is left of the scenario

runnerVars == <<main, up, leavable, exiting, tab, ticker, handler>>
vars == <<launchVars, monitorVars, logVars, nodeVars, inspectorVars, runnerVars, rows, left>>

TuiInit ==
    /\ LaunchInit /\ LogInit /\ NodeInit
    /\ main = "begin" /\ up = FALSE /\ leavable = FALSE /\ exiting = FALSE
    /\ tab = LaunchTab /\ ticker = "none"
    /\ handler = "none"
    /\ left \in Scenarios
    /\ rows = left.rows
    /\ InspectorInit(left.graph)
    /\ MonitorInit(left.gpu)

Spend(what) == left[what] > 0 /\ left' = [left EXCEPT ![what] = @ - 1]

SpendFirst(what) == left[what] # <<>> /\ left' = [left EXCEPT ![what] = Tail(@)]

-----------------------------------------------------------------------------
(* The main thread: runTui from the construction of the runner, and run. *)

GoTo(from, to) == main = from /\ main' = to

PublishRunner ==
    /\ GoTo("begin", "published")
    /\ UNCHANGED <<up, leavable, exiting, ticker>>

InstallHandler ==
    /\ GoTo("published", "handled")
    /\ UNCHANGED <<up, leavable, exiting, ticker>>

BeginRun ==
    /\ GoTo("handled", "running")
    /\ up' = TRUE
    /\ UNCHANGED <<leavable, exiting, ticker>>

SetActiveScreen ==
    /\ GoTo("running", "active")
    /\ leavable' = TRUE
    /\ UNCHANGED <<up, exiting, ticker>>

StartTickThread ==
    /\ GoTo("active", "started")
    /\ ticker' = "on"
    /\ UNCHANGED <<up, leavable, exiting>>

\* External: Loop makes the queue of tasks, without which Exit, a task like any
\* other, is dropped, and forgets what was asked of the screen before.
InstallLoop ==
    /\ GoTo("started", "loop")
    /\ exiting' = FALSE
    /\ UNCHANGED <<up, leavable, ticker>>

\* Exit reaches the loop.
Listening == leavable /\ main = "loop"

\* The loop is about to take the next event.
LoopFree == main = "loop" /\ ~Refreshing(Looper)

LoopEnds ==
    /\ LoopFree /\ exiting
    /\ GoTo("loop", "ended")
    /\ up' = FALSE
    /\ UNCHANGED <<leavable, exiting, ticker>>

ForgetScreen ==
    /\ GoTo("ended", "join")
    /\ leavable' = FALSE
    /\ UNCHANGED <<up, exiting, ticker>>

\* Mistake: the tick thread is detached.
DetachTickThread ==
    /\ GoTo("join", "joined")
    /\ UNCHANGED <<up, leavable, exiting, ticker>>

JoinTickThread ==
    /\ GoTo("join", "joined")
    /\ ticker = "ended"
    /\ UNCHANGED <<up, leavable, exiting, ticker>>

ForgetRunner ==
    /\ GoTo("joined", "over")
    /\ UNCHANGED <<up, leavable, exiting, ticker>>

MainStep ==
    /\ \/ PublishRunner \/ InstallHandler \/ BeginRun \/ SetActiveScreen \/ StartTickThread
       \/ InstallLoop \/ LoopEnds \/ ForgetScreen \/ JoinTickThread \/ ForgetRunner
    /\ UNCHANGED <<launchVars, monitorVars, logVars, nodeVars, inspectorVars,
                   tab, handler, rows, left>>

-----------------------------------------------------------------------------
(* The signal handler, once there is one: requestStop of a published runner. *)

Signal ==
    /\ handler = "none"
    /\ main \notin {"begin", "published", "over"}
    /\ Spend("signals")
    /\ handler' = "stop"
    /\ UNCHANGED <<main, up, leavable, exiting, tab, ticker>>

StopTicking ==
    /\ handler = "stop"
    /\ up' = FALSE
    /\ handler' = "leave"
    /\ UNCHANGED <<main, leavable, exiting, tab, ticker, left>>

\* Mistake: the loop is left to notice by itself.
LeaveUnasked ==
    /\ handler = "leave"
    /\ handler' = "none"
    /\ UNCHANGED <<main, up, leavable, exiting, tab, ticker, left>>

LeaveScreen ==
    /\ handler = "leave"
    /\ exiting' = (exiting \/ Listening)
    /\ handler' = "none"
    /\ UNCHANGED <<main, up, leavable, tab, ticker, left>>

HandlerStep ==
    /\ Signal \/ StopTicking \/ LeaveScreen
    /\ UNCHANGED <<launchVars, monitorVars, logVars, nodeVars, inspectorVars, rows>>

-----------------------------------------------------------------------------
(* The tick thread *)

Ticking == sysTick.at # "idle" \/ logTick.at # "idle" \/ nodeTick.at # "idle"

\* selected_tab is read while the loop may write it: either value is read.
BeginTick ==
    /\ ticker = "on" /\ ~Ticking /\ up
    /\ \/ tab = LaunchTab /\ BeginSysTick /\ UNCHANGED <<logVars, nodeVars>>
       \/ tab = LogTab /\ BeginLogTick /\ UNCHANGED <<monitorVars, nodeVars>>
       \/ tab = NodeTab /\ BeginNodeTick /\ UNCHANGED <<monitorVars, logVars>>
    /\ UNCHANGED <<launchVars, inspectorVars, ticker>>

TickStep ==
    /\ \/ SysTickStep /\ UNCHANGED <<logVars, nodeVars, inspectorVars>>
       \/ LogTickStep /\ UNCHANGED <<monitorVars, nodeVars>>
       \/ NodeTickStep /\ UNCHANGED <<monitorVars, logVars>>
       \/ RefreshStep(Ticker) /\ UNCHANGED <<monitorVars, logVars, nodeVars>>
    /\ UNCHANGED <<launchVars, ticker>>

\* Between two ticks: a frame is posted, a while is slept, running_ is read.
EndTicking ==
    /\ ticker = "on" /\ ~Ticking /\ ~up
    /\ ticker' = "ended"
    /\ UNCHANGED <<launchVars, monitorVars, logVars, nodeVars, inspectorVars>>

TickThread ==
    /\ BeginTick \/ TickStep \/ EndTicking
    /\ UNCHANGED <<main, up, leavable, exiting, tab, handler, rows, left>>

-----------------------------------------------------------------------------
(* The event loop *)

InputActive == tab = LogTab /\ LogInputActive

SwitchTab(key) ==
    /\ tab' = CASE key = "tab"          -> (tab + 1) % TabCount
                [] key = "backtab"      -> (tab - 1 + TabCount) % TabCount
                [] key \in DOMAIN TabOf -> TabOf[key]
                [] OTHER                -> NumberOf[key]
    /\ UNCHANGED <<launchVars, monitorVars, logVars, nodeVars, inspectorVars, up, exiting>>

QuitKey ==
    /\ up' = FALSE
    /\ exiting' = TRUE
    /\ UNCHANGED <<launchVars, monitorVars, logVars, nodeVars, inspectorVars, tab>>

Forward(key) ==
    /\ \/ /\ tab = LaunchTab /\ LaunchKey(key)
          /\ UNCHANGED <<logVars, nodeVars, inspectorVars>>
       \/ /\ tab = LogTab /\ LogKey(key)
          /\ UNCHANGED <<launchVars, nodeVars, inspectorVars>>
       \/ /\ tab = NodeTab /\ NodeKey(key)
          /\ UNCHANGED <<launchVars, logVars>>
    /\ UNCHANGED <<monitorVars, up, exiting, tab>>

Switches == {"tab", "backtab"} \union DOMAIN TabOf \union DOMAIN NumberOf

Press(key) ==
    /\ LoopFree
    /\ \/ InputActive /\ Forward(key)
       \/ ~InputActive /\ key \in Switches /\ SwitchTab(key)
       \/ ~InputActive /\ key = "q" /\ QuitKey
       \/ ~InputActive /\ key \notin Switches \union {"q"} /\ Forward(key)
    /\ UNCHANGED <<main, leavable, ticker, handler, rows>>

\* The next key of the scenario.
TypeKey ==
    /\ SpendFirst("keys")
    /\ \E key \in Head(left.keys) : Press(key)

Draw ==
    /\ LoopFree
    /\ \/ tab = LaunchTab /\ DrawLaunch(rows) /\ UNCHANGED <<logVars, nodeVars>>
       \/ tab = LogTab /\ DrawLogs(rows) /\ UNCHANGED <<launchVars, nodeVars>>
       \/ tab = NodeTab /\ DrawNodes(rows) /\ UNCHANGED <<launchVars, logVars>>
    /\ UNCHANGED <<monitorVars, inspectorVars, runnerVars, rows, left>>

\* The refresh that key r of the node screen began goes on.
RefreshOnLoop ==
    /\ RefreshStep(Looper)
    /\ UNCHANGED <<launchVars, monitorVars, logVars, nodeVars, runnerVars, rows, left>>

-----------------------------------------------------------------------------
(* What goes on around the program, while the loop runs *)

Machine ==
    /\ main = "loop"
    /\ \/ Spend("starts") /\ \E p \in Pids, parent \in Pids \union {0} : Start(p, parent)
       \/ Spend("work") /\ \E p \in Pids : Work(p)
       \/ Spend("exits") /\ \E p \in Pids : Exit(p)
    /\ UNCHANGED <<launchVars, logVars, nodeVars, inspectorVars, runnerVars, rows>>

NextLine ==
    /\ main = "loop"
    /\ SpendFirst("lines")
    /\ \E line \in Head(left.lines) : PushLine(line)
    /\ UNCHANGED <<launchVars, monitorVars, nodeVars, inspectorVars, runnerVars, rows>>

Graph ==
    /\ main = "loop"
    /\ Spend("changes")
    /\ \E n \in Nodes : GraphChanges(n)
    /\ UNCHANGED <<launchVars, monitorVars, logVars, nodeVars, runnerVars, rows>>

Resize ==
    /\ main = "loop"
    /\ Spend("resizes")
    /\ rows' \in TerminalHeights \ {rows}
    /\ UNCHANGED <<launchVars, monitorVars, logVars, nodeVars, inspectorVars, runnerVars>>

\* Time passes, and ProcessManager learns of the end of its children.
Notice ==
    /\ \E p \in Pids : NoticeExit(p)
    /\ UNCHANGED <<launchVars, logVars, nodeVars, inspectorVars, runnerVars, rows, left>>

ProcInterval ==
    /\ ProcIntervalPasses
    /\ UNCHANGED <<launchVars, logVars, nodeVars, inspectorVars, runnerVars, rows, left>>

GpuInterval ==
    /\ GpuIntervalPasses
    /\ UNCHANGED <<launchVars, logVars, nodeVars, inspectorVars, runnerVars, rows, left>>

GraphInterval ==
    /\ IntervalPasses
    /\ UNCHANGED <<launchVars, monitorVars, logVars, nodeVars, runnerVars, rows, left>>

TuiNext ==
    \/ MainStep \/ HandlerStep \/ TickThread
    \/ TypeKey \/ Draw \/ RefreshOnLoop
    \/ Machine \/ NextLine \/ Graph \/ Resize
    \/ Notice \/ ProcInterval \/ GpuInterval \/ GraphInterval

\* The threads run, a handler that runs returns, time passes; nobody is bound
\* to type a key, to send a signal or to log a line.
TuiFairness ==
    /\ WF_vars(MainStep) /\ WF_vars(TickThread) /\ WF_vars(RefreshOnLoop)
    /\ WF_vars(HandlerStep /\ handler # "none")
    /\ WF_vars(Notice) /\ WF_vars(ProcInterval)
    /\ WF_vars(GpuInterval) /\ WF_vars(GraphInterval)

TuiSpec == TuiInit /\ [][TuiNext]_vars /\ TuiFairness

-----------------------------------------------------------------------------
(* Properties *)

\* A list's first row is never below the selected one.
RowsBehindSelection ==
    launchList.offset <= launchList.selected /\ nodeList.offset <= nodeList.selected

\* One screen is ticked at a time, by a tick thread that runs, and its refreshes
\* of the nodes are part of a tick.
OneTick ==
    /\ sysTick.at = "idle" \/ (logTick.at = "idle" /\ nodeTick.at = "idle")
    /\ logTick.at = "idle" \/ nodeTick.at = "idle"
    /\ Ticking => ticker = "on"
    /\ Refreshing(Ticker) => logTick.at = "names" \/ nodeTick.at = "nodes"

\* Once the tick thread is joined nothing is under way: the screens, and what
\* they refer to, may be destroyed.
QuietOnceJoined ==
    main \in {"joined", "over"} => ~Ticking /\ ~(\E t \in Threads : Refreshing(t)) /\ ~up

\* The structure of the runner's state: one tick at a time, of which nothing is
\* left when run returns, and lists whose rows start at or above their selection.
TuiInv == RowsBehindSelection /\ OneTick /\ QuietOnceJoined

\* Once the loop listens, whoever asks for the end gets it: a signal, or the key q,
\* even if the tick thread is in the middle of a slow refresh.  A signal that comes
\* before may be lost.
StopHonoured ==
    (exiting \/ (handler = "stop" /\ Listening)) ~> main = "over"

\* Key r of the node screen does not freeze the terminal: nodes that do not
\* answer are given up.
RefreshReturns == Refreshing(Looper) ~> ~Refreshing(Looper)

\* A tab stays on display while the tick thread runs.
Watching(t) == main = "loop" /\ up /\ tab = t

\* The screens on display show, in the end, what there is to be shown.
LogsCatchUp == <>[]Watching(LogTab) => <>[]LogsShown

NodesCatchUp == <>[]Watching(NodeTab) => <>[]NodesShown

FiguresCatchUp == <>[]Watching(LaunchTab) => <>[]FiguresShown

\* While the terminal keeps its height, the rows on display follow the selected
\* one, however the list grows, shrinks or is walked.
SightKept ==
    [][\A pair \in {<<launchList, launchList'>>, <<nodeList, nodeList'>>} :
          /\ pair[1].height = pair[2].height
          /\ InSight(pair[1])
          /\ pair[2].selected < pair[2].count
          => InSight(pair[2])]_vars
=============================================================================
