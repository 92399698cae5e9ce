# A verification development of ros2-tui-launcher

TLA+ models of the launcher's concurrent core, TLC configurations that check
them on small instances, and TLAPS proofs about them. Paths are relative to the
repository's root.

## 1. The system

One process, `rtl` (`app/main.cpp`), shows a full-screen terminal interface to a
ROS 2 system and runs the launch entries of a profile as child processes. Its
threads: the *main* (terminal) thread, which runs `runTui` and handles keys; the
*tick* thread of `TuiRunner`, which refreshes the active screen 30 times a second;
the *spin* thread, which runs every ROS callback; per child a *reader* (with a
nested one for stderr) and a *wait* thread; one `std::async` task per automatic
restart and per operation the user asks of the launch screen; the poll thread of
`TopicMonitor`; one flush thread per `LogWriter`.

| component | state | operations | hard about it | what makes it correct |
|---|---|---|---|---|
| `ProcessManager` | `procs_`, per child `state`, `active`, `shutting_down`, two thread handles; `restart_futures_` | `start`, `stop`, `restart`, `stopAll`, reader and wait threads, restart tasks | every operation by several threads, with children dying at any moment; each step under its own lock | restarts follow the policy and never follow a stop; recorded exits are true; a stop leaves nothing behind and forgets no child; no joinable thread is dropped; a living child keeps its place; no child outlives the launcher |
| `runTui`, `LaunchScreen` | `bg_futures_`, phase of the run | autostart, keys, quit, destruction of the locals | destructors run while tasks and restart threads do | quitting ends, in order, with no child left, unless a descendant of a child holds a pipe |
| `ParameterManager` | `nodes_`: cache, client, throttle per node | request, force refresh, set, prune; callbacks | chains of asynchronous calls that overlap, fail, get lost, and outlive their node's state | `loading` is always cleared; a set is shown in the end; vanished nodes are forgotten while the tab is shown |
| `ParameterScreen` | shown list and parameters, edit box, `set_pending_` | keys, tick, answer to a set | three threads, a callback that may run at once, indices into lists that change | the edit box never hangs; edits are in range |
| `LogAggregator` | `entries_`, `known_sources_`, `generation_`, `log_writer_` | push from processes and `/rosout`, `clear`, `setLogWriter` | two locks per line; the writer is replaced meanwhile | screen and file have one order; no line is lost to a change of profile |
| `LogWriter` | `files_`, the directory, flush thread | write, rotate, flush, close, destroy | rotation over several writers of one directory, failing opens, joining the flush thread | the latest lines are kept in order; a failure costs one line; buffers reach the disk; destruction ends |
| `LogScreen` | filters, cached lines, last generation | tick, keys | filters and lines change between the steps of a tick | lines that pass for current are; shown lines catch up with filters and store |
| `TopicMonitor`, `TopicScreen` | watched topics, samples, rates | poll, subscription callback | lock-free queue with a bound; topics that come late | a watched topic gets its subscription; a dead one turns stale |
| `TuiRunner` | active tab, `running_`, `active_screen_` | run, `requestStop` from a signal handler, the tick thread | a signal before, during and after the event loop; a tick under way when the loop ends | a request to stop that the loop can hear ends the run; nothing is at work on the screens afterwards |
| `NodeInspector`, `NodeScreen` | map of nodes, throttle; a copy of the map, the list | throttled refresh by two threads | overlapping refreshes; blocking queries under a mutex | the map catches up with the graph; key `r` returns |
| `SystemMonitor` | previous counters, process table, index of children | refresh, `buildTree` | /proc changes under the scan; unsigned differences when a pid is reused | trees add up; figures come to rest with the machine |
| list, dropdown, search bar | selection, offset; options, index; text | keys, frames | options and rows change under an index | the selected row stays on display |
| profiles, validator, generator, command line | none, or local | sequential | boundaries | - |

How they interact: keys reach the active screen on the main thread, under that
screen's mutex; the tick of the screen runs on the tick thread and takes the same
mutex and then those of the components it reads. Reader threads hand lines to
`LogAggregator` while they hold `ProcessManager.mutex_`. ROS callbacks change
`ParameterManager` and `LogAggregator` on the spin thread, and a set's callback
takes the mutex of `ParameterScreen`. The launch screen hands every operation on
children to a background task. A change of profile replaces the `LogWriter`.

The hazards of this code, each at its line with the properties that would catch it
going wrong, are listed in `PROJECT.json`.

## 2. Modules

| module | models | extends |
|---|---|---|
| `ProcessManager` | `src/process_manager.cpp` | - |
| `Launcher` | `runTui` of `app/main.cpp`, keys and tasks of `app/screens/launch_screen.cpp` | `ProcessManager` |
| `Supervision` | what `ProcessManager` promises about one child, without threads | - |
| `ProcessManagerProofs`, `LauncherProofs` | theorems of the two | the module, `TLAPS` |
| `ParameterManager` | `src/parameter_manager.cpp` and the remote nodes | - |
| `ParameterScreen` | `app/screens/parameter_screen.cpp` | `ParameterManager` |
| `LogWriter` | `src/log_writer.cpp` and the file system | - |
| `LogAggregator` | `src/log_aggregator.cpp`, the threads that push, the change of profile | `LogWriter` |
| `TopicMonitor` | `src/topic_monitor.cpp`, the status column of `app/screens/topic_screen.cpp` | - |
| `Widgets` | `app/screens/components/`: the scrolling list, the filter dropdown, the search bar | - |
| `NodeInspector` | `src/node_inspector.cpp` | - |
| `NodeScreen` | `app/screens/node_screen.cpp` | `Widgets`, `NodeInspector` |
| `LogScreen` | `app/screens/log_screen.cpp`, what it sees of `LogAggregator` | `Widgets`, `NodeInspector` |
| `SystemMonitor` | `src/system_monitor.cpp` and the tick of `app/screens/launch_screen.cpp` | - |
| `LaunchScreen` | the list, profile and trees of `app/screens/launch_screen.cpp` | `SystemMonitor`, `Widgets` |
| `TuiRunner` | `app/screens/tui_runner.cpp` with its screens, the signal handler and `runTui` around it | the three screens |
| `LogScreenProofs`, `TuiRunnerProofs` | theorems of the composition | `TuiRunner`, `TLAPS`; the second `SequenceLemmas` |
| `ParameterProofs` | theorems of the two modules of parameters | `ParameterScreen`, `SequenceLemmas`, `TLAPS` |
| `LogAggregatorProofs`, `TopicMonitorProofs` | theorems of the two | the module, `SequenceLemmas`, `TLAPS` |
| `SequenceLemmas` | lemmas on sequences, suffixes, flattening and sums that the proofs share | the library |
| `MC...` | instances for TLC | the module, `TLC` |

### ProcessManager

A `ManagedProcess`, its pid and the restart task its wait thread may spawn are one
member of `Procs`. Threads inside an operation have a position `pc` and the locals
`work`, `entry`, `cur`, `todo`, `toStop`; a step is what the code does between two
accesses to shared state, so each acquisition of `mutex_` or `restart_mutex_`, each
load or store of `state`, `active` and `shutting_down` that another thread can see
is a step of its own. `start` is `RefuseStart`/`AcceptStart` (the check of `procs_`),
`Fork`/`ForkFails`, `Publish`; the gap between check and publish is the code's.
`stop` and `stopAll` share their middle: find or scan, mark `shutting_down` and
`Stopping`, kill after the deadline, join both threads. The wait thread reaps
(`WaitPid`), clears `active` (`Deactivate`), loads and stores `state`, reads
`shutting_down`, decides, and pushes a restart task. `std::thread` handles have a
state (none, joinable, being joined, joined), because joining twice throws and
dropping a joinable one is `std::terminate` (`Aborted`). A second join of a handle that is
being joined throws and ends the operation (`JoinThrows`); what it had in hand is recorded in
`abandoned`. `seen` is what `start`'s check found registered.

A reader thread blocks in `read` while anybody has the write end of its pipe open, and
`ros2 launch` and `ros2 run` have descendants: `held` says that the pipe is open, `LetGo`
that the last holder closes it, which may come before or after the child's death or
never. `ReaderEnds` needs the end of file, or a line that comes after the child has been
reaped (the loop tests `active`).

Left out: contents of lines; the arguments of `ros2 run/launch`; pids as numbers.
Deadlines pass at any moment, and a child exits at any moment.

`Supervision` is the abstract specification: a child lives, may be marked to be
stopped, ends once, and its end is followed by at most one restart, if its policy asks
for one, and by none if it was marked before its wait thread decided. `Supervised` is
`Supervision`'s specification under the refinement mapping `LifeOf` (the threads, locks
and flags of a child give its state of life); the run `process_manager` checks it, and
`Implementation` proves it.

### Launcher

`phase` is how far `runTui` has come. Keys start background tasks (`Workers`).
`DestructorStopAll` waits for those tasks (`~LaunchScreen`) and begins
`~ProcessManager`; `LockRestartFutures`, `RestartFuturesReady` and `DestroyMembers`
are the rest of it. `Over` is the end of the process, by return or by
`std::terminate`.

### ParameterManager, ParameterScreen

`fetches` and `sets` are the calls under way. A fetch goes through *list*, *get*,
*got* (the node has answered, the callback has not run) and *describe*; answers of
one client come in call order. A set's callback and the refresh it makes are two
steps of the spin thread. `Prune` drops the state of unlisted nodes, and with the
last reference to a client every answer it waits for. Nodes crash and come back
with their default value. The tick thread ticks the screen only while its tab is the selected
one (`displayed`, `TickDue`; `SelectTab` leaves and selects it, perhaps just after the tick
thread has looked); a tick has
three steps (request, read, prune), of which the first two hold `mutex_`. A key that calls `setParameter` so that it is
refused keeps `mutex_` for ever (`Frozen`), because the callback locks it again.
When it is refused for want of a client the manager's mutex is held as well and the
callbacks stop too; the model lets them run on, which no property depends on:
liveness is stated up to `Frozen`.

### LogWriter, LogAggregator

A file is `[open, size, buffer, disk, bytes]`: the `FILE*`, `current_size`, the stdio buffer,
the contents on disk (current file first, rotated ones after it) and the size in bytes of each,
what is buffered included. A line has any size up to `MaxLine`. `Write` is `getOrOpen`,
`writeLine` and `rotate` in one step, for the writer's mutex is held throughout: the size is
compared after the line has been written, and a file that could not be opened is tried
again by the next line. The flush thread reads `running_` (*dozing*) and blocks
(*waiting*) in two steps, so that a notification may come between them and be lost. A line is handed over in two steps, `Persist` under `writer_mutex_` and
`Push` under `mutex_`; a reader holds `ProcessManager.mutex_` from one to the other.
A change of profile is `MakeWriter`, `InstallWriter` (which takes `writer_mutex_` and
begins to destroy the old writer under it) and `DestroyWriter` (its flush thread has
been joined; files are closed). `written` is a history variable: what each file was
given. Lines of a name are numbered when a reader takes `ProcessManager.mutex_` with them: the
order in which a process wrote to its two pipes is lost to the code, which reads them
in two threads, and is not in the model. Names are taken to have distinct file names. (`sanitize` maps some names
together: two entries that differ only in such characters would append to and rotate
the same files. Nothing in the repository says what should happen then.)

### TopicMonitor

Every time is kept as its age: `Tick` makes all samples older, and beyond `Window`
they stay `Old`, because `computeHz` tells such ages apart no more. So the clock is
unbounded in a finite model. `Receive` is the subscription's callback (`try_push`
into the bounded queue); the polling thread's pass is `ReadGraph` (outside `mutex_`),
`SwapIn` and, per tracker, `Measure` (drain, trim, rate, verdict, late subscription).
`SetWatchedTopics`, `Start`, `Stop`, `Joined` and `Destroy` follow `runTui`. An
expected rate is the number of ticks between two messages, so that
`hz < expected_hz * 0.5` is a comparison of integers. The queries of the graph are one
step; subscriber counts and types are left out. `heard` and `missed` are history: the
messages the queue took, and the last one it refused.

### TuiRunner and its screens

Three threads: the main thread (`MainStep`: from the construction of the runner to the
return of `run`; `TypeKey` and `Draw` while its loop is free; `InstallLoop` is where FTXUI's
`Loop` makes the queue without which `Exit`, a posted task, is dropped), the tick thread
(`TickThread`) and a thread that runs the signal handler (`HandlerStep`). A tick is
cut where the code gives up one mutex and takes another, or asks the ROS graph or /proc
again. A key, from the global keys down to the widget that takes it, is one step, for
the screen's mutex is held; the refresh that key `r` of the node screen starts goes on
in steps of its own (`RefreshOnLoop`) while the screen's mutex is held (`MutexFree`) and
the loop takes no other key.

- *Widgets* are records, their methods operators from a record to the next.
- *NodeInspector*: `call[t]` is where each thread is in `doRefresh`, with its locals:
  names, then services, a query per lifecycle node, then the swap of the map.
- *LogScreen*: `BeginLogTick` reads the filters, `ReadGeneration`, `ReadLines`,
  `ReadSources` and `CommitLines` follow; then the refresh of the nodes and the node
  filter's options.
- *SystemMonitor*: `BeginSysTick` takes the throttles, `RefreshSystemCpu` reads
  /proc/stat, `ScanNext` one process of /proc, `InstallScan` replaces the table, the
  counters and the index. A pid freed during a scan is not used again in it (`freed`): the
  kernel hands out tens of thousands of others first. `Share` is the difference of two counters modulo `Width`, cut to
  100 percent per CPU. `Tree` is `buildTree`.

The launch, log and node screens are composed; the topic and parameter screens have
models of their own (above), with other inspectors of the graph. Names: a node and the
source of its log lines have one name here (in a namespace the code sees `ns/talker`
as a node and what the logger calls itself as a source). Only queries of nodes outlast
the throttle of `NodeInspector`, and a scan of /proc is shorter than the interval
between two. No frame and no key throws.

## 3. Runs

| run | question | bounds |
|---|---|---|
| `process_manager` | does any sequence of operations keep the promises about restarts and exits, and what does it take to displace a living child? | two entries (on-failure, never), two children, one caller beside the restart tasks |
| `launcher` | from autostart to destruction, is no child forgotten that was asked to stop, no unjoined thread dropped after a stop, and none left running? | one entry, two children, main thread and one task, no restarts |
| `launcher_liveness` | do operations, restarts and quitting complete, but for a pipe that is held open? | one entry, one child, on-failure |
| `launcher_orphans` (violation) | can a child outlive the launcher? | as `launcher`, with restarts |
| `launcher_survives` (violation) | can the launcher be terminated? | the same |
| `parameters` | is `loading` always going to be cleared, and a set shown? | a node with a boolean and one without parameters; one fetch and one set at a time beyond the refresh after a set; one crash; the tab, once selected, is not left (`Leaves`) |
| `parameters_liveness` | do edits and fetches resolve, and vanished nodes while the tab is shown? | one node, one crash, one failing call; the tab may be left |
| `parameters_frozen` (violation) | does the edit box always answer? | two nodes, no failures |
| `parameters_range` (violation) | is what is sent in range? | two nodes of different ranges |
| `logs` | do files, screen and change of profile keep their promises? | two profiles, two changes or clearings, three lines of a process on two streams and of `/rosout` (one at most) of one or two bytes, files of two bytes, one rotated file, one failure |
| `topics` | does every poll judge a topic rightly, and do its coming and going show? | one topic, unwatched or watched with or without an expectation, loadable or not; a window of four ticks, three samples, a queue of two; no bound on time |
| `tui` | do the threads of the terminal leave each other's state in order, honour a stop, and show in the end what there is to show? | eight scenarios, see below; two nodes, two pids, two sources, one line kept (`MaxLines`), counters of four bits |

The scenarios of `MCTuiRunner` keep one screen busy each: (1) two signals at any moment
with quitting and switching tabs; (2) a walk through profiles of five entries and of one,
in a window that changes its height once; (3) two processes start, one works, one ends,
and its pid is used again; (4) a process on the GPU; (5) a source is chosen in the filter
while another arrives; (6) level and node filters; (7) the search bar; (8) nodes change
while the tick and key `r` refresh. What happens in one of them is not repeated in
another: the screens share the inspector and the tick thread only, which (1), (6) and (8)
exercise. With one line kept every second line drops the first. What is asked of processes, lines, nodes and window
happens while the loop runs.

Two children are enough for a restart that replaces an object, and for two objects
of one name; two threads beside the restart tasks for every pair of overlapping
operations. What needs more is proved for any number. A second fetch under way (the forced
refresh after a set) is possible in the parameter runs, so that fetches overlap. Three lines
that may each fill a file make it rotate three times with room for one old file, so that lines
are really deleted, and a line of two bytes after one of one byte takes it past its limit; two
changes of profile come back to the first one's directory. The monitor's topics share nothing but the pass that visits them, so one
topic in every role is taken; a queue of two and three samples in a window of four
ticks let the queue overflow, trimming bite and samples leave the window. Symmetry is used in safety runs only.

`CHECK_DEADLOCK FALSE` is said of the terminal's run, where `run` returns at last, of the parameter runs, where a frozen terminal thread
really stops the screen, and of the log run, where every bounded line has been
handed over at last, and of the topics, where the monitor is gone at last. The launcher's end is an explicit stuttering step instead.

**What the violations show.** `launcher_survives`: a child that exits on its own
leaves two joinable threads in its object; the next start of that name, automatic
or by key, drops the object, and `std::terminate` ends the launcher with all its
other children running. `launcher_orphans`: a wait thread that read
`shutting_down = false` pushes its restart after the destructor's `stopAll` has
scanned. `parameters_frozen`: a text that does not parse makes `setParameter` call
back at once into the screen whose mutex the caller holds. `parameters_range`: the
edit names its node by the index selected at commit time. Each quotes the sentence of
the repository it contradicts, in `PROJECT.json`, which also records what no run of its own
shows:

- two starts of one entry that overlap both pass the check, and the first child loses
  its place in `procs_`: nothing stops it any more (`LiveKeepsItsPlace` says that this is
  the only way, and `process_manager` reaches it);
- SIGKILL depends on `active`, which is cleared once the direct child is reaped: a
  descendant that ignores SIGINT lives on, and while it holds the pipe the reader blocks, and
  with it stop, restart, stopAll and quitting (`CallsReturn` and `QuitCompletes` except it);
- a comment in `getOrOpen` promises no retry, the code retries on every write, and
  `FailureCostsALine` depends on it;
- a signal that comes after the handler is installed and before the loop listens is lost
  (`StopHonoured` is stated from then on): first no screen is published, then `Exit` posts a
  task that FTXUI drops;
- `f`, `v` and `n` typed into an active search open filters instead;
- an exception from the event loop terminates the launcher before the clause that would
  catch it.

**Fairness.** Threads inside an operation, wait and reader threads, callbacks, the
tick, the flush and the polling thread keep being scheduled (weak fairness): nothing in the code
suspends them. The reader is the exception: it is scheduled at the end of file, and nobody owes
it one. Strong fairness is assumed where a thread waits for a mutex that others
hold for moments only (`mutex_` of the manager, the tick's `mutex_` of the screen; a tick begins
only while its tab is displayed), and
for callbacks of a living node that a bound or a crash may hold up. Nothing is assumed
of the user, who may leave a tab for good, of a child that is not killed, or of the answer to a set. In `tui` the
threads, the clock and a handler that has begun are weakly fair; keys, signals, lines,
nodes and processes are not. `LogsCatchUp`, `NodesCatchUp` and `FiguresCatchUp` are
about a tab that stays on display with the loop running, as only that one is ticked.

## 4. Proofs

`ProcessManagerProofs` proves for any set of entries, forks, callers and any policy
(assumptions `PolicyAssumption`, `DistinctAssumption`):

- `Invariance`: `Spec => []IInv`. `IInv` is inductive. Type correctness is not, nor are
  the safety properties: that a restart task exists only when the policy asks for one
  depends on where the wait thread is (`RestartInv`), that on what has been reaped
  (`ChildInv`), and that a stop may join depends on who else holds the handle
  (`HandleInv`, `JoinInv`); `MapInv` ties `procs_` to the objects.
- `TypeCorrect`, `RestartsObeyPolicy`, `ExitsReported` from it; `StopsComplete` and
  `MarkedIsNotRestarted` are action properties: one lemma per action shows that it
  cannot be the step that breaks them.

- `NoStopIsLost`: `Spec => []AskedAreStopped`, for any callers, operations that overlap and
  operations that throw. `MarkInv` adds where a marked object is: at hand in a call that
  waits for it, joined already, or abandoned by a call that threw.
- `StoppedAreJoined`: `Spec => []StoppedIsJoined`, for any callers too. Two that join the same
  thread throw, which leaves the rest of the targets as they are: those are in `abandoned`,
  and the statement is about the others.
- `DisplacedByOverlap`: `Spec => LiveKeepsItsPlace`. What the check of `start` found was not active
  and never is again (`ThreadInv`), so a living child that is displaced was registered
  after the check.
- `Implementation`: `Spec => Supervised`. Initial states map to the initial state, and under
  `IInv` every step maps to a step of `Supervision` or to none.

`LauncherProofs` proves `LauncherInvariance`: `LSpec => []LInv`, that is, `IInv` over the
launcher's whole life, and that no background task is under way once the destructor has
begun. Every step of the manager inside the launcher is a step of `ProcessManager`,
whose lemmas are reused; the steps of the destruction are new.
`LauncherStopsWhatItAsks`, `LSpec => []AskedAreStopped`, carries `NoStopIsLost` over the whole life, with
any number of tasks and with restarts. That no child is left (`NoOrphans`) is false in general
(`launcher_orphans`, and two overlapping starts); `OrphansWereNeverAsked` proves what is left of it:
a child that outlives the manager has its SIGKILL, or was never asked to stop.

`ParameterProofs` proves, for any nodes, kinds, values, texts and bounds,

- `ParametersAreRight`: `PSpec => []PInv`. `LoadingIsAnswered`, that `loading` is set only while
  a fetch will clear it, is inductive with two facts of the clients (`ClientInv`: each state, fetch
  and set uses the client of a life the node has had; `PresenceInv`: a node that never
  crashed is in the graph and in every list of the tick, and so is never pruned).
- `SetsAreShown`: `PSpec => []SetIsShown`, from `FreshInv`: unless a set taken has yet to start its
  fetch, the *last* fetch of a node reads the value the node has, whatever older ones under
  way have read. Answers of one client come in the order of the calls, so the last one
  stored is that one.

`LogScreenProofs` proves `CacheIsCurrent` for any scenarios, names and bounds. The
property speaks of what was stored; `CacheInv` adds what the tick has read and not yet
stored, and that no generation remembered is ahead of the store's: a push or a clearing
then makes every claim void, and a step of the tick carries it over.

`TuiRunnerProofs` proves, for any scenarios, profiles, nodes and heights (assumptions
`RunnerAssumption`, `ProfilesAssumption`, `NodesAssumption`),

- `TuiStructure`: `TuiSpec => []TuiInv`. `QuietOnceJoined` follows from `OneTick` (no tick
  without a tick thread), and from what holds between the end of the loop and the join
  (`AfterLoop`: `running_` is down for good, the loop is out of any refresh).
- `SelectionInSight`: `TuiSpec => SightKept`. Each operation of a list is shown to keep its
  selected row on display (`SelectUpKeeps`, `EnsureKeeps`, `PressKeeps`, `ShapeKeeps`), from
  `Behind`, that the offset is never past the selection; the theorem then goes through
  the steps of all threads. Lengths are numbers because shown nodes are among
  finitely many (`Found`, `Counted`).
- `TreesAddUp`: `TuiSpec => []TotalsAddUp`. The recursion of `buildTree` has one solution if the table
  has no cycle: there are ranks, higher in a child than in its parent (`RankInv`, `BornAfter`).
  A process that starts gets one more than its parent's; what a scan has read stays
  ordered because no pid is used again within it (`freed`), without which TLC finds a
  cycle with three starts. `FamiliesBuild` shows that the families, as least sets, with the
  sums of their shares solve the equation, since families of two children are apart
  (`FamiliesApart`), and `OneSolution` that nothing else does.

`LogAggregatorProofs` proves, for any processes, streams, sizes, numbers of profiles and
of failures (assumptions `WriterAssumption`, `AggregatorAssumption`),

- `FilesKeepBounds`: `LSpec => []LInv`, for lines of any size. That a file exceeds its limit by less
  than a line is not inductive: between two operations the active file is below the limit, and
  `current_size` is its size (`Sound`); one just appended to may be past it by less than a line
  (`Grown`), and rotation makes the second the first again (`RotateKeeps`). That only
  active writers have open files needs `WritersPresent`: which profiles may have a
  writer in each phase of a change.
- `ShownInOrder`: `LSpec => []SameOrder`: order on the screen and order in the file are one. From `HandedIsLast`: the line a thread hands over is the
  last of its name, as the mutex of the manager keeps a second reader out (`OneOfAName`).
- `ShownHasBeenLogged`: `LSpec => []ShownIsLogged`, from `LoggedInv`: without a failure the
  current writer is active in every phase, and so is the one made to replace it.
- `LatestLinesKept`: `LSpec => []RecentLinesKept`. The active file and the rotated ones are consecutive
  cuts of what was written: the proof carries the positions of the cuts (`Holds`), a rotation
  drops the oldest cut, and every rotated file but none other is full.

`TopicMonitorProofs` proves `SamplesStayOrdered`, `Spec => []TInv`, for any topics, profiles and
sizes. The order of a list survives a new message only if none in it has the same time:
`Lists` adds that each sample inside the window is one of the messages heard.
`VerdictsAreRight`, `Spec => VerdictIsRight`, is the other direction: the samples and the queue hold
the newest messages heard in the window, all of them or as many as are kept (`Covers`,
`NewestInv`), so that after draining and trimming the samples of the window are exactly
`Recent`. The intervals then sum to the difference of the newest and the oldest
(`Telescoping`), which is what the verdict compares. The queue's capacity is no exception in
the proof: a message refused by a full queue is not among those heard, and the theorem holds
of the others whether or not `missed` says so.

`SequenceLemmas` has what these share: suffixes and their flattening (`Flattening`,
`GrowingBack`), and sums. A sum of the community modules is a `CHOOSE` of a recursive function; that
it satisfies its definition (`SumExists`, `Sums`) is proved by induction over finite sets. The
library's induction theorems take an operator, which the installed provers cannot
instantiate; `SetInduction` states the same for a *set* of the numbers or sets that have the
property, which is a value, and serves instead.

There is one lemma per action and one step per conjunct it can disturb; TLC checks
`IInv` and `LInv` as invariants of runs as well.

**Only model-checked.** Every safety property of a passing run, invariant or action property, is a
theorem but for two: `NoOrphans`, which holds of the configuration of its run only (one
background task, no restarts), and `FailureCostsALine`, which counts lines. What only TLC
checks besides is liveness: TLAPS as installed proves neither liveness under fairness nor
`ENABLED`. Modules with `RECURSIVE` operators would be out of its reach too; there are none.

## 5. Not modelled

`GraphInspector` and `host_process_lookup` (one query of the graph or of /proc each),
`profile_generator` and the command line (text in, text out), packaging and CI scripts.
`launch_profile` and `config_validator` read YAML into values other modules take as
constants (`Profiles`, policies, watched topics): no state, no concurrency.
`create_screen` is a form on one thread with a monitor of its own. Of `SystemMonitor`,
memory, the gauges of the whole machine and the detection of hardware: copied as read.
In the parameter and topic screens, scrolling, search and panels: they use the widgets as the
screens of `TuiRunner` do, with the same operators. Drawing is left out everywhere but for the
height and length a frame gives to a list.

## 6. Plan

1. The topic and parameter screens in the composition of `TuiRunner`.
2. The create screen: the destruction of its monitor while the node is spun.
