--------------------------- MODULE TuiRunnerProofs ---------------------------
(***************************************************************************)
(* Proofs about the composition of the terminal's threads, for any         *)
(* scenarios, profiles, nodes and terminal heights: the structure of its   *)
(* state (TuiInv), that lists keep their selected row in sight             *)
(* (SightKept), and that trees of processes add up (TotalsAddUp).          *)
(***************************************************************************)
EXTENDS TuiRunner, SequenceLemmas, TLAPS

-----------------------------------------------------------------------------
(* Lists with a selection *)

ListFields == {"selecting", "selected", "offset", "count", "height", "auto"}

\* The first row is not below the selected one.
Behind(list) ==
    /\ DOMAIN list = ListFields
    /\ list.selecting
    /\ list.selected \in Nat /\ list.offset \in Nat /\ list.count \in Nat
    /\ list.height \in Nat \ {0}
    /\ list.offset <= list.selected

\* What a step may do to such a list.
KeepsSight(list, next) ==
    list.height = next.height /\ InSight(list) /\ next.selected < next.count => InSight(next)

\* The greater of two numbers.
LEMMA MaxOfTwo ==
  ASSUME NEW a \in Int, NEW b \in Int
  PROVE  Max({a, b}) = IF a >= b THEN a ELSE b
<1>1. \E x \in {a, b} : \A y \in {a, b} : x >= y
  OBVIOUS
<1> QED  BY <1>1 DEF Max

\* The lesser of two numbers.
LEMMA MinOfTwo ==
  ASSUME NEW a \in Int, NEW b \in Int
  PROVE  Min({a, b}) = IF a <= b THEN a ELSE b
<1>1. \E x \in {a, b} : \A y \in {a, b} : x =< y
  OBVIOUS
<1> QED  BY <1>1 DEF Min

\* The rows on display, without Max and Min.
Sight(offset, height, count, selected) ==
    LET most  == IF count <= height THEN 0 ELSE count - height
        start == IF offset <= most THEN offset ELSE most
    IN  start <= selected /\ selected < start + height /\ selected < count

\* The row selected is on display when it is between the first and the last row drawn.
LEMMA SightOf ==
  ASSUME NEW list, Behind(list)
  PROVE  InSight(list) <=> Sight(list.offset, list.height, list.count, list.selected)
<1> DEFINE most == IF list.count <= list.height THEN 0 ELSE list.count - list.height
           start == IF list.offset <= most THEN list.offset ELSE most
           end == IF start + list.height <= list.count THEN start + list.height ELSE list.count
<1>1. /\ list.selected \in Nat /\ list.offset \in Nat /\ list.count \in Nat
      /\ list.height \in Nat \ {0}
  BY DEF Behind
<1>2. list.selecting
  BY DEF Behind
<1>3. MaxOffset(list) = most /\ most \in Nat
  BY <1>1, MaxOfTwo DEF MaxOffset
<1> HIDE DEF most
<1>4. start \in Nat /\ Min({list.offset, MaxOffset(list)}) = start
  BY <1>1, <1>3, MinOfTwo
<1> HIDE DEF start
<1>5. end \in Nat /\ Min({start + list.height, list.count}) = end
  BY <1>1, <1>4, MinOfTwo
<1> HIDE DEF end
<1>6. VisibleRange(list).start = start /\ VisibleRange(list).end = end
  BY <1>2, <1>4, <1>5 DEF VisibleRange
<1>7. InSight(list) <=> start <= list.selected /\ list.selected <= end - 1
  BY <1>1, <1>4, <1>5, <1>6 DEF InSight
<1> QED  BY <1>1, <1>4, <1>5, <1>7 DEF end, start, most, Sight

\* Sight may be shown to be kept without Max and Min.
LEMMA SightFrom ==
  ASSUME NEW list, Behind(list), NEW next, Behind(next),
         Sight(list.offset, list.height, list.count, list.selected)
           /\ next.height = list.height /\ next.selected < next.count
         => Sight(next.offset, next.height, next.count, next.selected)
  PROVE  KeepsSight(list, next)
<1>1. InSight(list) <=> Sight(list.offset, list.height, list.count, list.selected)
  BY SightOf
<1>2. InSight(next) <=> Sight(next.offset, next.height, next.count, next.selected)
  BY SightOf
<1> QED  BY <1>1, <1>2 DEF KeepsSight

\* Moving up, whatever the number of rows.
LEMMA SelectUpKeeps ==
  ASSUME NEW list, Behind(list), NEW lines \in Nat
  PROVE  Behind(SelectUp(list, lines)) /\ KeepsSight(list, SelectUp(list, lines))
<1> DEFINE selected == IF list.selected >= lines THEN list.selected - lines ELSE 0
           offset == IF list.offset <= selected THEN list.offset ELSE selected
           next == SelectUp(list, lines)
<1>1. /\ list.selected \in Nat /\ list.offset \in Nat /\ list.count \in Nat
      /\ list.height \in Nat \ {0} /\ list.offset <= list.selected
      /\ DOMAIN list = ListFields
  BY DEF Behind
<1>2. Max({0, list.selected - lines}) = selected /\ selected \in Nat /\ selected <= list.selected
  BY <1>1, MaxOfTwo
<1> HIDE DEF selected
<1>3. Min({list.offset, selected}) = offset /\ offset \in Nat /\ offset <= selected
  BY <1>1, <1>2, MinOfTwo
<1> HIDE DEF offset
<1>4. next = [list EXCEPT !.selected = selected, !.offset = offset]
  BY <1>2, <1>3 DEF SelectUp
<1> HIDE DEF next
<1>5. /\ next.selected = selected /\ next.offset = offset
      /\ next.height = list.height /\ next.count = list.count
  BY <1>1, <1>4 DEF ListFields
<1>6. Behind(next)
  BY <1>1, <1>2, <1>3, <1>4, <1>5 DEF Behind, ListFields
<1>7. Sight(list.offset, list.height, list.count, list.selected) /\ selected < list.count
      => Sight(offset, list.height, list.count, selected)
  BY <1>1, <1>2, <1>3 DEF Sight, offset
<1>8. KeepsSight(list, next)
  BY <1>5, <1>6, <1>7, SightFrom
<1> QED  BY <1>6, <1>8 DEF next

\* The rows follow the selection wherever it goes.
LEMMA EnsureKeeps ==
  ASSUME NEW list, Behind(list), NEW selected \in Nat
  PROVE  LET next == EnsureSelectedVisible([list EXCEPT !.selected = selected])
         IN  Behind(next) /\ KeepsSight(list, next)
<1> DEFINE moved == [list EXCEPT !.selected = selected]
           lowest == IF list.offset >= selected - list.height + 1
                     THEN list.offset ELSE selected - list.height + 1
           offset == IF lowest <= selected THEN lowest ELSE selected
           next == EnsureSelectedVisible(moved)
<1>1. /\ list.selected \in Nat /\ list.offset \in Nat /\ list.count \in Nat
      /\ list.height \in Nat \ {0} /\ list.offset <= list.selected
      /\ DOMAIN list = ListFields
  BY DEF Behind
<1>2. /\ moved.selected = selected /\ moved.height = list.height
      /\ moved.offset = list.offset /\ moved.count = list.count
      /\ DOMAIN moved = ListFields /\ moved.selecting = list.selecting
  BY <1>1 DEF ListFields
<1> HIDE DEF moved
<1>3. Max({list.offset, selected - list.height + 1}) = lowest /\ lowest \in Nat
  BY <1>1, MaxOfTwo
<1> HIDE DEF lowest
<1>4. Min({lowest, selected}) = offset /\ offset \in Nat /\ offset <= selected
  BY <1>3, MinOfTwo
<1> HIDE DEF offset
<1>5. next = [moved EXCEPT !.offset = offset]
  BY <1>2, <1>3, <1>4 DEF EnsureSelectedVisible
<1> HIDE DEF next
<1>6. /\ next.selected = selected /\ next.offset = offset
      /\ next.height = list.height /\ next.count = list.count
  BY <1>2, <1>5 DEF ListFields
<1>7. Behind(next)
  <2>1. DOMAIN next = ListFields /\ next.selecting = list.selecting
    BY <1>2, <1>5 DEF ListFields
  <2> QED  BY <1>1, <1>4, <1>6, <2>1 DEF Behind
<1>8. selected < list.count => Sight(offset, list.height, list.count, selected)
  BY <1>1, <1>3, <1>4 DEF Sight, offset, lowest
<1>9. KeepsSight(list, next)
  BY <1>6, <1>7, <1>8, SightFrom
<1> QED  BY <1>7, <1>9 DEF next, moved

\* Every key a list takes.
LEMMA PressKeeps ==
  ASSUME NEW list, Behind(list), NEW key \in ListKeys
  PROVE  Behind(PressList(list, key)) /\ KeepsSight(list, PressList(list, key))
<1> DEFINE bottom == Max({0, list.count - 1})
<1>1. /\ list.selected \in Nat /\ list.count \in Nat
      /\ list.height \in Nat \ {0}
      /\ DOMAIN list = ListFields
  BY DEF Behind
<1>2. list.selecting
  BY DEF Behind
<1>3. bottom \in Nat
  BY <1>1, MaxOfTwo
<1>4. ASSUME NEW lines \in Nat
      PROVE  Behind(Up(list, lines)) /\ KeepsSight(list, Up(list, lines))
  BY <1>2, SelectUpKeeps DEF Up
<1>5. ASSUME NEW lines \in Nat
      PROVE  Behind(Down(list, lines)) /\ KeepsSight(list, Down(list, lines))
  <2> DEFINE lower == Min({list.selected + lines, bottom})
  <2>1. lower \in Nat
    <3> HIDE DEF bottom
    <3> QED  BY <1>1, <1>3, MinOfTwo
  <2>2. Down(list, lines) = EnsureSelectedVisible([list EXCEPT !.selected = lower])
    BY <1>2 DEF Down, SelectDown
  <2> HIDE DEF lower
  <2> QED  BY <2>1, <2>2, EnsureKeeps
<1>6. Behind(End(list)) /\ KeepsSight(list, End(list))
  <2>1. End(list) = EnsureSelectedVisible([list EXCEPT !.selected = bottom])
    BY <1>2 DEF End
  <2> HIDE DEF bottom
  <2> QED  BY <1>3, <2>1, EnsureKeeps
<1>7. Behind(Home(list)) /\ KeepsSight(list, Home(list))
  <2> DEFINE next == Home(list)
  <2>1. next = [list EXCEPT !.offset = 0, !.selected = 0, !.auto = FALSE]
    BY <1>2 DEF Home
  <2> HIDE DEF next
  <2>2. /\ next.selected = 0 /\ next.offset = 0 /\ next.count = list.count
        /\ next.height = list.height /\ next.selecting = list.selecting
        /\ DOMAIN next = ListFields
    BY <1>1, <2>1 DEF ListFields
  <2>3. Behind(next)
    BY <1>1, <1>2, <2>2 DEF Behind
  <2>4. 0 < list.count => Sight(0, list.height, list.count, 0)
    BY <1>1 DEF Sight
  <2>5. KeepsSight(list, next)
    BY <2>2, <2>3, <2>4, SightFrom
  <2> QED  BY <2>3, <2>5 DEF next
<1> HIDE DEF bottom
<1>8. key \in {"up", "pageup", "wheelup"} => \E lines \in Nat : PressList(list, key) = Up(list, lines)
  BY <1>1 DEF PressList
<1>9. key \in {"down", "pagedown", "wheeldown"} =>
        \E lines \in Nat : PressList(list, key) = Down(list, lines)
  BY <1>1 DEF PressList
<1>10. /\ key = "home" => PressList(list, key) = Home(list)
       /\ key = "end" => PressList(list, key) = End(list)
  BY DEF PressList
<1> QED
  BY <1>4, <1>5, <1>6, <1>7, <1>8, <1>9, <1>10 DEF ListKeys

\* A frame, with more or fewer rows than the one before.
LEMMA ShapeKeeps ==
  ASSUME NEW list, Behind(list), NEW height \in Int, NEW count \in Nat
  PROVE  Behind(Shape(list, height, count)) /\ KeepsSight(list, Shape(list, height, count))
<1> DEFINE next == Shape(list, height, count)
           tall == Max({1, height})
<1>1. /\ list.selected \in Nat /\ list.offset \in Nat /\ list.count \in Nat
      /\ list.height \in Nat \ {0} /\ list.offset <= list.selected
      /\ DOMAIN list = ListFields
  BY DEF Behind
<1>2. tall \in Nat \ {0}
  BY MaxOfTwo
<1>3. next = [list EXCEPT !.height = tall, !.count = count]
  BY DEF Shape
<1> HIDE DEF next, tall
<1>4. /\ next.selected = list.selected /\ next.offset = list.offset
      /\ next.count = count /\ next.height = tall
      /\ next.selecting = list.selecting /\ DOMAIN next = ListFields
  BY <1>1, <1>3 DEF ListFields
<1>5. Behind(next)
  BY <1>1, <1>2, <1>4 DEF Behind
<1>6. Sight(list.offset, list.height, list.count, list.selected) /\ list.selected < count
      => Sight(list.offset, list.height, count, list.selected)
  BY <1>1 DEF Sight
<1>7. KeepsSight(list, next)
  BY <1>4, <1>5, <1>6, SightFrom
<1> QED  BY <1>5, <1>7 DEF next

\* A list that is left alone keeps its row on display.
LEMMA StayKeeps == ASSUME NEW list PROVE KeepsSight(list, list)
  BY DEF KeepsSight

-----------------------------------------------------------------------------
(* Refreshes of the nodes *)

\* Only nodes are found, and each thread has its own locals.
Found ==
    /\ DOMAIN nodesMap \subseteq Nodes
    /\ DOMAIN call = Threads
    /\ \A t \in Threads : /\ DOMAIN call[t] = {"at", "found", "todo"}
                          /\ DOMAIN call[t].found \subseteq Nodes

\* A refresh that begins finds nodes, or leaves those found before.
LEMMA RefreshBegins ==
  ASSUME Found, NEW t \in Threads, Refresh(t)
  PROVE  Found' /\ \A u \in Threads \ {t} : call'[u] = call[u]
<1>1. CASE fresh
  BY <1>1 DEF Refresh, inspectorVars, Found
<1>2. CASE ~fresh
  <2> DEFINE all == [n \in Present |-> FALSE]
  <2>1. call' = [call EXCEPT ![t].at = "services", ![t].found = all] /\ nodesMap' = nodesMap
    BY <1>2 DEF Refresh
  <2>2. DOMAIN all \subseteq Nodes
    BY DEF Present
  <2> HIDE DEF all
  <2> QED  BY <2>1, <2>2 DEF Found
<1> QED  BY <1>1, <1>2

\* A refresh under way finds finitely many nodes and touches no other thread.
LEMMA RefreshGoesOn ==
  ASSUME Found, NEW t \in Threads, RefreshStep(t)
  PROVE  /\ Found' /\ Refreshing(t)
         /\ \A u \in Threads \ {t} : call'[u] = call[u]
<1>1. CASE ReadServices(t)
  <2> DEFINE todo == DOMAIN call[t].found \intersect Lifecycle
             found == [n \in DOMAIN call[t].found |-> n \in todo]
  <2>1. /\ call' = [call EXCEPT ![t].at = "query", ![t].todo = todo, ![t].found = found]
        /\ nodesMap' = nodesMap /\ call[t].at = "services"
    BY <1>1 DEF ReadServices, Found
  <2>2. DOMAIN found \subseteq Nodes
    BY DEF Found
  <2> HIDE DEF found, todo
  <2> QED  BY <2>1, <2>2 DEF Found, Refreshing
<1>2. ASSUME NEW n \in Nodes, QueryLifecycleState(t, n)
      PROVE  /\ Found' /\ Refreshing(t)
             /\ \A u \in Threads \ {t} : call'[u] = call[u]
  BY <1>2 DEF QueryLifecycleState, Found, Refreshing
<1>3. CASE SwapMap(t)
  BY <1>3 DEF SwapMap, Found, Refreshing, Idle
<1> QED  BY <1>1, <1>2, <1>3 DEF RefreshStep

-----------------------------------------------------------------------------
(* Ticks, and the end of them *)

\* The locals of the ticks are there throughout.
TickRecords ==
    /\ DOMAIN sysTick = {"at", "gpu", "todo", "procs", "ticks"}
    /\ DOMAIN logTick = {"at", "want", "generation", "lines", "names"}
    /\ DOMAIN nodeTick = {"at", "nodes"}

\* What holds from the end of the loop on.
AfterLoop ==
    /\ main \in {"ended", "join", "joined", "over"} => ~up /\ ~Refreshing(Looper)
    /\ main \in {"joined", "over"} => ticker = "ended"

ThreadInv == Found /\ TickRecords /\ OneTick /\ AfterLoop

\* The variables ThreadInv is about.
threadVars == <<nodesMap, call, sysTick, logTick, nodeTick, main, up, ticker>>

\* Steps that touch no flag or position keep the invariant of the threads.
LEMMA ThreadElsewhere == ThreadInv /\ UNCHANGED threadVars => ThreadInv'
  BY DEF ThreadInv, Found, TickRecords, OneTick, AfterLoop, threadVars, Refreshing, Ticking

\* No tick thread exists at first.
LEMMA InitThread == TuiInit => ThreadInv
<1> SUFFICES ASSUME TuiInit PROVE ThreadInv
  OBVIOUS
<1> USE DEF TuiInit, LogInit, NodeInit, MonitorInit, InspectorInit
<1>1. Found
  BY DEF Found, Idle
<1>2. TickRecords
  BY DEF TickRecords, SysIdle, LogIdle, NodeIdle
<1>3. OneTick
  BY DEF OneTick, Ticking, Refreshing, Idle, Threads, SysIdle, LogIdle, NodeIdle
<1>4. AfterLoop
  BY DEF AfterLoop
<1> QED  BY <1>1, <1>2, <1>3, <1>4 DEF ThreadInv

\* The steps of run before and after the loop keep it.
LEMMA MainThread == ASSUME ThreadInv, MainStep PROVE ThreadInv'
<1>1. UNCHANGED <<nodesMap, call, sysTick, logTick, nodeTick>>
  BY DEF MainStep, monitorVars, logVars, nodeVars, inspectorVars
<1>2. Found' /\ TickRecords'
  BY <1>1 DEF ThreadInv, Found, TickRecords
<1>3. ticker' = ticker \/ ticker' = "on"
  BY DEF MainStep, PublishRunner, InstallHandler, BeginRun, SetActiveScreen, StartTickThread, InstallLoop,
         LoopEnds, ForgetScreen, JoinTickThread, ForgetRunner
<1>4. OneTick'
  BY <1>1, <1>3 DEF ThreadInv, OneTick, Ticking, Refreshing
<1>5. Refreshing(Looper)' = Refreshing(Looper)
  BY <1>1 DEF Refreshing
<1>6. AfterLoop'
  <2> USE DEF ThreadInv, AfterLoop, GoTo
  <2>1. CASE PublishRunner \/ InstallHandler \/ BeginRun \/ SetActiveScreen \/ StartTickThread
                 \/ InstallLoop
    BY <2>1 DEF PublishRunner, InstallHandler, BeginRun, SetActiveScreen, StartTickThread,
                InstallLoop
  <2>2. CASE LoopEnds
    BY <2>2, <1>5 DEF LoopEnds, LoopFree
  <2>3. CASE ForgetScreen
    BY <2>3, <1>5 DEF ForgetScreen
  <2>4. CASE JoinTickThread \/ ForgetRunner
    BY <2>4, <1>5 DEF JoinTickThread, ForgetRunner
  <2> QED  BY <2>1, <2>2, <2>3, <2>4 DEF MainStep
<1> QED  BY <1>2, <1>4, <1>6 DEF ThreadInv

\* Asking for the end changes running_ alone.
LEMMA LoweredThread ==
  ASSUME ThreadInv, up' = FALSE \/ up' = up,
         UNCHANGED <<nodesMap, call, sysTick, logTick, nodeTick, main, ticker>>
  PROVE  ThreadInv'
<1>1. CASE up' = FALSE
  <2>1. Found' /\ TickRecords' /\ OneTick'
    BY DEF ThreadInv, Found, TickRecords, OneTick, Refreshing, Ticking
  <2>2. AfterLoop'
    BY <1>1 DEF ThreadInv, AfterLoop, Refreshing
  <2> QED  BY <2>1, <2>2 DEF ThreadInv
<1>2. CASE up' = up
  BY <1>2, ThreadElsewhere DEF threadVars
<1> QED  BY <1>1, <1>2

\* A tick begins when no other is under way.
LEMMA BeginThread ==
  ASSUME ThreadInv, BeginTick, UNCHANGED <<main, up>>
  PROVE  ThreadInv'
<1>1. UNCHANGED <<nodesMap, call, ticker>> /\ ticker = "on" /\ ~Ticking
  BY DEF BeginTick, inspectorVars
<1>2. \/ UNCHANGED <<logTick, nodeTick>> /\ DOMAIN sysTick' = DOMAIN SysIdle
      \/ UNCHANGED <<sysTick, nodeTick>> /\ DOMAIN logTick' = DOMAIN logTick
      \/ UNCHANGED <<sysTick, logTick>> /\ DOMAIN nodeTick' = DOMAIN NodeIdle
  BY DEF BeginTick, BeginSysTick, BeginLogTick, BeginNodeTick, monitorVars, logVars, nodeVars
<1>3. ~Refreshing(Ticker)
  BY <1>1 DEF ThreadInv, OneTick, Ticking
<1>4. Found' /\ AfterLoop'
  BY <1>1 DEF ThreadInv, Found, AfterLoop, Refreshing
<1>5. TickRecords'
  BY <1>2 DEF ThreadInv, TickRecords, SysIdle, NodeIdle
<1>6. OneTick'
  BY <1>1, <1>2, <1>3 DEF OneTick, Ticking, Refreshing
<1> QED  BY <1>4, <1>5, <1>6 DEF ThreadInv

\* A step of one of the ticks, or of the refresh it waits for.
LEMMA TickingThread ==
  ASSUME ThreadInv, TickStep, UNCHANGED <<main, up>>
  PROVE  ThreadInv'
<1> USE DEF ThreadInv
<1>1. CASE SysTickStep /\ UNCHANGED <<logVars, nodeVars, inspectorVars>>
  <2>1. UNCHANGED <<nodesMap, call, logTick, nodeTick, ticker>>
    BY <1>1 DEF TickStep, logVars, nodeVars, inspectorVars
  <2>2. sysTick.at # "idle"
    BY <1>1 DEF SysTickStep, RefreshSystemCpu, ScanNext, InstallScan, RefreshGpu, ShowTrees
  <2>3. DOMAIN sysTick' = DOMAIN sysTick \/ DOMAIN sysTick' = DOMAIN SysIdle
    BY <1>1 DEF SysTickStep, RefreshSystemCpu, ScanNext, InstallScan, RefreshGpu, ShowTrees
  <2> QED
    BY <2>1, <2>2, <2>3
    DEF Found, TickRecords, OneTick, AfterLoop, Refreshing, Ticking, SysIdle
<1>2. CASE LogTickStep /\ UNCHANGED <<monitorVars, nodeVars>>
  <2>1. UNCHANGED <<sysTick, nodeTick, ticker>>
    BY <1>2 DEF TickStep, monitorVars, nodeVars
  <2>2. logTick.at # "idle"
    BY <1>2 DEF LogTickStep, ReadGeneration, ReadLines, ReadSources, CommitLines,
                RefreshNodeNames, ReadNodeNames, SetNodeNames
  <2>3. DOMAIN logTick' = DOMAIN logTick \/ DOMAIN logTick' = DOMAIN LogIdle
    BY <1>2 DEF LogTickStep, ReadGeneration, ReadLines, ReadSources, CommitLines,
                RefreshNodeNames, ReadNodeNames, SetNodeNames
  <2>4. CASE RefreshNodeNames
    <3>1. logTick.at = "nodes" /\ logTick'.at = "names"
      BY <2>4 DEF RefreshNodeNames, LogIdle
    <3>2. Found' /\ call'[Looper] = call[Looper]
      BY <2>4, RefreshBegins DEF RefreshNodeNames, Threads, Ticker, Looper
    <3> QED
      BY <2>1, <2>3, <3>1, <3>2
      DEF TickRecords, OneTick, AfterLoop, Refreshing, Ticking, LogIdle
  <2>5. CASE UNCHANGED inspectorVars /\ ~RefreshNodeNames
    <3>1. UNCHANGED <<nodesMap, call>>
      BY <2>5 DEF inspectorVars
    <3>2. Refreshing(Ticker) => FALSE
      <4>1. logTick.at # "names" => ~Refreshing(Ticker)
        BY <2>2 DEF OneTick
      <4>2. logTick.at = "names" => ~Refreshing(Ticker)
        BY <1>2, <2>5
        DEF LogTickStep, ReadGeneration, ReadLines, ReadSources, CommitLines,
            ReadNodeNames, SetNodeNames
      <4> QED  BY <4>1, <4>2
    <3> QED
      BY <2>1, <2>2, <2>3, <3>1, <3>2
      DEF Found, TickRecords, OneTick, AfterLoop, Refreshing, Ticking, LogIdle
  <2> QED  BY <1>2, <2>4, <2>5 DEF LogTickStep
<1>3. CASE NodeTickStep /\ UNCHANGED <<monitorVars, logVars>>
  <2>1. UNCHANGED <<sysTick, logTick, ticker>>
    BY <1>3 DEF TickStep, monitorVars, logVars
  <2>2. nodeTick.at # "idle" /\ DOMAIN nodeTick' = DOMAIN NodeIdle
    BY <1>3 DEF NodeTickStep, RefreshNodes, ReadNodes, CommitNodes, NodeIdle
  <2>3. CASE RefreshNodes
    <3>1. nodeTick.at = "refresh" /\ nodeTick'.at = "nodes"
      BY <2>3 DEF RefreshNodes, NodeIdle
    <3>2. Found' /\ call'[Looper] = call[Looper]
      BY <2>3, RefreshBegins DEF RefreshNodes, Threads, Ticker, Looper
    <3> QED
      BY <2>1, <2>2, <3>1, <3>2
      DEF TickRecords, OneTick, AfterLoop, Refreshing, Ticking, NodeIdle
  <2>4. CASE ReadNodes \/ CommitNodes
    <3>1. UNCHANGED <<nodesMap, call>>
      BY <2>4 DEF ReadNodes, CommitNodes, inspectorVars
    <3>2. ~Refreshing(Ticker)
      BY <2>2, <2>4 DEF ReadNodes, CommitNodes, OneTick
    <3> QED
      BY <2>1, <2>2, <3>1, <3>2
      DEF Found, TickRecords, OneTick, AfterLoop, Refreshing, Ticking, NodeIdle
  <2> QED  BY <1>3, <2>3, <2>4 DEF NodeTickStep
<1>4. CASE RefreshStep(Ticker) /\ UNCHANGED <<monitorVars, logVars, nodeVars>>
  <2>1. UNCHANGED <<sysTick, logTick, nodeTick, ticker>>
    BY <1>4 DEF TickStep, monitorVars, logVars, nodeVars
  <2>2. Found' /\ Refreshing(Ticker) /\ call'[Looper] = call[Looper]
    BY <1>4, RefreshGoesOn DEF Threads, Ticker, Looper
  <2> QED
    BY <2>1, <2>2 DEF TickRecords, OneTick, AfterLoop, Refreshing, Ticking
<1> QED  BY <1>1, <1>2, <1>3, <1>4 DEF TickStep

\* The loop refreshes the nodes only while it runs.
LEMMA LoopThread ==
  ASSUME ThreadInv, Found', main \in {"loop"} \/ Refreshing(Looper),
         call'[Ticker] = call[Ticker],
         UNCHANGED <<sysTick, logTick, nodeTick, main, up, ticker>>
  PROVE  ThreadInv'
  BY DEF ThreadInv, TickRecords, OneTick, AfterLoop, Refreshing, Ticking

\* A key, whatever it means to the tab on display.
LEMMA KeyThread == ASSUME ThreadInv, NEW key, Press(key) PROVE ThreadInv'
<1> USE DEF monitorVars, logVars, nodeVars, inspectorVars
<1>1. main = "loop" /\ UNCHANGED <<main, ticker>>
  BY DEF Press, LoopFree
<1>2. CASE SwitchTab(key) \/ QuitKey
  BY <1>1, <1>2, LoweredThread DEF SwitchTab, QuitKey
<1>3. CASE Forward(key)
  <2>1. UNCHANGED <<sysTick, up>>
    BY <1>3 DEF Forward
  <2>2. CASE LaunchKey(key) /\ UNCHANGED <<logVars, nodeVars, inspectorVars>>
    BY <1>1, <2>1, <2>2, ThreadElsewhere DEF threadVars
  <2>3. CASE LogKey(key) /\ UNCHANGED <<launchVars, nodeVars, inspectorVars>>
    BY <1>1, <2>1, <2>3, ThreadElsewhere DEF threadVars, LogKey
  <2>4. CASE NodeKey(key) /\ UNCHANGED <<launchVars, logVars>>
    <3>1. UNCHANGED <<logTick, nodeTick>>
      BY <2>4 DEF NodeKey
    <3>2. CASE UNCHANGED inspectorVars
      BY <1>1, <2>1, <3>1, <3>2, ThreadElsewhere DEF threadVars
    <3>3. CASE Refresh(Looper)
      <4>1. Found' /\ call'[Ticker] = call[Ticker]
        BY <3>3, RefreshBegins DEF ThreadInv, Threads, Ticker, Looper
      <4> QED  BY <1>1, <2>1, <3>1, <4>1, LoopThread
    <3> QED  BY <2>4, <3>2, <3>3 DEF NodeKey
  <2> QED  BY <1>3, <2>2, <2>3, <2>4 DEF Forward
<1> QED  BY <1>2, <1>3 DEF Press

\* Every step keeps it.
LEMMA NextThread == ASSUME ThreadInv, [TuiNext]_vars PROVE ThreadInv'
<1> USE DEF monitorVars, machineVars, statVars, logVars, nodeVars, inspectorVars, runnerVars
<1>1. CASE MainStep
  BY <1>1, MainThread
<1>2. CASE HandlerStep
  BY <1>2, LoweredThread DEF HandlerStep, Signal, StopTicking, LeaveScreen
<1>3. CASE TickThread
  <2>1. UNCHANGED <<main, up>>
    BY <1>3 DEF TickThread
  <2>2. CASE EndTicking
    <3>1. UNCHANGED <<nodesMap, call, sysTick, logTick, nodeTick>>
      BY <2>2 DEF EndTicking
    <3>2. ticker' = "ended" /\ ~Ticking
      BY <2>2 DEF EndTicking
    <3> QED
      BY <2>1, <3>1, <3>2
      DEF ThreadInv, Found, TickRecords, OneTick, AfterLoop, Refreshing, Ticking
  <2> QED  BY <1>3, <2>1, <2>2, BeginThread, TickingThread DEF TickThread
<1>4. CASE TypeKey
  BY <1>4, KeyThread DEF TypeKey
<1>5. CASE Draw
  BY <1>5, ThreadElsewhere DEF Draw, DrawLogs, DrawNodes, threadVars
<1>6. CASE RefreshOnLoop
  <2>1. Found' /\ Refreshing(Looper) /\ call'[Ticker] = call[Ticker]
    BY <1>6, RefreshGoesOn DEF ThreadInv, RefreshOnLoop, Threads, Ticker, Looper
  <2> QED  BY <1>6, <2>1, LoopThread DEF RefreshOnLoop
<1>7. CASE Machine
  BY <1>7, ThreadElsewhere DEF Machine, Start, Work, Exit, threadVars
<1>8. CASE NextLine
  BY <1>8, ThreadElsewhere DEF NextLine, PushLine, threadVars
<1>9. CASE Graph \/ GraphInterval
  BY <1>9, ThreadElsewhere DEF Graph, GraphChanges, GraphInterval, IntervalPasses, threadVars
<1>10. CASE Resize
  BY <1>10, ThreadElsewhere DEF Resize, threadVars
<1>11. CASE Notice \/ ProcInterval \/ GpuInterval
  BY <1>11, ThreadElsewhere
  DEF Notice, NoticeExit, ProcInterval, ProcIntervalPasses, GpuInterval, GpuIntervalPasses,
      threadVars
<1>12. CASE UNCHANGED vars
  BY <1>12, ThreadElsewhere DEF vars, threadVars
<1> QED
  BY <1>1, <1>2, <1>3, <1>4, <1>5, <1>6, <1>7, <1>8, <1>9, <1>10, <1>11, <1>12 DEF TuiNext

-----------------------------------------------------------------------------
(* The lists of the screens *)

\* The lengths and heights that frames give to the lists are numbers.
Counted ==
    /\ rows \in Nat
    /\ profile \in 1..Len(Profiles)
    /\ DOMAIN shownNodes \subseteq Nodes /\ DOMAIN nodeTick.nodes \subseteq Nodes

ListInv == Behind(launchList) /\ Behind(nodeList) /\ Counted

RunnerInv == ThreadInv /\ ListInv

\* What a step does to the lists and the numbers they depend on.
ListStep ==
    /\ ListInv'
    /\ KeepsSight(launchList, launchList') /\ KeepsSight(nodeList, nodeList')

listVars == <<launchList, nodeList, rows, profile, shownNodes, nodeTick>>

\* Steps that touch no list keep rows on display.
LEMMA ListElsewhere == ListInv /\ UNCHANGED listVars => ListStep
  BY StayKeeps DEF ListInv, Counted, ListStep, listVars

\* Lists are empty at first.
LEMMA InitList == TuiInit => ListInv
<1> SUFFICES ASSUME TuiInit PROVE ListInv
  OBVIOUS
<1>1. launchList = NewList(TRUE) /\ nodeList = NewList(TRUE)
  BY DEF TuiInit, LaunchInit, NodeInit
<1>2. Behind(NewList(TRUE))
  BY DEF NewList, Behind, ListFields
<1>3. rows \in Nat
  BY RunnerAssumption DEF TuiInit
<1>4. profile \in 1..Len(Profiles)
  BY ProfilesAssumption DEF TuiInit, LaunchInit
<1>5. DOMAIN shownNodes \subseteq Nodes /\ DOMAIN nodeTick.nodes \subseteq Nodes
  BY DEF TuiInit, NodeInit, NodeIdle
<1> QED  BY <1>1, <1>2, <1>3, <1>4, <1>5 DEF ListInv, Counted

\* The tick of the node screen stores nodes, and only nodes.
LEMMA NodeTickList ==
  ASSUME RunnerInv, NodeTickStep, UNCHANGED <<launchList, rows, profile>>
  PROVE  ListStep
<1> USE DEF RunnerInv, ThreadInv, TickRecords, ListInv, Counted
<1>1. nodeList' = nodeList
  BY DEF NodeTickStep, RefreshNodes, ReadNodes, CommitNodes
<1>2. DOMAIN shownNodes' \subseteq Nodes /\ DOMAIN nodeTick'.nodes \subseteq Nodes
  <2>1. CASE RefreshNodes
    BY <2>1 DEF RefreshNodes, NodeIdle
  <2>2. CASE ReadNodes
    BY <2>2 DEF ReadNodes, Found
  <2>3. CASE CommitNodes
    BY <2>3 DEF CommitNodes, NodeIdle
  <2> QED  BY <2>1, <2>2, <2>3 DEF NodeTickStep
<1> QED  BY <1>1, <1>2, StayKeeps DEF ListStep

\* A key keeps the selected row of every list on display.
LEMMA KeyList == ASSUME RunnerInv, NEW key, Press(key) PROVE ListStep
<1> USE DEF RunnerInv, nodeVars, launchVars
<1>1. rows' = rows
  BY DEF Press
<1>2. CASE SwitchTab(key) \/ QuitKey
  BY <1>1, <1>2, ListElsewhere DEF SwitchTab, QuitKey, listVars
<1>3. CASE LaunchKey(key) /\ UNCHANGED nodeVars
  <2>1. UNCHANGED <<nodeList, shownNodes, nodeTick>>
    BY <1>3
  <2>2. CASE key \in ListKeys /\ MoveInLaunchList(key)
    <3>1. launchList' = PressList(launchList, key) /\ profile' = profile
      BY <2>2 DEF MoveInLaunchList
    <3>2. Behind(launchList') /\ KeepsSight(launchList, launchList')
      BY <2>2, <3>1, PressKeeps DEF ListInv
    <3> QED  BY <1>1, <2>1, <3>1, <3>2, StayKeeps DEF ListStep, ListInv, Counted
  <2>3. CASE ToggleTree
    BY <1>1, <2>1, <2>3, ListElsewhere DEF ToggleTree, listVars
  <2>4. CASE NextProfile
    <3>1. profile' \in 1..Len(Profiles)
      BY <2>4, ProfilesAssumption DEF NextProfile, ListInv, Counted
    <3>2. launchList' = launchList
      BY <2>4 DEF NextProfile
    <3> QED  BY <1>1, <2>1, <3>1, <3>2, StayKeeps DEF ListStep, ListInv, Counted
  <2>5. CASE UNCHANGED launchVars
    BY <1>1, <2>1, <2>5, ListElsewhere DEF listVars
  <2> QED  BY <1>3, <2>2, <2>3, <2>4, <2>5 DEF LaunchKey
<1>4. CASE LogKey(key) /\ UNCHANGED <<launchVars, nodeVars>>
  BY <1>1, <1>4, ListElsewhere DEF listVars
<1>5. CASE NodeKey(key) /\ UNCHANGED launchVars
  <2>1. UNCHANGED <<shownNodes, nodeTick, launchList, profile>>
    BY <1>5 DEF NodeKey
  <2>2. CASE key \in ListKeys /\ nodeList' = PressList(nodeList, key)
    <3>1. Behind(nodeList') /\ KeepsSight(nodeList, nodeList')
      BY <2>2, PressKeeps DEF ListInv
    <3> QED  BY <1>1, <2>1, <3>1, StayKeeps DEF ListStep, ListInv, Counted
  <2>3. CASE UNCHANGED nodeList
    BY <1>1, <2>1, <2>3, ListElsewhere DEF listVars
  <2> QED  BY <1>5, <2>2, <2>3 DEF NodeKey
<1> QED  BY <1>2, <1>3, <1>4, <1>5 DEF Press, Forward

\* So does a frame.
LEMMA DrawList == ASSUME RunnerInv, Draw PROVE ListStep
<1> USE DEF RunnerInv, nodeVars, launchVars
<1>1. rows' = rows /\ rows \in Nat
  BY DEF Draw, ListInv, Counted
<1>2. CASE DrawLaunch(rows) /\ UNCHANGED nodeVars
  <2>1. UNCHANGED <<nodeList, shownNodes, nodeTick, profile>>
    BY <1>2 DEF DrawLaunch
  <2>2. Max({3, rows - 20}) \in Int
    BY <1>1, MaxOfTwo
  <2>3. Len(Entries) \in Nat
    BY ProfilesAssumption DEF Entries, ListInv, Counted
  <2>4. launchList' = Shape(launchList, Max({3, rows - 20}), Len(Entries))
    BY <1>2 DEF DrawLaunch
  <2>5. Behind(launchList') /\ KeepsSight(launchList, launchList')
    BY <2>2, <2>3, <2>4, ShapeKeeps DEF ListInv
  <2> QED  BY <1>1, <2>1, <2>5, StayKeeps DEF ListStep, ListInv, Counted
<1>3. CASE DrawNodes(rows) /\ UNCHANGED launchVars
  <2>1. UNCHANGED <<launchList, shownNodes, nodeTick, profile>>
    BY <1>3 DEF DrawNodes
  <2>2. Max({3, rows - 12}) \in Int
    BY <1>1, MaxOfTwo
  <2>3. Cardinality(DOMAIN shownNodes) \in Nat
    BY NodesAssumption, FS_Subset, FS_CardinalityType DEF ListInv, Counted
  <2>4. nodeList' = Shape(nodeList, Max({3, rows - 12}), Cardinality(DOMAIN shownNodes))
    BY <1>3 DEF DrawNodes
  <2>5. Behind(nodeList') /\ KeepsSight(nodeList, nodeList')
    BY <2>2, <2>3, <2>4, ShapeKeeps DEF ListInv
  <2> QED  BY <1>1, <2>1, <2>5, StayKeeps DEF ListStep, ListInv, Counted
<1>4. CASE UNCHANGED <<launchVars, nodeVars>>
  BY <1>1, <1>4, ListElsewhere DEF listVars
<1> QED  BY <1>2, <1>3, <1>4 DEF Draw

\* So does every step.
LEMMA NextList == ASSUME RunnerInv, [TuiNext]_vars PROVE ListStep
<1> USE DEF RunnerInv, launchVars, nodeVars
<1>1. CASE MainStep
  BY <1>1, ListElsewhere DEF MainStep, listVars
<1>2. CASE HandlerStep
  BY <1>2, ListElsewhere DEF HandlerStep, listVars
<1>3. CASE TickThread
  <2>1. UNCHANGED <<launchList, rows, profile>>
    BY <1>3 DEF TickThread, BeginTick, TickStep, EndTicking
  <2>2. CASE UNCHANGED nodeVars
    BY <2>1, <2>2, ListElsewhere DEF listVars
  <2>3. CASE BeginNodeTick
    BY <2>1, <2>3, StayKeeps DEF BeginNodeTick, NodeIdle, ListStep, ListInv, Counted
  <2>4. CASE NodeTickStep
    BY <2>1, <2>4, NodeTickList
  <2> QED  BY <1>3, <2>2, <2>3, <2>4 DEF TickThread, BeginTick, TickStep, EndTicking
<1>4. CASE TypeKey
  BY <1>4, KeyList DEF TypeKey
<1>5. CASE Draw
  BY <1>5, DrawList
<1>6. CASE Resize
  <2>1. rows' \in Nat
    BY <1>6, RunnerAssumption DEF Resize
  <2>2. UNCHANGED <<launchList, nodeList, profile, shownNodes, nodeTick>>
    BY <1>6 DEF Resize
  <2> QED  BY <2>1, <2>2, StayKeeps DEF ListStep, ListInv, Counted
<1>7. CASE RefreshOnLoop \/ Machine \/ NextLine \/ Graph
  BY <1>7, ListElsewhere DEF RefreshOnLoop, Machine, NextLine, Graph, listVars
<1>8. CASE Notice \/ ProcInterval \/ GpuInterval \/ GraphInterval
  BY <1>8, ListElsewhere DEF Notice, ProcInterval, GpuInterval, GraphInterval, listVars
<1>9. CASE UNCHANGED vars
  BY <1>9, ListElsewhere DEF vars, listVars
<1> QED
  BY <1>1, <1>2, <1>3, <1>4, <1>5, <1>6, <1>7, <1>8, <1>9 DEF TuiNext

-----------------------------------------------------------------------------
\* Threads and lists together: the invariant of the composition.
LEMMA RunnerInductive == TuiSpec => []RunnerInv
<1>1. TuiInit => RunnerInv
  BY InitThread, InitList DEF RunnerInv
<1>2. RunnerInv /\ [TuiNext]_vars => RunnerInv'
  BY NextThread, NextList DEF RunnerInv, ListStep
<1> QED  BY <1>1, <1>2, PTL DEF TuiSpec

\* One screen is ticked at a time; once TuiRunner::run has joined the tick thread
\* neither it nor the event loop is at work on the screens or the inspector, so
\* runTui may destroy them; and a list's rows never start below its selection.
THEOREM TuiStructure == TuiSpec => []TuiInv
<1>1. RunnerInv => TuiInv
  <2>1. RunnerInv => RowsBehindSelection
    BY DEF RunnerInv, ListInv, Behind, RowsBehindSelection
  <2>2. RunnerInv => QuietOnceJoined
    BY DEF RunnerInv, ThreadInv, OneTick, AfterLoop, QuietOnceJoined, Ticking, Threads
  <2> QED  BY <2>1, <2>2 DEF RunnerInv, ThreadInv, TuiInv
<1> QED  BY <1>1, RunnerInductive, PTL

\* Whatever keys, frames and changes come, the selected row of a list that was in
\* sight stays in sight while the list keeps its height (ScrollableList::
\* ensureSelectedVisible and visibleRange).
THEOREM SelectionInSight == TuiSpec => SightKept
<1>1. RunnerInv /\ [TuiNext]_vars =>
        [\A pair \in {<<launchList, launchList'>>, <<nodeList, nodeList'>>} :
          /\ pair[1].height = pair[2].height
          /\ InSight(pair[1])
          /\ pair[2].selected < pair[2].count
          => InSight(pair[2])]_vars
  BY NextList DEF ListStep, KeepsSight
<1> QED  BY <1>1, RunnerInductive, PTL DEF TuiSpec, SightKept
-----------------------------------------------------------------------------
(* Trees of processes *)

\* A process has a higher rank than its parent.
BornAfter(rank, map) ==
    \A q \in DOMAIN map : map[q].parent \in Pids => rank[map[q].parent] < rank[q]

\* The table is finite and has no cycle.
TableInv ==
    /\ IsFiniteSet(DOMAIN table) /\ DOMAIN table \subseteq Pids
    /\ \A q \in DOMAIN table : table[q].share \in Int
    /\ \E rank \in [Pids -> Nat] : BornAfter(rank, table)

\* What buildTree finds under p in the index.
Kids(p) == {c \in DOMAIN table \ {p} : table[c].parent = p}

\* The index is that of the table.
IndexInv == children = [p \in Pids \union {0} |-> Kids(p)]

\* p and its descendants in the table.
Family(p) == Descendants(p, [q \in DOMAIN table |-> table[q].parent])

\* A family has its root and is closed under children, and is the least such set.
LEMMA FamilyLeast ==
  ASSUME NEW p
  PROVE  /\ p \in Family(p) /\ Family(p) \subseteq DOMAIN table \union {p}
         /\ \A q \in DOMAIN table : table[q].parent \in Family(p) => q \in Family(p)
         /\ \A S : p \in S /\ (\A q \in DOMAIN table : table[q].parent \in S => q \in S)
                   => Family(p) \subseteq S
<1>. DEFINE all == DOMAIN table \union {p}
            Closed(S) == \A q \in DOMAIN table : table[q].parent \in S => q \in S
<1>1. Family(p) = {q \in all : \A S \in SUBSET all : p \in S /\ Closed(S) => q \in S}
  BY DEF Family, Descendants
<1>2. ASSUME NEW S, p \in S, Closed(S) PROVE Family(p) \subseteq S
  <2>1. S \intersect all \in SUBSET all /\ p \in S \intersect all /\ Closed(S \intersect all)
    BY <1>2
  <2>. QED  BY <1>1, <2>1
<1>3. p \in Family(p) /\ Family(p) \subseteq all
  BY <1>1
<1>4. ASSUME NEW q \in DOMAIN table, table[q].parent \in Family(p) PROVE q \in Family(p)
  BY <1>1, <1>4
<1>. QED  BY <1>2, <1>3, <1>4

\* It is made of its root and the families of the root's children.
LEMMA FamilyOf ==
  ASSUME NEW p
  PROVE  Family(p) = {p} \union UNION {Family(c) : c \in Kids(p)}
<1>. DEFINE S == {p} \union UNION {Family(c) : c \in Kids(p)}
<1>1. \A c \in Kids(p) : c \in DOMAIN table /\ table[c].parent = p
  BY DEF Kids
<1>2. \A c \in Kids(p) : Family(c) \subseteq Family(p)
  BY <1>1, FamilyLeast
<1>3. ASSUME NEW q \in DOMAIN table, table[q].parent \in S PROVE q \in S
  <2>1. CASE table[q].parent = p
    <3>1. q = p \/ q \in Kids(p)
      BY <2>1 DEF Kids
    <3>. QED  BY <3>1, FamilyLeast
  <2>2. CASE \E c \in Kids(p) : table[q].parent \in Family(c)
    BY <2>2, FamilyLeast
  <2>. QED  BY <1>3, <2>1, <2>2
<1>4. Family(p) \subseteq S
  <2>1. p \in S
    OBVIOUS
  <2>. HIDE DEF S
  <2>. QED  BY <1>3, <2>1, FamilyLeast
<1>. QED  BY <1>2, <1>4, FamilyLeast

\* A member other than the root has its parent in the family.
LEMMA FamilyUp ==
  ASSUME NEW p
  PROVE  \A q \in Family(p) : q # p => q \in DOMAIN table /\ table[q].parent \in Family(p)
<1>. DEFINE S == {p} \union {r \in Family(p) \intersect DOMAIN table : table[r].parent \in Family(p)}
<1>1. p \in S
  OBVIOUS
<1>2. \A r \in DOMAIN table : table[r].parent \in S => r \in S
  BY FamilyLeast
<1>3. Family(p) \subseteq S
  <2>. HIDE DEF S
  <2>. QED  BY <1>1, <1>2, FamilyLeast
<1>. QED  BY <1>3

\* And a higher rank than the root.
LEMMA FamilyRank ==
  ASSUME TableInv, NEW rank \in [Pids -> Nat], BornAfter(rank, table), NEW p \in Pids
  PROVE  \A q \in Family(p) : q = p \/ rank[p] < rank[q]
<1>. DEFINE S == {q \in Pids : q = p \/ rank[p] < rank[q]}
<1>1. p \in S
  OBVIOUS
<1>2. \A r \in DOMAIN table : table[r].parent \in S => r \in S
  BY DEF TableInv, BornAfter
<1>3. Family(p) \subseteq S
  <2>. HIDE DEF S
  <2>. QED  BY <1>1, <1>2, FamilyLeast
<1>. QED  BY <1>3

\* The families of two children have nobody in common, nor do they have the parent.
LEMMA FamiliesApart ==
  ASSUME TableInv, NEW p \in Pids
  PROVE  \A c \in Kids(p) :
            /\ p \notin Family(c)
            /\ \A d \in Kids(p) : c # d => Family(c) \intersect Family(d) = {}
<1>1. PICK rank \in [Pids -> Nat] : BornAfter(rank, table)
  BY DEF TableInv
<1>2. \A c \in Kids(p) : c \in DOMAIN table /\ c \in Pids /\ c # p /\ table[c].parent = p
  BY DEF Kids, TableInv
<1>3. \A c \in Kids(p) : rank[p] < rank[c] /\ rank[p] \in Nat /\ rank[c] \in Nat
  BY <1>1, <1>2 DEF BornAfter
<1>4. \A c \in Kids(p) : p \notin Family(c)
  BY <1>1, <1>2, <1>3, FamilyRank
<1>5. ASSUME NEW c \in Kids(p), NEW d \in Kids(p), c # d
      PROVE  Family(c) \intersect Family(d) = {}
  <2>. DEFINE S == Family(c) \ Family(d)
  <2>1. c \in S
    BY <1>2, <1>4, <1>5, FamilyUp, FamilyLeast
  <2>2. ASSUME NEW r \in DOMAIN table, table[r].parent \in S PROVE r \in S
    <3>1. r \in Family(c)
      BY <2>2, FamilyLeast
    <3>2. CASE r = d
      BY <1>2, <1>4, <2>2, <3>2
    <3>3. CASE r # d
      BY <2>2, <3>1, <3>3, FamilyUp
    <3>. QED  BY <3>2, <3>3
  <2>3. Family(c) \subseteq S
    <3>. HIDE DEF S
    <3>. QED  BY <2>1, <2>2, FamilyLeast
  <2>. QED  BY <2>3
<1>. QED  BY <1>4, <1>5

\* The shares of the table, a process's own one, and what a family takes.
Shares == [q \in DOMAIN table |-> table[q].share]

Own(p) == IF p \in DOMAIN table THEN table[p].share ELSE 0

Total(p) == SumFunctionOnSet(Shares, Family(p) \intersect DOMAIN table)

\* What a family takes is what its root and the families of the root's children take.
LEMMA TotalOf ==
  ASSUME TableInv, NEW p \in Pids
  PROVE  Total(p) = Own(p) + SumFunctionOnSet([c \in Kids(p) |-> Total(c)], Kids(p))
<1>. DEFINE T == DOMAIN table
            K == Kids(p)
            part == [c \in K |-> Family(c) \intersect T]
            g == [c \in K |-> Total(c)]
            U == UNION {part[c] : c \in K}
            Sm(A) == SumFunctionOnSet(Shares, A)
<1>1. IsFiniteSet(T) /\ Shares \in [T -> Int] /\ T \subseteq Pids
  BY DEF TableInv, Shares
<1>2. /\ Sm({}) = 0
      /\ \A A \in SUBSET T : Sm(A) \in Int /\ \A x \in A : Sm(A) = Shares[x] + Sm(A \ {x})
  <2>1. SumsUp(Shares, T)
    BY <1>1, Sums, Zenon
  <2>. QED  BY <2>1, Zenon DEF SumsUp
<1>3. K \in SUBSET T /\ IsFiniteSet(K)
  <2>1. K \in SUBSET T
    BY DEF Kids
  <2>. QED  BY <1>1, <2>1, FS_Subset
<1>4. part \in [K -> SUBSET T]
  OBVIOUS
<1>5. \A c, d \in K : c # d => part[c] \intersect part[d] = {}
  BY FamiliesApart
<1>6. \A c \in K : g[c] = Sm(part[c]) /\ g[c] \in Int
  <2>1. \A c \in K : g[c] = Sm(part[c])
    BY DEF Total
  <2>. HIDE DEF Sm, part, g
  <2>. QED  BY <1>2, <1>4, <2>1
<1>7. g \in [K -> Int]
  BY <1>6
<1>8. U \in SUBSET T /\ p \notin U
  BY FamiliesApart
<1>9. Family(p) \intersect T = IF p \in T THEN {p} \union U ELSE U
  BY FamilyOf
<1>10. Own(p) = IF p \in T THEN Shares[p] ELSE 0
  BY DEF Own, Shares
<1>11. SumFunctionOnSet(g, K) = Sm(U)
  <2>. HIDE DEF T, K, part, g
  <2>1. \A c \in K : g[c] = SumFunctionOnSet(Shares, part[c])
    BY <1>6
  <2>. QED  BY <1>1, <1>3, <1>4, <1>5, <1>7, <2>1, SumOfParts
<1>. HIDE DEF U, part
<1>12. Sm(Family(p) \intersect T) = Own(p) + Sm(U)
  <2>. HIDE DEF T, Sm
  <2>1. CASE p \in T
    <3>1. {p} \union U \in SUBSET T /\ p \in {p} \union U /\ ({p} \union U) \ {p} = U
      BY <1>8, <2>1
    <3>. QED  BY <1>2, <1>9, <1>10, <2>1, <3>1
  <2>2. CASE p \notin T
    <3>1. Sm(U) \in Int
      BY <1>2, <1>8
    <3>2. Family(p) \intersect T = U /\ Own(p) = 0
      BY <1>9, <1>10, <2>2
    <3>3. Sm(Family(p) \intersect T) = Sm(U)
      BY <3>2
    <3>4. Own(p) + Sm(U) = Sm(U)
      BY <3>1, <3>2
    <3>. QED  BY <3>3, <3>4
  <2>. QED  BY <2>1, <2>2
<1>. QED  BY <1>11, <1>12 DEF Total

\* What buildTree computes, as an equation.
Builds(b) ==
    b = [p \in Pids |->
            [members |-> {p} \union UNION {b[c].members : c \in children[p]},
             total |-> (IF p \in DOMAIN table THEN table[p].share ELSE 0)
                          + SumFunction([c \in children[p] |-> b[c].total])]]

\* The trees as TotalsAddUp wants them.
Families == [p \in Pids |-> [members |-> Family(p), total |-> Total(p)]]

\* Two trees are the same if those of the children of their root are.
LEMMA SameTree ==
  ASSUME TableInv, IndexInv, NEW b, Builds(b), NEW p \in Pids,
         \A c \in Kids(p) : b[c] = Families[c]
  PROVE  b[p] = Families[p]
<1>1. children[p] = Kids(p) /\ Kids(p) \subseteq Pids
  BY DEF IndexInv, Kids, TableInv
<1>2. b[p] = [members |-> {p} \union UNION {b[c].members : c \in Kids(p)},
              total |-> Own(p) + SumFunction([c \in Kids(p) |-> b[c].total])]
  BY <1>1 DEF Builds, Own
<1>3. \A c \in Kids(p) : b[c].members = Family(c) /\ b[c].total = Total(c)
  <2>. SUFFICES ASSUME NEW c \in Kids(p) PROVE b[c].members = Family(c) /\ b[c].total = Total(c)
    OBVIOUS
  <2>1. Families[c] = [members |-> Family(c), total |-> Total(c)]
    BY <1>1 DEF Families
  <2>2. b[c] = [members |-> Family(c), total |-> Total(c)]
    BY <2>1
  <2>. QED  BY <2>2
<1>4. {b[c].members : c \in Kids(p)} = {Family(c) : c \in Kids(p)}
  BY <1>3
<1>5. [c \in Kids(p) |-> b[c].total] = [c \in Kids(p) |-> Total(c)]
  BY <1>3
<1>6. SumFunction([c \in Kids(p) |-> Total(c)])
        = SumFunctionOnSet([c \in Kids(p) |-> Total(c)], Kids(p))
  BY DEF SumFunction
<1>7. b[p].members = Family(p) /\ b[p].total = Total(p)
  <2>1. Family(p) = {p} \union UNION {b[c].members : c \in Kids(p)}
    BY <1>4, FamilyOf, Zenon
  <2>2. Total(p) = Own(p) + SumFunction([c \in Kids(p) |-> b[c].total])
    BY <1>5, <1>6, TotalOf, Zenon
  <2>3. /\ b[p].members = {p} \union UNION {b[c].members : c \in Kids(p)}
        /\ b[p].total = Own(p) + SumFunction([c \in Kids(p) |-> b[c].total])
    BY <1>2
  <2>. QED  BY <2>1, <2>2, <2>3, Zenon
<1>. QED  BY <1>2, <1>7 DEF Families

\* The families are a solution.
LEMMA FamiliesBuild == ASSUME TableInv, IndexInv PROVE Builds(Families)
<1>. SUFFICES ASSUME NEW p \in Pids
              PROVE  Families[p] =
                       [members |-> {p} \union UNION {Families[c].members : c \in children[p]},
                        total |-> (IF p \in DOMAIN table THEN table[p].share ELSE 0)
                                     + SumFunction([c \in children[p] |-> Families[c].total])]
  BY DEF Builds, Families
<1>1. children[p] = Kids(p) /\ Kids(p) \subseteq Pids
  BY DEF IndexInv, Kids, TableInv
<1>2. \A c \in Kids(p) : Families[c].members = Family(c) /\ Families[c].total = Total(c)
  BY <1>1 DEF Families
<1>3. {Families[c].members : c \in Kids(p)} = {Family(c) : c \in Kids(p)}
  BY <1>2
<1>4. [c \in Kids(p) |-> Families[c].total] = [c \in Kids(p) |-> Total(c)]
  BY <1>2
<1>5. SumFunction([c \in Kids(p) |-> Total(c)])
        = SumFunctionOnSet([c \in Kids(p) |-> Total(c)], Kids(p))
  BY DEF SumFunction
<1>6. Families[p] = [members |-> Family(p), total |-> Total(p)]
  BY DEF Families
<1>. QED  BY <1>1, <1>3, <1>4, <1>5, <1>6, FamilyOf, TotalOf DEF Own

\* Ranks in the table have a bound.
LEMMA RankBound ==
  ASSUME TableInv, NEW rank \in [Pids -> Nat]
  PROVE  \E m \in Nat : \A q \in DOMAIN table : rank[q] <= m
<1>. DEFINE T == DOMAIN table
            S == {A \in SUBSET T : \E m \in Nat : \A q \in A : rank[q] <= m}
<1>1. {} \in S
  OBVIOUS
<1>2. ASSUME NEW A \in SUBSET T, NEW k \in T \ A, A \in S PROVE A \union {k} \in S
  <2>1. PICK m \in Nat : \A q \in A : rank[q] <= m
    BY <1>2
  <2>2. \A q \in T : rank[q] \in Nat
    BY DEF TableInv
  <2>. DEFINE n == IF m <= rank[k] THEN rank[k] ELSE m
  <2>3. n \in Nat /\ \A q \in A \union {k} : rank[q] <= n
    BY <2>1, <2>2
  <2>. QED  BY <2>3
<1>3. SUBSET T \subseteq S
  <2>1. IsFiniteSet(T)
    BY DEF TableInv
  <2>. HIDE DEF S, T
  <2>. QED  BY <1>1, <1>2, <2>1, FiniteInduction
<1>. QED  BY <1>3

\* And the only one.
LEMMA OneSolution ==
  ASSUME TableInv, IndexInv, NEW b, Builds(b)
  PROVE  \A p \in Pids : b[p] = Families[p]
<1>1. PICK rank \in [Pids -> Nat] : BornAfter(rank, table)
  BY DEF TableInv
<1>2. PICK m \in Nat : \A q \in DOMAIN table : rank[q] <= m
  BY RankBound
<1>. DEFINE S == {n \in Nat : \A p \in Pids : m <= rank[p] + n => b[p] = Families[p]}
<1>3. \A p \in Pids : \A c \in Kids(p) : c \in Pids /\ rank[p] < rank[c] /\ rank[c] <= m
  BY <1>1, <1>2 DEF Kids, BornAfter, TableInv
<1>4. 0 \in S
  <2>. SUFFICES ASSUME NEW p \in Pids, m <= rank[p] + 0 PROVE b[p] = Families[p]
    OBVIOUS
  <2>1. Kids(p) = {}
    BY <1>3
  <2>. QED  BY <2>1, SameTree
<1>5. ASSUME NEW n \in Nat, n \in S PROVE n + 1 \in S
  <2>. SUFFICES ASSUME NEW p \in Pids, m <= rank[p] + (n + 1) PROVE b[p] = Families[p]
    OBVIOUS
  <2>1. \A c \in Kids(p) : b[c] = Families[c]
    BY <1>3, <1>5
  <2>. QED  BY <2>1, SameTree
<1>6. Nat \subseteq S
  <2>. HIDE DEF S
  <2>. QED  BY <1>4, <1>5, SetInduction
<1>. QED  BY <1>6

\* A tree has the members of a family, and their shares.
LEMMA TreeIsFamily ==
  ASSUME TableInv, IndexInv, NEW p \in Pids
  PROVE  Tree(p).members = Family(p) /\ Tree(p).total = Total(p)
<1>. DEFINE b == CHOOSE x : Builds(x)
<1>1. Tree(p) = b[p]
  BY DEF Tree, Builds
<1>2. Builds(b)
  BY FamiliesBuild, Zenon
<1>. HIDE DEF b
<1>3. b[p] = Families[p]
  BY <1>2, OneSolution
<1>. QED  BY <1>1, <1>3 DEF Families

-----------------------------------------------------------------------------
(* The monitor *)

\* The processes there are have parents among them, or none.
KernelInv ==
    /\ IsFiniteSet(DOMAIN kernel) /\ DOMAIN kernel \subseteq Pids
    /\ kernel \in [DOMAIN kernel -> [parent : DOMAIN kernel \union {0}, ticks : Nat]]
    /\ running \subseteq Pids
    /\ elapsed \in Nat /\ deltaTotal \in Nat
    /\ \A p \in DOMAIN prevTicks : prevTicks[p] \in Nat

\* What a scan has read is of processes that are there, or have ended since it began.
ScanInv ==
    /\ DOMAIN sysTick = {"at", "gpu", "todo", "procs", "ticks"}
    /\ sysTick.at # "scan" => DOMAIN sysTick.procs = {}
    /\ IsFiniteSet(DOMAIN sysTick.procs)
    /\ DOMAIN sysTick.procs \subseteq Pids \intersect (DOMAIN kernel \union freed)
    /\ \A q \in DOMAIN sysTick.procs :
        /\ sysTick.procs[q].parent \in DOMAIN kernel \union freed \union {0}
        /\ sysTick.procs[q].share \in Int
    /\ \A q \in DOMAIN sysTick.ticks : sysTick.ticks[q] \in Nat

\* Parents are older than children, now or when the scan has read them.
RankInv ==
    \E rank \in [Pids -> Nat] : BornAfter(rank, kernel) /\ BornAfter(rank, sysTick.procs)

\* What is shown is true of a table without cycles.
TreesInv == TableInv /\ IndexInv /\ TotalsAddUp

\* The inductive invariant of the monitor.
MonitorInv == KernelInv /\ ScanInv /\ RankInv /\ TreesInv

\* Steps that leave the figures alone keep the trees.
LEMMA TreesElsewhere ==
  ASSUME TreesInv, UNCHANGED <<table, children, trees>>,
         sysTick'.at = "idle" => sysTick.at = "idle"
  PROVE  TreesInv'
<1>1. TableInv' /\ IndexInv'
  BY DEF TreesInv, TableInv, IndexInv, BornAfter, Kids
<1>2. TotalsAddUp'
  BY DEF TreesInv, TotalsAddUp
<1>. QED  BY <1>1, <1>2 DEF TreesInv

\* Steps elsewhere keep everything.
LEMMA MonitorElsewhere == ASSUME MonitorInv, UNCHANGED monitorVars PROVE MonitorInv'
<1>. USE DEF monitorVars, machineVars, statVars
<1>1. KernelInv' /\ ScanInv' /\ RankInv'
  BY DEF MonitorInv, KernelInv, ScanInv, RankInv, BornAfter
<1>. QED  BY <1>1, TreesElsewhere DEF MonitorInv

\* There is nothing to see at first.
LEMMA InitMonitor == TuiInit => MonitorInv
<1>. SUFFICES ASSUME NEW gpu, MonitorInit(gpu) PROVE MonitorInv
  BY DEF TuiInit
<1>. USE DEF MonitorInit, SysIdle
<1>1. DOMAIN <<>> = {} /\ IsFiniteSet({})
  BY FS_EmptySet
<1>2. KernelInv
  BY <1>1, MonitorAssumption DEF KernelInv
<1>3. ScanInv
  BY <1>1 DEF ScanInv
<1>. DEFINE rank == [p \in Pids |-> 0]
<1>4. rank \in [Pids -> Nat]
  OBVIOUS
<1>5. RankInv
  BY <1>1, <1>4 DEF RankInv, BornAfter
<1>6. TableInv
  BY <1>1, <1>4 DEF TableInv, BornAfter
<1>7. IndexInv
  BY <1>1 DEF IndexInv, Kids
<1>8. TotalsAddUp
  BY <1>1 DEF TotalsAddUp
<1>. QED  BY <1>2, <1>3, <1>5, <1>6, <1>7, <1>8 DEF MonitorInv, TreesInv

\* A process that starts is the youngest: nobody has its pid for a parent.
LEMMA StartMonitor ==
  ASSUME MonitorInv, NEW p \in Pids, NEW parent \in Pids \union {0}, Start(p, parent)
  PROVE  MonitorInv'
<1>1. /\ KernelInv /\ ScanInv /\ RankInv /\ TreesInv
      /\ 0 \notin Pids
  BY MonitorAssumption DEF MonitorInv
<1>2. /\ p \notin DOMAIN kernel \union freed \union running
      /\ parent \in DOMAIN kernel \union {0}
      /\ DOMAIN kernel' = DOMAIN kernel \union {p}
      /\ kernel' = [q \in DOMAIN kernel \union {p} |->
                      IF q = p THEN [parent |-> parent, ticks |-> 0] ELSE kernel[q]]
      /\ running' \subseteq running \union {p}
      /\ UNCHANGED <<elapsed, freed, deltaTotal, prevTicks, table, children, sysTick, trees>>
  BY DEF Start, statVars
<1>3. kernel'[p].parent = parent /\ \A q \in DOMAIN kernel : kernel'[q] = kernel[q]
  BY <1>2
<1>4. KernelInv'
  <2>1. IsFiniteSet(DOMAIN kernel')
    BY <1>1, <1>2, FS_AddElement DEF KernelInv
  <2>2. kernel' \in [DOMAIN kernel' -> [parent : DOMAIN kernel' \union {0}, ticks : Nat]]
    BY <1>1, <1>2 DEF KernelInv
  <2>. QED  BY <1>1, <1>2, <2>1, <2>2 DEF KernelInv
<1>5. ScanInv'
  BY <1>1, <1>2 DEF ScanInv
<1>6. RankInv'
  <2>1. PICK rank \in [Pids -> Nat] : BornAfter(rank, kernel) /\ BornAfter(rank, sysTick.procs)
    BY <1>1 DEF RankInv
  <2>. DEFINE new == [rank EXCEPT ![p] = IF parent = 0 THEN 0 ELSE rank[parent] + 1]
  <2>2. /\ new \in [Pids -> Nat]
        /\ parent # 0 => parent \in Pids /\ parent # p /\ new[parent] < new[p]
        /\ \A q \in Pids : q # p => new[q] = rank[q]
    BY <1>1, <1>2 DEF KernelInv
  <2>. HIDE DEF new
  <2>3. BornAfter(new, kernel')
    <3>. SUFFICES ASSUME NEW q \in DOMAIN kernel', kernel'[q].parent \in Pids
                  PROVE  new[kernel'[q].parent] < new[q]
      BY DEF BornAfter
    <3>1. CASE q = p
      BY <1>1, <1>3, <2>2, <3>1
    <3>2. CASE q # p
      <4>1. /\ q \in DOMAIN kernel /\ q \in Pids /\ kernel'[q] = kernel[q]
            /\ kernel[q].parent \in DOMAIN kernel /\ kernel[q].parent # p
        BY <1>1, <1>2, <1>3, <3>2 DEF KernelInv
      <4>. QED  BY <2>1, <2>2, <3>2, <4>1 DEF BornAfter
    <3>. QED  BY <3>1, <3>2
  <2>4. BornAfter(new, sysTick'.procs)
    <3>. SUFFICES ASSUME NEW q \in DOMAIN sysTick.procs, sysTick.procs[q].parent \in Pids
                  PROVE  new[sysTick.procs[q].parent] < new[q]
      BY <1>2 DEF BornAfter
    <3>1. q \in Pids /\ q # p /\ sysTick.procs[q].parent # p
      BY <1>1, <1>2 DEF ScanInv
    <3>. QED  BY <2>1, <2>2, <3>1 DEF BornAfter
  <2>. QED  BY <2>2, <2>3, <2>4 DEF RankInv
<1>7. TreesInv'
  BY <1>1, <1>2, TreesElsewhere
<1>. QED  BY <1>4, <1>5, <1>6, <1>7 DEF MonitorInv

\* Working changes no parent.
LEMMA WorkMonitor == ASSUME MonitorInv, NEW p \in Pids, Work(p) PROVE MonitorInv'
<1>1. KernelInv /\ ScanInv /\ RankInv /\ TreesInv
  BY DEF MonitorInv
<1>2. /\ p \in DOMAIN kernel
      /\ kernel' = [kernel EXCEPT ![p].ticks = kernel[p].ticks + 1]
      /\ elapsed' = elapsed + Cpus
      /\ UNCHANGED <<running, freed, deltaTotal, prevTicks, table, children, sysTick, trees>>
  BY DEF Work, statVars
<1>3. /\ DOMAIN kernel' = DOMAIN kernel
      /\ \A q \in DOMAIN kernel : kernel'[q].parent = kernel[q].parent /\ kernel'[q].ticks \in Nat
      /\ kernel' \in [DOMAIN kernel -> [parent : DOMAIN kernel \union {0}, ticks : Nat]]
  BY <1>1, <1>2 DEF KernelInv
<1>4. KernelInv'
  BY <1>1, <1>2, <1>3, MonitorAssumption DEF KernelInv
<1>5. ScanInv'
  BY <1>1, <1>2, <1>3 DEF ScanInv
<1>6. RankInv'
  BY <1>1, <1>2, <1>3 DEF RankInv, BornAfter
<1>7. TreesInv'
  BY <1>1, <1>2, TreesElsewhere
<1>. QED  BY <1>4, <1>5, <1>6, <1>7 DEF MonitorInv

\* The children of a process that ends go to init; a scan under way remembers its pid.
LEMMA ExitMonitor == ASSUME MonitorInv, NEW p \in Pids, Exit(p) PROVE MonitorInv'
<1>1. KernelInv /\ ScanInv /\ RankInv /\ TreesInv /\ 0 \notin Pids
  BY MonitorAssumption DEF MonitorInv
<1>2. /\ p \in DOMAIN kernel
      /\ DOMAIN kernel' = DOMAIN kernel \ {p}
      /\ kernel' = [q \in DOMAIN kernel \ {p} |->
            IF kernel[q].parent = p THEN [kernel[q] EXCEPT !.parent = 0] ELSE kernel[q]]
      /\ freed \subseteq freed' /\ (sysTick.at = "scan" => p \in freed')
      /\ UNCHANGED <<running, elapsed, deltaTotal, prevTicks, table, children, sysTick, trees>>
  BY DEF Exit, statVars
<1>3. /\ \A q \in DOMAIN kernel' :
            /\ kernel'[q].parent = (IF kernel[q].parent = p THEN 0 ELSE kernel[q].parent)
            /\ kernel'[q] \in [parent : DOMAIN kernel' \union {0}, ticks : Nat]
  BY <1>1, <1>2 DEF KernelInv
<1>4. KernelInv'
  <2>1. IsFiniteSet(DOMAIN kernel')
    BY <1>1, <1>2, FS_RemoveElement DEF KernelInv
  <2>2. kernel' \in [DOMAIN kernel' -> [parent : DOMAIN kernel' \union {0}, ticks : Nat]]
    BY <1>2, <1>3
  <2>. QED  BY <1>1, <1>2, <2>1, <2>2 DEF KernelInv
<1>5. ScanInv'
  <2>1. DOMAIN sysTick.procs # {} => DOMAIN kernel \union freed \subseteq DOMAIN kernel' \union freed'
    BY <1>1, <1>2 DEF ScanInv
  <2>. QED  BY <1>1, <1>2, <2>1 DEF ScanInv
<1>6. RankInv'
  BY <1>1, <1>2, <1>3 DEF RankInv, BornAfter
<1>7. TreesInv'
  BY <1>1, <1>2, TreesElsewhere
<1>. QED  BY <1>4, <1>5, <1>6, <1>7 DEF MonitorInv

\* The other steps around the monitor, and the beginning of a tick.
LEMMA TimeMonitor ==
  ASSUME MonitorInv,
         \/ \E p \in Pids : NoticeExit(p)
         \/ ProcIntervalPasses \/ GpuIntervalPasses
         \/ sysTick.at = "idle" /\ BeginSysTick
  PROVE  MonitorInv'
<1>1. KernelInv /\ ScanInv /\ RankInv /\ TreesInv
  BY DEF MonitorInv
<1>2. /\ UNCHANGED <<kernel, freed, deltaTotal, prevTicks, table, children, trees>>
      /\ elapsed' \in {elapsed, elapsed + Cpus}
      /\ running' \subseteq running
      /\ \/ UNCHANGED sysTick
         \/ /\ sysTick.at = "idle" /\ sysTick'.at \in {"cpu", "gpu", "show"}
            /\ DOMAIN sysTick' = {"at", "gpu", "todo", "procs", "ticks"}
            /\ sysTick'.procs = <<>> /\ sysTick'.ticks = <<>>
  BY DEF NoticeExit, ProcIntervalPasses, GpuIntervalPasses, BeginSysTick, SysIdle,
         machineVars, statVars
<1>3. KernelInv'
  BY <1>1, <1>2, MonitorAssumption DEF KernelInv
<1>4. DOMAIN <<>> = {} /\ IsFiniteSet({})
  BY FS_EmptySet
<1>5. ScanInv'
  <2>1. CASE UNCHANGED sysTick
    BY <1>1, <1>2, <2>1 DEF ScanInv
  <2>2. CASE sysTick'.at \in {"cpu", "gpu", "show"} /\ sysTick'.procs = <<>> /\ sysTick'.ticks = <<>>
             /\ DOMAIN sysTick' = {"at", "gpu", "todo", "procs", "ticks"}
    BY <1>4, <2>2 DEF ScanInv
  <2>. QED  BY <1>2, <2>1, <2>2
<1>6. RankInv'
  <2>1. PICK rank \in [Pids -> Nat] : BornAfter(rank, kernel) /\ BornAfter(rank, sysTick.procs)
    BY <1>1 DEF RankInv
  <2>2. BornAfter(rank, kernel') /\ BornAfter(rank, sysTick'.procs)
    BY <1>2, <1>4, <2>1 DEF BornAfter
  <2>. QED  BY <2>2 DEF RankInv
<1>7. TreesInv'
  BY <1>1, <1>2, TreesElsewhere
<1>. QED  BY <1>3, <1>5, <1>6, <1>7 DEF MonitorInv

\* A share is a number.
LEMMA ShareIsNumber ==
  ASSUME KernelInv, NEW p, NEW ticks \in Nat
  PROVE  Share(p, ticks) \in Int
<1>. DEFINE d == (ticks - prevTicks[p]) % Width
            s == (d * 100 * Cpus) \div deltaTotal
<1>1. Cpus \in Nat /\ Width \in Nat \ {0} /\ deltaTotal \in Nat
  BY MonitorAssumption DEF KernelInv
<1>2. CASE p \in DOMAIN prevTicks /\ deltaTotal > 0
  <2>1. prevTicks[p] \in Nat
    BY <1>2 DEF KernelInv
  <2>2. d \in Nat
    BY <1>1, <2>1
  <2>. HIDE DEF d
  <2>3. d * 100 * Cpus \in Nat
    BY <1>1, <2>2
  <2>4. s \in Int
    BY <1>1, <1>2, <2>3
  <2>. HIDE DEF s
  <2>5. 100 * Cpus \in Int
    BY <1>1
  <2>6. Min({100 * Cpus, s}) \in {100 * Cpus, s}
    <3>1. \E x \in {100 * Cpus, s} : \A y \in {100 * Cpus, s} : x <= y
      BY <2>4, <2>5
    <3>. QED  BY <3>1 DEF Min
  <2>. QED  BY <1>2, <2>4, <2>5, <2>6 DEF Share, d, s
<1>3. CASE ~(p \in DOMAIN prevTicks /\ deltaTotal > 0)
  BY <1>3 DEF Share
<1>. QED  BY <1>2, <1>3

\* A scan begins with nothing.
LEMMA CpuMonitor == ASSUME MonitorInv, RefreshSystemCpu PROVE MonitorInv'
<1>1. KernelInv /\ ScanInv /\ RankInv /\ TreesInv
  BY DEF MonitorInv
<1>2. /\ UNCHANGED <<kernel, freed, running, prevTicks, table, children, trees>>
      /\ deltaTotal' = elapsed /\ elapsed' = 0
      /\ sysTick.at = "cpu"
      /\ sysTick' = [sysTick EXCEPT !.at = "scan", !.todo = Pids]
  BY DEF RefreshSystemCpu
<1>3. /\ sysTick'.at = "scan" /\ DOMAIN sysTick' = DOMAIN sysTick
      /\ sysTick'.procs = sysTick.procs /\ sysTick'.ticks = sysTick.ticks
  BY <1>1, <1>2 DEF ScanInv
<1>4. KernelInv'
  BY <1>1, <1>2 DEF KernelInv
<1>5. ScanInv'
  BY <1>1, <1>2, <1>3 DEF ScanInv
<1>6. RankInv'
  BY <1>1, <1>2, <1>3 DEF RankInv, BornAfter
<1>7. TreesInv'
  BY <1>1, <1>2, <1>3, TreesElsewhere
<1>. QED  BY <1>4, <1>5, <1>6, <1>7 DEF MonitorInv

\* It reads the parents there are.
LEMMA ScanMonitor == ASSUME MonitorInv, ScanNext PROVE MonitorInv'
<1>1. KernelInv /\ ScanInv /\ RankInv /\ TreesInv
  BY DEF MonitorInv
<1>. DEFINE p == Min(Ahead)
            info == [parent |-> kernel[p].parent, share |-> Share(p, kernel[p].ticks),
                     gpu |-> p \in gpuUsers]
<1>2. p \in DOMAIN kernel
  <2>1. Ahead # {} /\ Ahead \subseteq DOMAIN kernel
    BY DEF ScanNext, Ahead
  <2>2. IsFiniteSet(Ahead) /\ Ahead \subseteq Nat
    BY <1>1, <2>1, FS_Subset, MonitorAssumption DEF KernelInv
  <2>3. \E x \in Ahead : \A y \in Ahead : x <= y
    BY <2>1, <2>2, NatMin
  <2>. QED  BY <2>1, <2>3 DEF Min
<1>3. /\ UNCHANGED <<kernel, freed, running, elapsed, deltaTotal, prevTicks, table, children, trees>>
      /\ sysTick.at = "scan" /\ sysTick'.at = "scan"
      /\ DOMAIN sysTick' = DOMAIN sysTick
      /\ sysTick'.procs = [q \in DOMAIN sysTick.procs \union {p} |->
                              IF q = p THEN info ELSE sysTick.procs[q]]
      /\ sysTick'.ticks = [q \in DOMAIN sysTick.ticks \union {p} |->
                              IF q = p THEN kernel[p].ticks ELSE sysTick.ticks[q]]
  BY <1>1 DEF ScanNext, ScanInv, machineVars, statVars
<1>4. KernelInv'
  BY <1>1, <1>3 DEF KernelInv
<1>5. /\ info.parent = kernel[p].parent /\ kernel[p].parent \in DOMAIN kernel \union {0}
      /\ info.share \in Int /\ kernel[p].ticks \in Nat /\ p \in Pids
  BY <1>1, <1>2, ShareIsNumber DEF KernelInv
<1>. HIDE DEF p, info
<1>6. /\ DOMAIN sysTick'.procs = DOMAIN sysTick.procs \union {p}
      /\ sysTick'.procs[p] = info
      /\ \A q \in DOMAIN sysTick.procs \ {p} : sysTick'.procs[q] = sysTick.procs[q]
      /\ DOMAIN sysTick'.ticks = DOMAIN sysTick.ticks \union {p}
      /\ \A q \in DOMAIN sysTick'.ticks : sysTick'.ticks[q] \in Nat
  BY <1>1, <1>3, <1>5 DEF ScanInv
<1>7. ScanInv'
  <2>1. IsFiniteSet(DOMAIN sysTick'.procs)
    BY <1>1, <1>6, FS_AddElement DEF ScanInv
  <2>2. DOMAIN sysTick'.procs \subseteq Pids \intersect (DOMAIN kernel \union freed)
    BY <1>1, <1>2, <1>5, <1>6 DEF ScanInv
  <2>3. \A q \in DOMAIN sysTick'.procs :
          /\ sysTick'.procs[q].parent \in DOMAIN kernel \union freed \union {0}
          /\ sysTick'.procs[q].share \in Int
    BY <1>1, <1>5, <1>6 DEF ScanInv
  <2>. QED  BY <1>1, <1>3, <1>6, <2>1, <2>2, <2>3 DEF ScanInv
<1>8. RankInv'
  <2>1. PICK rank \in [Pids -> Nat] : BornAfter(rank, kernel) /\ BornAfter(rank, sysTick.procs)
    BY <1>1 DEF RankInv
  <2>2. BornAfter(rank, kernel')
    BY <1>3, <2>1
  <2>3. BornAfter(rank, sysTick'.procs)
    <3>. SUFFICES ASSUME NEW q \in DOMAIN sysTick'.procs, sysTick'.procs[q].parent \in Pids
                  PROVE  rank[sysTick'.procs[q].parent] < rank[q]
      BY DEF BornAfter
    <3>1. CASE q = p
      BY <1>2, <1>5, <1>6, <2>1, <3>1 DEF BornAfter
    <3>2. CASE q # p
      BY <1>6, <2>1, <3>2 DEF BornAfter
    <3>. QED  BY <3>1, <3>2
  <2>. QED  BY <2>2, <2>3 DEF RankInv
<1>9. TreesInv'
  BY <1>1, <1>3, TreesElsewhere
<1>. QED  BY <1>4, <1>7, <1>8, <1>9 DEF MonitorInv

\* Table and index are replaced together.
LEMMA InstallMonitor == ASSUME MonitorInv, InstallScan PROVE MonitorInv'
<1>1. KernelInv /\ ScanInv /\ RankInv /\ TreesInv
  BY DEF MonitorInv
<1>2. /\ UNCHANGED <<kernel, running, elapsed, deltaTotal, trees>>
      /\ table' = sysTick.procs /\ prevTicks' = sysTick.ticks /\ children' = NewIndex
      /\ sysTick'.at \in {"gpu", "show"}
      /\ DOMAIN sysTick' = {"at", "gpu", "todo", "procs", "ticks"}
      /\ sysTick'.procs = <<>> /\ sysTick'.ticks = <<>>
  BY DEF InstallScan, NewTicks, SysIdle
<1>3. KernelInv'
  BY <1>1, <1>2 DEF KernelInv, ScanInv
<1>4. DOMAIN <<>> = {} /\ IsFiniteSet({})
  BY FS_EmptySet
<1>5. ScanInv'
  BY <1>2, <1>4 DEF ScanInv
<1>6. PICK rank \in [Pids -> Nat] : BornAfter(rank, kernel) /\ BornAfter(rank, sysTick.procs)
  BY <1>1 DEF RankInv
<1>7. RankInv'
  <2>1. BornAfter(rank, kernel') /\ BornAfter(rank, sysTick'.procs)
    BY <1>2, <1>4, <1>6 DEF BornAfter
  <2>. QED  BY <2>1 DEF RankInv
<1>8. TableInv'
  <2>1. BornAfter(rank, table')
    BY <1>2, <1>6
  <2>. QED  BY <1>1, <1>2, <2>1 DEF TableInv, ScanInv
<1>9. IndexInv'
  BY <1>2 DEF IndexInv, Kids, NewIndex
<1>10. TotalsAddUp'
  BY <1>2 DEF TotalsAddUp
<1>. QED  BY <1>3, <1>5, <1>7, <1>8, <1>9, <1>10 DEF MonitorInv, TreesInv

\* What the GPU's driver reports is not in the trees.
LEMMA GpuMonitor == ASSUME MonitorInv, RefreshGpu PROVE MonitorInv'
<1>1. KernelInv /\ ScanInv /\ RankInv /\ TreesInv
  BY DEF MonitorInv
<1>2. /\ UNCHANGED <<kernel, freed, running, elapsed, deltaTotal, prevTicks, table, children, trees>>
      /\ sysTick'.at = "show"
      /\ DOMAIN sysTick' = {"at", "gpu", "todo", "procs", "ticks"}
      /\ sysTick'.procs = <<>> /\ sysTick'.ticks = <<>>
  BY DEF RefreshGpu, SysIdle, machineVars
<1>3. KernelInv'
  BY <1>1, <1>2 DEF KernelInv
<1>4. DOMAIN <<>> = {} /\ IsFiniteSet({})
  BY FS_EmptySet
<1>5. ScanInv'
  BY <1>2, <1>4 DEF ScanInv
<1>6. RankInv'
  <2>1. PICK rank \in [Pids -> Nat] : BornAfter(rank, kernel) /\ BornAfter(rank, sysTick.procs)
    BY <1>1 DEF RankInv
  <2>2. BornAfter(rank, kernel') /\ BornAfter(rank, sysTick'.procs)
    BY <1>2, <1>4, <2>1 DEF BornAfter
  <2>. QED  BY <2>2 DEF RankInv
<1>7. TreesInv'
  BY <1>1, <1>2, TreesElsewhere
<1>. QED  BY <1>3, <1>5, <1>6, <1>7 DEF MonitorInv

\* The trees shown are those of the families.
LEMMA ShowMonitor == ASSUME MonitorInv, ShowTrees PROVE MonitorInv'
<1>1. KernelInv /\ ScanInv /\ RankInv /\ TreesInv
  BY DEF MonitorInv
<1>2. /\ UNCHANGED <<kernel, freed, running, elapsed, deltaTotal, prevTicks, table, children>>
      /\ sysTick' = SysIdle /\ sysTick'.at = "idle"
      /\ DOMAIN sysTick' = {"at", "gpu", "todo", "procs", "ticks"}
      /\ sysTick'.procs = <<>> /\ sysTick'.ticks = <<>>
      /\ trees' = [p \in running |-> Tree(p)]
  BY DEF ShowTrees, SysIdle, machineVars, statVars
<1>3. KernelInv'
  BY <1>1, <1>2 DEF KernelInv
<1>4. DOMAIN <<>> = {} /\ IsFiniteSet({})
  BY FS_EmptySet
<1>5. ScanInv'
  BY <1>2, <1>4 DEF ScanInv
<1>6. RankInv'
  <2>1. PICK rank \in [Pids -> Nat] : BornAfter(rank, kernel) /\ BornAfter(rank, sysTick.procs)
    BY <1>1 DEF RankInv
  <2>2. BornAfter(rank, kernel') /\ BornAfter(rank, sysTick'.procs)
    BY <1>2, <1>4, <2>1 DEF BornAfter
  <2>. QED  BY <2>2 DEF RankInv
<1>7. TableInv' /\ IndexInv'
  BY <1>1, <1>2 DEF TreesInv, TableInv, IndexInv, BornAfter, Kids
<1>8. TotalsAddUp'
  <2>1. \A p \in running : Tree(p).members = Family(p) /\ Tree(p).total = Total(p)
    BY <1>1, TreeIsFamily DEF KernelInv, TreesInv
  <2>2. DOMAIN trees' = running /\ \A p \in running : trees'[p] = Tree(p)
    BY <1>2
  <2>3. \A p \in DOMAIN trees' :
          /\ trees'[p].members = Family(p)
          /\ trees'[p].total = SumFunctionOnSet(Shares, Family(p) \intersect DOMAIN table)
    BY <2>1, <2>2 DEF Total
  <2>4. Shares' = Shares /\ \A p : Family(p)' = Family(p)
    BY <1>2 DEF Family, Shares
  <2>5. \A p \in DOMAIN trees' :
          /\ trees'[p].members = Family(p)'
          /\ trees'[p].total = SumFunctionOnSet(Shares', Family(p)' \intersect DOMAIN table')
    BY <1>2, <2>3, <2>4
  <2>. QED  BY <2>5 DEF TotalsAddUp, Family, Shares
<1>. QED  BY <1>3, <1>5, <1>6, <1>7, <1>8 DEF MonitorInv, TreesInv

\* Every step keeps the invariant of the monitor.
LEMMA NextMonitor == ASSUME MonitorInv, [TuiNext]_vars PROVE MonitorInv'
<1>1. CASE \/ MainStep \/ HandlerStep \/ TypeKey \/ Draw \/ RefreshOnLoop
           \/ NextLine \/ Graph \/ Resize \/ GraphInterval \/ UNCHANGED vars
  <2>1. UNCHANGED monitorVars
    BY <1>1 DEF MainStep, HandlerStep, TypeKey, Press, SwitchTab, QuitKey, Forward, Draw,
                RefreshOnLoop, NextLine, Graph, Resize, GraphInterval, vars
  <2>. QED  BY <2>1, MonitorElsewhere
<1>2. CASE TickThread
  <2>1. CASE UNCHANGED monitorVars
    BY <2>1, MonitorElsewhere
  <2>2. CASE sysTick.at = "idle" /\ BeginSysTick
    BY <2>2, TimeMonitor
  <2>3. CASE SysTickStep
    BY <2>3, CpuMonitor, ScanMonitor, InstallMonitor, GpuMonitor, ShowMonitor DEF SysTickStep
  <2>. QED  BY <1>2, <2>1, <2>2, <2>3 DEF TickThread, BeginTick, TickStep, EndTicking, Ticking
<1>3. CASE Machine
  BY <1>3, StartMonitor, WorkMonitor, ExitMonitor DEF Machine
<1>4. CASE Notice \/ ProcInterval \/ GpuInterval
  BY <1>4, TimeMonitor DEF Notice, ProcInterval, GpuInterval
<1>. QED  BY <1>1, <1>2, <1>3, <1>4 DEF TuiNext

\* Each process is counted once in the trees of the launch screen, under the parent that
\* one scan has read for it, whatever starts, works and ends while the scan goes on
\* (SystemMonitor::refreshProcesses and buildTree).
THEOREM TreesAddUp == TuiSpec => []TotalsAddUp
<1>1. MonitorInv => TotalsAddUp
  BY DEF MonitorInv, TreesInv
<1>. QED  BY <1>1, InitMonitor, NextMonitor, PTL DEF TuiSpec
=============================================================================
