-------------------------- MODULE LogScreenProofs --------------------------
(***************************************************************************)
(* That lines which pass for up to date are (CacheCurrent), proved for any *)
(* scenarios, names, levels and bounds, in the composition of all threads  *)
(* of module TuiRunner.                                                    *)
(***************************************************************************)
EXTENDS TuiRunner, TLAPS

\* The locals of a tick are there throughout.
TickFields == DOMAIN logTick = {"at", "want", "generation", "lines", "names"}

\* Generations only grow: those remembered are not ahead of the store's.
Generations ==
    /\ generation \in Nat
    /\ last.generation \in Nat /\ last.generation <= generation
    /\ logTick.generation \in Nat /\ logTick.generation <= generation

\* What the tick has read is right unless the store has changed since.
ReadIsRight ==
    logTick.at \in {"sources", "commit"} /\ logTick.generation = generation =>
        logTick.lines = Filtered(entries, logTick.want)

\* So is what it stored, for the filters it was stored with.
ShownIsRight ==
    generation > 0 /\ last.generation = generation =>
        shownLines = Filtered(entries, last.want)

CacheInv == TickFields /\ Generations /\ ReadIsRight /\ ShownIsRight

\* The variables CacheInv is about.
cacheVars == <<entries, generation, shownLines, last, logTick>>

USE DEF LogIdle, NoWant

-----------------------------------------------------------------------------
\* What happens elsewhere does not matter.
LEMMA Elsewhere == CacheInv /\ UNCHANGED cacheVars => CacheInv'
  BY DEF CacheInv, TickFields, Generations, ReadIsRight, ShownIsRight, cacheVars

\* Once the store has changed, nothing remembered claims to be right.
LEMMA StoreChanges ==
  ASSUME CacheInv, generation' = generation + 1,
         UNCHANGED <<shownLines, last, logTick>>
  PROVE  CacheInv'
  BY DEF CacheInv, TickFields, Generations, ReadIsRight, ShownIsRight

\* At first nothing passes for current.
LEMMA InitCache == TuiInit => CacheInv
  BY DEF TuiInit, LogInit, CacheInv, TickFields, Generations, ReadIsRight, ShownIsRight

\* A tick begins: it has read no lines yet.
LEMMA BeginCache == CacheInv /\ BeginLogTick => CacheInv'
  BY DEF BeginLogTick, storeVars, CacheInv, TickFields, Generations, ReadIsRight, ShownIsRight

\* The steps of the tick.
LEMMA TickCache == ASSUME CacheInv, LogTickStep PROVE CacheInv'
<1> USE DEF storeVars, CacheInv, TickFields, Generations, ReadIsRight, ShownIsRight
<1>1. CASE ReadGeneration
  BY <1>1 DEF ReadGeneration
<1>2. CASE ReadLines
  BY <1>2 DEF ReadLines
<1>3. CASE ReadSources
  BY <1>3 DEF ReadSources
<1>4. CASE CommitLines
  <2>1. UNCHANGED <<entries, generation>> /\ shownLines' = logTick.lines
    BY <1>4 DEF CommitLines
  <2>2. /\ logTick.at = "commit"
        /\ last' = [generation |-> logTick.generation, want |-> logTick.want]
        /\ logTick' = [LogIdle EXCEPT !.at = "nodes"]
    BY <1>4 DEF CommitLines
  <2> QED  BY <2>1, <2>2
<1>5. CASE RefreshNodeNames
  BY <1>5 DEF RefreshNodeNames
<1>6. CASE ReadNodeNames
  BY <1>6 DEF ReadNodeNames
<1>7. CASE SetNodeNames
  BY <1>7 DEF SetNodeNames
<1> QED
  BY <1>1, <1>2, <1>3, <1>4, <1>5, <1>6, <1>7 DEF LogTickStep

\* Keys change the filters, or clear the store.
LEMMA KeyCache == ASSUME CacheInv, NEW key, LogKey(key) PROVE CacheInv'
<1>1. UNCHANGED <<shownLines, last, logTick>>
  BY DEF LogKey
<1>2. UNCHANGED <<entries, generation>> \/ generation' = generation + 1
  <2>1. CASE PressFilter(key)
    BY <2>1 DEF PressFilter, storeVars
  <2>2. CASE PressSearchBar(key)
    BY <2>2 DEF PressSearchBar, storeVars
  <2>3. CASE PressOther(key)
    BY <2>3 DEF PressOther, ClearStore, storeVars
  <2> QED  BY <2>1, <2>2, <2>3 DEF LogKey
<1> QED
  BY <1>1, <1>2, Elsewhere, StoreChanges DEF cacheVars

-----------------------------------------------------------------------------
\* Every step of every thread.
LEMMA NextCache == ASSUME CacheInv, [TuiNext]_vars PROVE CacheInv'
<1> USE DEF cacheVars, logVars, storeVars
<1>1. CASE MainStep
  BY <1>1, Elsewhere DEF MainStep
<1>2. CASE HandlerStep
  BY <1>2, Elsewhere DEF HandlerStep
<1>3. CASE TickThread
  <2>1. CASE BeginTick
    BY <2>1, BeginCache, Elsewhere DEF BeginTick
  <2>2. CASE TickStep
    BY <2>2, TickCache, Elsewhere DEF TickStep
  <2>3. CASE EndTicking
    BY <2>3, Elsewhere DEF EndTicking
  <2> QED  BY <1>3, <2>1, <2>2, <2>3 DEF TickThread
<1>4. CASE TypeKey
  <2>1. PICK key \in Head(left.keys) : Press(key)
    BY <1>4 DEF TypeKey
  <2>2. CASE Forward(key)
    BY <2>2, KeyCache, Elsewhere DEF Forward
  <2>3. CASE SwitchTab(key) \/ QuitKey
    BY <2>3, Elsewhere DEF SwitchTab, QuitKey
  <2> QED  BY <2>1, <2>2, <2>3 DEF Press
<1>5. CASE Draw
  BY <1>5, Elsewhere DEF Draw, DrawLogs
<1>6. CASE RefreshOnLoop
  BY <1>6, Elsewhere DEF RefreshOnLoop
<1>7. CASE NextLine
  <2>1. PICK line \in Head(left.lines) : PushLine(line)
    BY <1>7 DEF NextLine
  <2> QED  BY <2>1, StoreChanges DEF PushLine
<1>8. CASE Machine \/ Graph \/ Resize
  BY <1>8, Elsewhere DEF Machine, Graph, Resize
<1>9. CASE Notice \/ ProcInterval \/ GpuInterval \/ GraphInterval
  BY <1>9, Elsewhere DEF Notice, ProcInterval, GpuInterval, GraphInterval
<1>10. CASE UNCHANGED vars
  BY <1>10, Elsewhere DEF vars
<1> QED
  BY <1>1, <1>2, <1>3, <1>4, <1>5, <1>6, <1>7, <1>8, <1>9, <1>10 DEF TuiNext

\* The log screen never takes old lines for current ones, whatever lines arrive
\* and whatever keys are typed between the steps of its tick (LogScreen::tick).
THEOREM CacheIsCurrent == TuiSpec => []CacheCurrent
<1>1. TuiInit => CacheInv
  BY InitCache
<1>2. CacheInv /\ [TuiNext]_vars => CacheInv'
  BY NextCache
<1>3. CacheInv => CacheCurrent
  BY DEF CacheInv, ShownIsRight, CacheCurrent
<1> QED
  BY <1>1, <1>2, <1>3, PTL DEF TuiSpec
=============================================================================
