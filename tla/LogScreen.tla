------------------------------ MODULE LogScreen ------------------------------
(***************************************************************************)
(* LogScreen (app/screens/log_screen.cpp): lines of the LogAggregator,     *)
(* filtered by source, level, node and text.  The tick thread recomputes   *)
(* the shown lines when the generation of the store or the filters have    *)
(* changed; it reads the filters, the generation, the lines and the        *)
(* sources one after the other, each under a lock of its own, while keys   *)
(* change the filters and other threads push lines.                        *)
(*                                                                         *)
(* Of the LogAggregator (src/log_aggregator.cpp) this module has what the  *)
(* screen sees: each method is one critical section of its mutex.  How     *)
(* lines get there is the subject of module LogAggregator.                 *)
(***************************************************************************)
EXTENDS Widgets, NodeInspector

CONSTANTS
    LevelNames,  \* kLevelNames
    MaxLines     \* max_lines_

VARIABLES
    entries,     \* of the LogAggregator: lines have a source, a level (an index of
                 \* LevelNames) and how much they contain of the word searched
    knownSources, generation,
    filters,     \* source_filter_, level_filter_ and node_filter_
    search,      \* search_bar_
    logList,     \* scroll_list_
    shownLines,  \* cached_entries_
    last,        \* last_log_gen_, and the last filters as one record
    logTick      \* where the tick is, and its locals

storeVars == <<entries, knownSources, generation>>
logVars == <<storeVars, filters, search, logList, shownLines, last, logTick>>

\* The filters as tick reads them: a node takes the place of a source.
Want ==
    LET node == SelectedValue(filters["node"])
    IN  [source |-> IF node = All THEN SelectedValue(filters["source"]) ELSE node,
         level  |-> filters["level"].selected,
         text   |-> search.text,
         node   |-> node]

NoWant == [source |-> All, level |-> 0, text |-> 0, node |-> All]

Filtered(lines, want) ==
    SelectSeq(lines, LAMBDA line :
        /\ want.source \in {All, line.source}
        /\ line.level >= want.level
        /\ line.text >= want.text)

LogIdle == [at |-> "idle", want |-> NoWant, generation |-> 0, lines |-> <<>>, names |-> {}]

LogInit ==
    /\ entries = <<>>
    /\ knownSources = {}
    /\ generation = 0
    /\ filters = [f \in {"source", "level", "node"} |->
                    IF f = "level" THEN SetOptions(NewDropdown, LevelNames) ELSE NewDropdown]
    /\ search = NewSearch
    /\ logList = NewList(FALSE)
    /\ shownLines = <<>>
    /\ last = [generation |-> 0, want |-> NoWant]
    /\ logTick = LogIdle

-----------------------------------------------------------------------------
(* The store. *)

PushLine(line) ==
    /\ knownSources' = knownSources \union {line.source}
    /\ entries' = LET all == Append(entries, line)
                  IN  SubSeq(all, Max({1, Len(all) - MaxLines + 1}), Len(all))
    /\ generation' = generation + 1
    /\ UNCHANGED <<filters, search, logList, shownLines, last, logTick>>

ClearStore ==
    /\ entries' = <<>>
    /\ knownSources' = {}
    /\ generation' = generation + 1

-----------------------------------------------------------------------------
(* tick(), up to the refresh of the nodes. *)

BeginLogTick ==
    /\ logTick' = [logTick EXCEPT !.at = "generation", !.want = Want]
    /\ UNCHANGED <<storeVars, filters, search, logList, shownLines, last>>

\* Mistake: a change of the filters alone is no reason to filter again.
GenerationOnly(seen) == seen # last.generation

NeedsRefilter(seen) == seen # last.generation \/ logTick.want # last.want

ReadGeneration ==
    /\ logTick.at = "generation"
    /\ logTick' = [logTick EXCEPT
         !.at = IF NeedsRefilter(generation) THEN "lines" ELSE "nodes",
         !.generation = generation]
    /\ UNCHANGED <<storeVars, filters, search, logList, shownLines, last>>

ReadLines ==
    /\ logTick.at = "lines"
    /\ logTick' = [logTick EXCEPT !.at = "sources", !.lines = Filtered(entries, logTick.want)]
    /\ UNCHANGED <<storeVars, filters, search, logList, shownLines, last>>

ReadSources ==
    /\ logTick.at = "sources"
    /\ logTick' = [logTick EXCEPT !.at = "commit", !.names = knownSources]
    /\ UNCHANGED <<storeVars, filters, search, logList, shownLines, last>>

\* Mistake: the lines are taken for those of the generation there is by now.
CommitAsLatest ==
    /\ logTick.at = "commit"
    /\ shownLines' = logTick.lines
    /\ filters' = [filters EXCEPT !["source"] = SetOptions(@, Sorted(logTick.names))]
    /\ last' = [generation |-> generation, want |-> logTick.want]
    /\ logTick' = [LogIdle EXCEPT !.at = "nodes"]
    /\ UNCHANGED <<storeVars, search, logList>>

CommitLines ==
    /\ logTick.at = "commit"
    /\ shownLines' = logTick.lines
    /\ filters' = [filters EXCEPT !["source"] = SetOptions(@, Sorted(logTick.names))]
    /\ last' = [generation |-> logTick.generation, want |-> logTick.want]
    /\ logTick' = [LogIdle EXCEPT !.at = "nodes"]
    /\ UNCHANGED <<storeVars, search, logList>>

\* The rest of the tick keeps the node filter's options up to date.
RefreshNodeNames ==
    /\ logTick.at = "nodes"
    /\ Refresh(Ticker)
    /\ logTick' = [LogIdle EXCEPT !.at = "names"]
    /\ UNCHANGED <<storeVars, filters, search, logList, shownLines, last>>

ReadNodeNames ==
    /\ logTick.at = "names" /\ ~Refreshing(Ticker)
    /\ logTick' = [logTick EXCEPT !.at = "options", !.names = DOMAIN nodesMap]
    /\ UNCHANGED <<storeVars, filters, search, logList, shownLines, last>>

SetNodeNames ==
    /\ logTick.at = "options"
    /\ filters' = [filters EXCEPT !["node"] = SetOptions(@, Sorted(logTick.names))]
    /\ logTick' = LogIdle
    /\ UNCHANGED <<storeVars, search, logList, shownLines, last>>

LogTickStep ==
    \/ /\ \/ ReadGeneration \/ ReadLines \/ ReadSources \/ CommitLines
          \/ ReadNodeNames \/ SetNodeNames
       /\ UNCHANGED inspectorVars
    \/ RefreshNodeNames

-----------------------------------------------------------------------------
(* Keys, in the order in which the widgets are offered them. *)

Triggers == <<"f", "v", "n">>
FilterOf == [f |-> "source", v |-> "level", n |-> "node"]

Taker(key) == SelectSeq(Triggers, LAMBDA t : DropdownTakes(filters[FilterOf[t]], t, key))

PressFilter(key) ==
    /\ Taker(key) # <<>>
    /\ filters' = [filters EXCEPT ![FilterOf[Head(Taker(key))]] = PressDropdown(@, key)]
    /\ UNCHANGED <<storeVars, search, logList>>

PressSearchBar(key) ==
    /\ Taker(key) = <<>>
    /\ SearchTakes(search, key)
    /\ search' = PressSearch(search, key)
    /\ UNCHANGED <<storeVars, filters, logList>>

PressOther(key) ==
    /\ Taker(key) = <<>> /\ ~SearchTakes(search, key)
    /\ CASE key \in ListKeys -> logList' = PressList(logList, key) /\ UNCHANGED storeVars
         [] key = "c"     -> ClearStore /\ UNCHANGED logList
         [] key = "space" -> logList' = [logList EXCEPT !.auto = ~@] /\ UNCHANGED storeVars
         [] OTHER         -> UNCHANGED <<storeVars, logList>>
    /\ UNCHANGED <<filters, search>>

LogKey(key) ==
    /\ PressFilter(key) \/ PressSearchBar(key) \/ PressOther(key)
    /\ UNCHANGED <<shownLines, last, logTick>>

LogInputActive == search.active \/ \E f \in DOMAIN filters : filters[f].open

\* A frame gives the list its height and its length.
DrawLogs(height) ==
    /\ logList' = Shape(logList, Max({5, height - 10}), Len(shownLines))
    /\ UNCHANGED <<storeVars, filters, search, shownLines, last, logTick>>

-----------------------------------------------------------------------------
\* Lines that pass for up to date are.  The generation is read before the lines,
\* so lines that come in between the two cause another look; and the filters the
\* lines are kept for are those they were selected by, though a new list of
\* sources may change the user's choice under the tick.
CacheCurrent ==
    generation > 0 /\ last = [generation |-> generation, want |-> Want] =>
        shownLines = Filtered(entries, Want)

LogsShown ==
    /\ shownLines = Filtered(entries, Want)
    /\ filters["source"].options = Sorted(knownSources)
    /\ filters["node"].options = Sorted(Present)
=============================================================================
