--------------------------- MODULE LogAggregator ----------------------------
(***************************************************************************)
(* LogAggregator (src/log_aggregator.cpp) with the LogWriter it persists   *)
(* to, the threads that hand lines over (the reader threads of processes,  *)
(* which hold the mutex of ProcessManager meanwhile, and the spin thread,  *)
(* which delivers /rosout) and the change of profile on the terminal       *)
(* thread, which replaces the writer (the callback set in runTui).         *)
(*                                                                         *)
(* Abstractions.  A line is the number of its name's lines so far and its  *)
(* source; level and text matter to the filters of the screen only.  Lines *)
(* are numbered as the readers take the mutex with them: what order the    *)
(* process wrote them in, over two pipes with a reader each, is lost to    *)
(* the code and not in the model.                                          *)
(***************************************************************************)
EXTENDS LogWriter

CONSTANTS
    Streams,     \* the streams of processes that are read
    Process,     \* the process of each stream
    Rosout,      \* "rosout"
    SourcesOf,   \* sources the lines of a name may have: its own or of nodes
    NoThread,
    MaxEntries,  \* max_lines
    Lines,       \* bound: how many lines the names may have had
    MaxChanges   \* bound: changes of profile, and clearings

ASSUME AggregatorAssumption ==
    /\ Rosout \in Names /\ Process \in [Streams -> Names \ {Rosout}]
    /\ SourcesOf \in [Names -> SUBSET UNION {SourcesOf[n] : n \in Names}]
    /\ Rosout \notin Streams /\ NoThread \notin Streams
    /\ MaxEntries \in Nat /\ MaxChanges \in Nat
    /\ Lines \subseteq [Names -> Nat] /\ [n \in Names |-> 0] \in Lines

VARIABLES
    said,        \* the number of lines of each name so far
    handing,     \* the line each thread is handing over, << >> if none
    pm,          \* ProcessManager.mutex_: the stream whose reader holds it
    entries,     \* entries_
    sources,     \* known_sources_
    generation,  \* generation_
    current,     \* log_writer_: the profile it is of
    wmutex,      \* writer_mutex_: held by the terminal thread
    change,      \* position of the terminal thread
    changes

aggregatorVars == <<said, handing, pm, entries, sources, generation, current, wmutex,
                    change, changes>>
lvars == <<writerVars, aggregatorVars>>

Threads == Streams \union {Rosout}

NameOf(t) == IF t = Rosout THEN Rosout ELSE Process[t]

Sources == UNION {SourcesOf[n] : n \in Names}

Entries == [name : Names, number : Nat \ {0}, source : Sources]

LInit ==
    /\ WriterInit
    /\ said = [n \in Names |-> 0]
    /\ handing = [t \in Threads |-> << >>]
    /\ pm = NoThread
    /\ entries = << >>
    /\ sources = {}
    /\ generation = 0
    /\ current = 1
    /\ wmutex = FALSE
    /\ change = "starting"
    /\ changes = 0

-----------------------------------------------------------------------------
\* runTui makes the writer of the first profile before anything is read.
Begin ==
    /\ change = "starting"
    /\ Construct(1)
    /\ change' = "idle"
    /\ UNCHANGED <<files, written, said, handing, pm, entries, sources, generation,
                   current, wmutex, changes>>

\* Mistake: the reader does not hold the mutex while it hands a line over.
HoldUnlocked(t) == UNCHANGED pm

\* A reader takes the mutex of the process manager.
Hold(t) ==
    IF t = Rosout THEN UNCHANGED pm ELSE pm = NoThread /\ pm' = t

Release(t) == pm' = IF pm = t THEN NoThread ELSE pm

\* pushRaw and rosoutCallback: the line goes to the file first ...
Persist(t) ==
    /\ change # "starting" /\ ~wmutex
    /\ handing[t] = << >>
    /\ LET n == NameOf(t)
           number == said[n] + 1
       IN  /\ said' = [said EXCEPT ![n] = number] /\ said' \in Lines
           /\ Hold(t)
           /\ \E size \in 1..MaxLine : Write(current, n, number, size)
           /\ \E s \in SourcesOf[n] :
                handing' = [handing EXCEPT ![t] =
                                <<[name |-> n, number |-> number, source |-> s]>>]
    /\ UNCHANGED <<writers, entries, sources, generation, current, wmutex, change, changes>>

\* ... then to the entries, of which the oldest are dropped.
Latest(s) == SubSeq(s, IF Len(s) > MaxEntries THEN Len(s) - MaxEntries + 1 ELSE 1, Len(s))

Push(t) ==
    /\ handing[t] # << >>
    /\ entries' = Latest(entries \o handing[t])
    /\ sources' = sources \union {handing[t][1].source}
    /\ generation' = generation + 1
    /\ handing' = [handing EXCEPT ![t] = << >>]
    /\ Release(t)
    /\ UNCHANGED <<writerVars, said, current, wmutex, change, changes>>

\* clear, a key of the log screen: the terminal thread is not changing the profile.
Clear ==
    /\ change = "idle"
    /\ changes < MaxChanges
    /\ changes' = changes + 1
    /\ entries' = << >>
    /\ sources' = {}
    /\ generation' = generation + 1
    /\ UNCHANGED <<writerVars, said, handing, pm, current, wmutex, change>>

-----------------------------------------------------------------------------
\* nextProfile and the callback: a new writer is made, setLogWriter replaces the
\* old one, and with its last reference the old one is destroyed.

Next(p) == (p % NumProfiles) + 1

Previous(p) == ((p + NumProfiles - 2) % NumProfiles) + 1

\* Mistake: the old writer is closed before the new one is there to take its place.
MakeWriterClosing ==
    /\ change = "idle" /\ NumProfiles > 1
    /\ changes < MaxChanges
    /\ changes' = changes + 1
    /\ writers' = [writers EXCEPT ![current].active = FALSE, ![Next(current)] =
                      [active |-> TRUE, running |-> TRUE, flusher |-> "dozing"]]
    /\ files' = [files EXCEPT ![current] = [n \in Names |-> Closed(files[current][n])]]
    /\ change' = "made"
    /\ UNCHANGED <<failures, written, said, handing, pm, entries, sources,
                   generation, current, wmutex>>

MakeWriter ==
    /\ change = "idle" /\ NumProfiles > 1
    /\ changes < MaxChanges
    /\ changes' = changes + 1
    /\ Construct(Next(current))
    /\ change' = "made"
    /\ UNCHANGED <<files, written, said, handing, pm, entries, sources, generation,
                   current, wmutex>>

InstallWriter ==
    /\ change = "made" /\ ~wmutex
    /\ wmutex' = TRUE
    /\ current' = Next(current)
    /\ StopFlusher(current)
    /\ change' = "joining"
    /\ UNCHANGED <<files, failures, written, said, handing, pm, entries, sources,
                   generation, changes>>

DestroyWriter ==
    /\ change = "joining"
    /\ FlusherJoined(Previous(current))
    /\ Close(Previous(current))
    /\ wmutex' = FALSE
    /\ change' = "idle"
    /\ UNCHANGED <<failures, written, said, handing, pm, entries, sources, generation,
                   current, changes>>

ChangeStep == MakeWriter \/ InstallWriter \/ DestroyWriter

FlusherStep(p) == FlusherBlocks(p) \/ FlusherWakes(p) \/ FlushAll(p)

LNext ==
    \/ Begin \/ ChangeStep \/ Clear
    \/ \E t \in Threads : Persist(t) \/ Push(t)
    \/ \E p \in Profiles : FlusherStep(p) /\ UNCHANGED aggregatorVars

LSpec == LInit /\ [][LNext]_lvars

\* Threads that are under way go on: the flush threads, the terminal thread and the
\* ones that hand a line over.  Nothing makes a process write or the user act.
LFairness ==
    /\ \A p \in Profiles : WF_lvars(FlusherStep(p) /\ UNCHANGED aggregatorVars)
    /\ WF_lvars(InstallWriter \/ DestroyWriter)
    /\ \A t \in Threads : WF_lvars(Push(t))

LFairSpec == LSpec /\ LFairness

-----------------------------------------------------------------------------
AggregatorTypeOK ==
    /\ said \in Lines
    /\ handing \in [Threads -> Seq(Entries)] /\ \A t \in Threads : Len(handing[t]) <= 1
    /\ pm \in Streams \union {NoThread}
    /\ entries \in Seq(Entries) /\ Len(entries) <= MaxEntries
    /\ sources \subseteq Sources
    /\ generation \in Nat
    /\ current \in Profiles
    /\ wmutex \in BOOLEAN
    /\ change \in {"starting", "idle", "made", "joining"}
    /\ changes \in 0..MaxChanges

LInv == WriterTypeOK /\ AggregatorTypeOK /\ FilesConsistent /\ FilesBounded

\* The lines of one name are shown in the order they have in its file, whichever
\* threads read the streams of its process.
SameOrder ==
    \A i, j \in DOMAIN entries :
        i < j /\ entries[i].name = entries[j].name =>
            \A p \in Profiles : LET file == written[p][entries[i].name] IN
                \A a, b \in DOMAIN file :
                    file[a] = entries[i].number /\ file[b] = entries[j].number => a < b

\* A line that is shown has reached a file, whatever the change of profile is doing,
\* unless the file system failed.
ShownIsLogged ==
    failures = 0 =>
        \A i \in DOMAIN entries : \E p \in Profiles :
            entries[i].number \in ToSet(written[p][entries[i].name])

\* A file that cannot be opened costs the line that was to go there and no other: the
\* next one tries again (while the first writer is at work, if it has its directory).
FailureCostsALine ==
    writers[1].active /\ current = 1 /\ changes = 0 =>
        Cardinality({i \in DOMAIN entries :
            entries[i].number \notin ToSet(written[1][entries[i].name])}) <= failures

\* No line stays in a buffer: the flush thread, a rotation or the end of the writer
\* takes it to the disk.
LinesReachDisk ==
    \A p \in Profiles, n \in Names :
        files[p][n].buffer # << >> ~> files[p][n].buffer = << >>

\* The terminal thread gets through a change of profile, though it waits for the
\* flush thread while it keeps every reader from writing.
ChangeCompletes == change = "made" ~> change = "idle"
=============================================================================
