----------------------------- MODULE LogWriter ------------------------------
(***************************************************************************)
(* LogWriter (src/log_writer.cpp): one file per name, rotated when full,   *)
(* written through a stdio buffer that a background thread flushes.  There *)
(* is one writer per profile at most, and its files outlive it.            *)
(*                                                                         *)
(* Abstractions.  A line is the number of its name's lines so far; it has  *)
(* any size from one byte to MaxLine.  The bytes of a file are counted     *)
(* beside its lines, what stdio still buffers included.  stdio never       *)
(* flushes by itself, which would only be sooner.                          *)
(* Renaming and writing succeed; creating the directory and opening a file *)
(* may fail.  Different names and profiles have different paths (sanitize  *)
(* is injective on them).  write, flushAll and close hold the mutex of the *)
(* writer throughout and are one step each.                                *)
(***************************************************************************)
EXTENDS Naturals, Sequences, SequencesExt, FiniteSets

CONSTANTS
    NumProfiles,  \* profiles are numbered in the order they are switched to
    Names,        \* names lines are written under: processes, and "rosout"
    MaxFileSize,  \* max_file_size_bytes; 0 for no rotation
    MaxLine,      \* bound: bytes of a line
    MaxRotated,   \* max_rotated_files
    MaxFailures   \* bound: failures of the file system

ASSUME WriterAssumption ==
    /\ NumProfiles \in Nat \ {0}
    /\ {MaxFileSize, MaxLine, MaxRotated, MaxFailures} \subseteq Nat

VARIABLES
    writers,   \* the writer of each profile, NoWriter if there is none
    files,     \* of each profile and name: FileState, and what is on disk
    failures,
    written    \* history: the lines that reached each file, buffered or not

writerVars == <<writers, files, failures, written>>

Profiles == 1..NumProfiles

Writers == [active : BOOLEAN, running : BOOLEAN,
            flusher : {"none", "dozing", "waiting", "woken", "flushing", "gone"}]

NoWriter == [active |-> FALSE, running |-> FALSE, flusher |-> "none"]

\* disk holds the contents of the files, the current one first, then .1 and so on;
\* bytes is how large each is with what is buffered, size what current_size says of it.
Files == [open : BOOLEAN, size : Nat, buffer : Seq(Nat),
          disk : Seq(Seq(Nat)), bytes : Seq(Nat)]

NoFile == [open |-> FALSE, size |-> 0, buffer |-> << >>, disk |-> << >>, bytes |-> << >>]

WriterInit ==
    /\ writers = [p \in Profiles |-> NoWriter]
    /\ files = [p \in Profiles |-> [n \in Names |-> NoFile]]
    /\ failures = 0
    /\ written = [p \in Profiles |-> [n \in Names |-> << >>]]

-----------------------------------------------------------------------------
\* What happens to one file.

\* A name without a file gets an empty one.
Created(f) ==
    IF f.disk = << >> THEN [f EXCEPT !.disk = << << >> >>, !.bytes = <<0>>] ELSE f

\* Mistake: a file that is already there is not measured.
OpenedUnmeasured(f) == [Created(f) EXCEPT !.open = TRUE, !.size = 0]

\* fopen with "a": created if it is not there, and measured.
Opened(f) == [Created(f) EXCEPT !.open = TRUE, !.size = Created(f).bytes[1]]

Flushed(f) == IF f.open THEN [f EXCEPT !.disk[1] = @ \o f.buffer, !.buffer = << >>] ELSE f

Closed(f) == [Flushed(f) EXCEPT !.open = FALSE, !.size = 0]

Appended(f, line, size) ==
    [f EXCEPT !.buffer = Append(@, line), !.size = @ + size, !.bytes[1] = @ + size]

\* Compared after the line is written: the file is past its limit by up to a line.
Full(f) == MaxFileSize > 0 /\ f.size >= MaxFileSize

Least(a, b) == IF a < b THEN a ELSE b

\* first comes before the first k of s, each of which moves on by one.
MovedOn(first, s, k) == <<first>> \o SubSeq(s, 1, Least(k, Len(s)))

\* Every file moves on by one, the oldest fall off, and a fresh one is opened.  One
\* that cannot be opened is missing: an empty one makes no difference.
RotatedTo(f, opens, k) ==
    [open |-> opens, size |-> 0, buffer |-> << >>,
     disk |-> MovedOn(<< >>, Flushed(f).disk, k), bytes |-> MovedOn(0, f.bytes, k)]

\* Mistake: the oldest file that should be kept is deleted as well.
RotatedShort(f, opens) == RotatedTo(f, opens, MaxRotated - 1)

Rotated(f, opens) == RotatedTo(f, opens, MaxRotated)

-----------------------------------------------------------------------------
Fails == failures < MaxFailures /\ failures' = failures + 1

Works == UNCHANGED failures

Store(p, n, f) == files' = [files EXCEPT ![p][n] = f]

\* Mistake: a file that could not be opened is never tried again.
WriteOnce(p, n, line, size) ==
    LET f == files[p][n]
        g == Appended(IF f.open THEN f ELSE Opened(f), line, size)
        dead == failures > 0 /\ f = NoFile
    IN  \/ /\ ~writers[p].active \/ dead
           /\ UNCHANGED <<files, failures, written>>
        \/ /\ writers[p].active /\ ~f.open
           /\ Fails
           /\ UNCHANGED <<files, written>>
        \/ /\ writers[p].active /\ ~dead
           /\ written' = [written EXCEPT ![p][n] = Append(@, line)]
           /\ \/ ~Full(g) /\ Works /\ Store(p, n, g)
              \/ Full(g) /\ Works /\ Store(p, n, Rotated(g, TRUE))
              \/ Full(g) /\ Fails /\ Store(p, n, Rotated(g, FALSE))

\* write and writeRosout.  A file that is not open is opened first; if that fails
\* the line is dropped and the next one tries again.
Write(p, n, line, size) ==
    LET f == files[p][n]
        g == Appended(IF f.open THEN f ELSE Opened(f), line, size)
    IN  \/ /\ ~writers[p].active
           /\ UNCHANGED <<files, failures, written>>
        \/ /\ writers[p].active /\ ~f.open
           /\ Fails
           /\ UNCHANGED <<files, written>>
        \/ /\ writers[p].active
           /\ written' = [written EXCEPT ![p][n] = Append(@, line)]
           /\ \/ ~Full(g) /\ Works /\ Store(p, n, g)
              \/ Full(g) /\ Works /\ Store(p, n, Rotated(g, TRUE))
              \/ Full(g) /\ Fails /\ Store(p, n, Rotated(g, FALSE))

\* The constructor: without its directory the writer stays inactive.
Construct(p) ==
    \/ /\ Works
       /\ writers' = [writers EXCEPT ![p] =
              [active |-> TRUE, running |-> TRUE, flusher |-> "dozing"]]
    \/ /\ Fails
       /\ writers' = [writers EXCEPT ![p] = NoWriter]

-----------------------------------------------------------------------------
\* The flush thread.

FlusherGoes(p, from, to) ==
    /\ writers[p].flusher = from
    /\ writers' = [writers EXCEPT ![p].flusher = to]
    /\ UNCHANGED <<files, failures, written>>

\* With running_ read, by the loop and by the predicate of wait_for, it blocks.  Who
\* notifies does not hold flush_cv_mutex_, so a notification that comes between the
\* two finds nobody waiting and is lost.
FlusherBlocks(p) == FlusherGoes(p, "dozing", "waiting")

\* Mistake: it waits for the notification with no limit.
FlusherWakesToStop(p) == FlusherGoes(p, "woken", "gone")

\* flush_interval has passed, or it is notified.
FlusherWakes(p) ==
    \E from \in {"waiting", "woken"} :
        FlusherGoes(p, from, IF writers[p].running THEN "flushing" ELSE "gone")

FlushAll(p) ==
    /\ writers[p].flusher = "flushing"
    /\ files' = [files EXCEPT ![p] = [n \in Names |-> Flushed(files[p][n])]]
    /\ writers' = [writers EXCEPT ![p].flusher =
                      IF writers[p].running THEN "dozing" ELSE "gone"]
    /\ UNCHANGED <<failures, written>>

-----------------------------------------------------------------------------
\* The destructor.

\* running_ is cleared, and the flush thread notified if it waits.
StopFlusher(p) ==
    writers' = [writers EXCEPT
        ![p].running = FALSE,
        ![p].flusher = IF @ = "waiting" THEN "woken" ELSE @]

FlusherJoined(p) == writers[p].flusher \in {"none", "gone"}

Close(p) ==
    /\ files' = [files EXCEPT ![p] = [n \in Names |-> Closed(files[p][n])]]
    /\ writers' = [writers EXCEPT ![p] = NoWriter]

-----------------------------------------------------------------------------
\* Every line the file (p, n) still has, the oldest first.
Kept(p, n) == FlattenSeq(Reverse(files[p][n].disk)) \o files[p][n].buffer

WriterTypeOK ==
    /\ writers \in [Profiles -> Writers]
    /\ files \in [Profiles -> [Names -> Files]]
    /\ failures \in 0..MaxFailures
    /\ written \in [Profiles -> [Names -> Seq(Nat)]]

\* Only an active writer has open files, and what is closed is on disk; the size
\* that decides on rotation is that of the file.
FilesConsistent ==
    \A p \in Profiles, n \in Names : LET f == files[p][n] IN
        /\ Len(f.bytes) = Len(f.disk)
        /\ IF f.open THEN writers[p].active /\ f.size = f.bytes[1] ELSE f.buffer = << >>

\* A file exceeds max_file_size_bytes by less than the line that filled it, and the
\* number of files does not exceed the limit.
FilesBounded ==
    \A p \in Profiles, n \in Names : LET f == files[p][n] IN
        /\ Len(f.disk) <= MaxRotated + 1
        /\ MaxFileSize > 0 => \A i \in DOMAIN f.bytes : f.bytes[i] < MaxFileSize + MaxLine

\* Rotation deletes old lines only, and no more than it must: the files hold the
\* latest lines written, in order, and all of them unless every rotated file there
\* may be is there and full, over any sequence of rotations, failures to open, and
\* writers of the same profile.
RecentLinesKept ==
    \A p \in Profiles, n \in Names : LET f == files[p][n] IN
        /\ IsSuffix(Kept(p, n), written[p][n])
        /\ \/ Kept(p, n) = written[p][n]
           \/ /\ MaxFileSize > 0 /\ Len(f.disk) = MaxRotated + 1
              /\ \A i \in 2..Len(f.disk) : f.bytes[i] >= MaxFileSize
=============================================================================
