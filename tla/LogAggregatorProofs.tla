------------------------ MODULE LogAggregatorProofs -------------------------
(***************************************************************************)
(* What the log promises, proved for any processes, streams, profiles,     *)
(* sizes of files and lines and numbers of failures, with every thread of  *)
(* module LogAggregator: a file exceeds its limit by less than a line      *)
(* (LInv), lines are shown in the order they have in the file (SameOrder), *)
(* none is shown that has not reached a file (ShownIsLogged), and the      *)
(* files hold the latest lines of every name (RecentLinesKept).            *)
(***************************************************************************)
EXTENDS LogAggregator, SequenceLemmas

-----------------------------------------------------------------------------
\* Sequences.

\* A sequence that is not empty and no longer than one has one element.
LEMMA Single == ASSUME NEW S, NEW s \in Seq(S), s # << >>, Len(s) <= 1 PROVE Len(s) = 1
<1>1. Len(s) \in Nat \ {0}
  OBVIOUS
<1> QED BY <1>1

\* What is first in a sequence is one of its values.
LEMMA FirstOf == ASSUME NEW S, NEW s \in Seq(S), s # << >> PROVE s[1] \in S
<1>1. Len(s) \in Nat \ {0}
  OBVIOUS
<1>2. 1 \in DOMAIN s
  BY <1>1
<1> QED BY <1>2

-----------------------------------------------------------------------------
\* One file.

\* No file is past its limit by a line or more.
WithinALine(f) ==
    MaxFileSize > 0 => \A i \in 1..Len(f.bytes) : f.bytes[i] < MaxFileSize + MaxLine

\* A file that may still have to be rotated.
Grown(f) ==
    /\ f \in Files
    /\ f.open
    /\ f.disk # << >> /\ Len(f.disk) <= MaxRotated + 1
    /\ Len(f.bytes) = Len(f.disk)
    /\ f.size = f.bytes[1]
    /\ WithinALine(f)

\* A file between two operations: it has not reached its limit.
Sound(f) ==
    /\ f \in Files
    /\ IF f.open THEN f.disk # << >> /\ f.size = f.bytes[1] ELSE f.buffer = << >>
    /\ Len(f.disk) <= MaxRotated + 1
    /\ Len(f.bytes) = Len(f.disk)
    /\ WithinALine(f)
    /\ MaxFileSize > 0 /\ f.disk # << >> => f.bytes[1] < MaxFileSize

\* What the assumptions say of the sizes.
LEMMA Sizes ==
  /\ MaxFileSize \in Nat /\ MaxRotated \in Nat /\ MaxFailures \in Nat /\ MaxLine \in Nat
  /\ NumProfiles \in Nat \ {0}
  BY WriterAssumption

\* A file never opened is sound.
LEMMA NoFileIsSound == Sound(NoFile)
  BY Sizes DEF Sound, NoFile, Files, WithinALine

\* What the types say of a file with something on disk.
LEMMA FileTypes ==
  ASSUME NEW f \in Files, f.disk # << >>, Len(f.bytes) = Len(f.disk)
  PROVE  /\ f.disk \in Seq(Seq(Nat)) /\ f.buffer \in Seq(Nat) /\ f.disk[1] \in Seq(Nat)
         /\ f.bytes \in Seq(Nat) /\ f.bytes # << >> /\ f.bytes[1] \in Nat
         /\ Len(f.disk) \in Nat \ {0} /\ DOMAIN f.disk = 1..Len(f.disk)
         /\ Len(f.disk[1]) \in Nat /\ Len(f.buffer) \in Nat /\ f.size \in Nat
<1>1. /\ f.disk \in Seq(Seq(Nat)) /\ f.buffer \in Seq(Nat) /\ f.size \in Nat
      /\ f.bytes \in Seq(Nat)
  BY DEF Files
<1>2. 1 \in DOMAIN f.disk /\ Len(f.disk) \in Nat \ {0} /\ DOMAIN f.disk = 1..Len(f.disk)
  BY <1>1
<1>3. f.disk[1] \in Seq(Nat)
  BY <1>1, <1>2
<1>4. 1 \in 1..Len(f.bytes) /\ f.bytes # << >>
  BY <1>1, <1>2
<1>5. f.bytes[1] \in Nat
  BY <1>1, <1>4
<1> QED BY <1>1, <1>2, <1>3, <1>4, <1>5

\* Replacing the first file of a list, the active one, changes nothing else of it.
LEMMA SetFirst ==
  ASSUME NEW S, NEW d \in Seq(S), d # << >>, NEW x \in S
  PROVE  /\ [d EXCEPT ![1] = x] \in Seq(S)
         /\ Len([d EXCEPT ![1] = x]) = Len(d)
         /\ [d EXCEPT ![1] = x][1] = x
         /\ \A i \in 1..Len(d) : i # 1 => [d EXCEPT ![1] = x][i] = d[i]
  OBVIOUS

\* One field of a file changes, and the others do not.
LEMMA SetOpen ==
  ASSUME NEW f \in Files, NEW o \in BOOLEAN
  PROVE  /\ [f EXCEPT !.open = o] \in Files
         /\ [f EXCEPT !.open = o].open = o
         /\ [f EXCEPT !.open = o].size = f.size
         /\ [f EXCEPT !.open = o].buffer = f.buffer
         /\ [f EXCEPT !.open = o].disk = f.disk
         /\ [f EXCEPT !.open = o].bytes = f.bytes
  BY DEF Files

LEMMA SetSize ==
  ASSUME NEW f \in Files, NEW s \in Nat
  PROVE  /\ [f EXCEPT !.size = s] \in Files
         /\ [f EXCEPT !.size = s].open = f.open
         /\ [f EXCEPT !.size = s].size = s
         /\ [f EXCEPT !.size = s].buffer = f.buffer
         /\ [f EXCEPT !.size = s].disk = f.disk
         /\ [f EXCEPT !.size = s].bytes = f.bytes
  BY DEF Files

LEMMA SetBuffer ==
  ASSUME NEW f \in Files, NEW b \in Seq(Nat)
  PROVE  /\ [f EXCEPT !.buffer = b] \in Files
         /\ [f EXCEPT !.buffer = b].open = f.open
         /\ [f EXCEPT !.buffer = b].size = f.size
         /\ [f EXCEPT !.buffer = b].buffer = b
         /\ [f EXCEPT !.buffer = b].disk = f.disk
         /\ [f EXCEPT !.buffer = b].bytes = f.bytes
  BY DEF Files

LEMMA SetDisk ==
  ASSUME NEW f \in Files, NEW d \in Seq(Seq(Nat))
  PROVE  /\ [f EXCEPT !.disk = d] \in Files
         /\ [f EXCEPT !.disk = d].open = f.open
         /\ [f EXCEPT !.disk = d].size = f.size
         /\ [f EXCEPT !.disk = d].buffer = f.buffer
         /\ [f EXCEPT !.disk = d].disk = d
         /\ [f EXCEPT !.disk = d].bytes = f.bytes
  BY DEF Files

LEMMA SetBytes ==
  ASSUME NEW f \in Files, NEW b \in Seq(Nat)
  PROVE  /\ [f EXCEPT !.bytes = b] \in Files
         /\ [f EXCEPT !.bytes = b].open = f.open
         /\ [f EXCEPT !.bytes = b].size = f.size
         /\ [f EXCEPT !.bytes = b].buffer = f.buffer
         /\ [f EXCEPT !.bytes = b].disk = f.disk
         /\ [f EXCEPT !.bytes = b].bytes = b
  BY DEF Files

\* A line appended goes into the buffer and counts in the sizes.
LEMMA AppendedFields ==
  ASSUME NEW f \in Files, f.disk # << >>, Len(f.bytes) = Len(f.disk),
         NEW line \in Nat, NEW size \in Nat
  PROVE  /\ Appended(f, line, size) \in Files
         /\ Appended(f, line, size).open = f.open
         /\ Appended(f, line, size).size = f.size + size
         /\ Appended(f, line, size).buffer = Append(f.buffer, line)
         /\ Appended(f, line, size).disk = f.disk
         /\ Appended(f, line, size).bytes = [f.bytes EXCEPT ![1] = f.bytes[1] + size]
<1> DEFINE b == Append(f.buffer, line)
           s == f.size + size
           y == [f.bytes EXCEPT ![1] = f.bytes[1] + size]
           h == [f EXCEPT !.buffer = b]
           g == [h EXCEPT !.size = s]
<1>1. b \in Seq(Nat) /\ s \in Nat
  BY DEF Files
<1>2. y \in Seq(Nat)
  <2>1. f.bytes[1] + size \in Nat /\ f.bytes \in Seq(Nat) /\ f.bytes # << >>
    BY FileTypes
  <2> QED BY <2>1, SetFirst
<1>3. Appended(f, line, size) = [g EXCEPT !.bytes = y]
  <2>1. g.bytes = f.bytes
    <3> HIDE DEF b, s
    <3>1. h \in Files /\ h.bytes = f.bytes
      BY <1>1, SetBuffer
    <3> QED BY <1>1, <3>1, SetSize
  <2> QED BY <2>1 DEF Appended
<1> HIDE DEF b, s, y
<1>4. /\ h \in Files /\ h.open = f.open /\ h.size = f.size /\ h.disk = f.disk
      /\ h.buffer = b /\ h.bytes = f.bytes
  BY <1>1, SetBuffer
<1> HIDE DEF h
<1>5. /\ g \in Files /\ g.open = f.open /\ g.size = s /\ g.disk = f.disk
      /\ g.buffer = b /\ g.bytes = f.bytes
  BY <1>1, <1>4, SetSize
<1> HIDE DEF g
<1> DEFINE a == [g EXCEPT !.bytes = y]
<1>6. /\ a \in Files /\ a.open = f.open /\ a.size = s /\ a.disk = f.disk
      /\ a.buffer = b /\ a.bytes = y
  BY <1>2, <1>5, SetBytes
<1> HIDE DEF a
<1>7. Appended(f, line, size) = a
  BY <1>3 DEF a
<1> QED BY <1>6, <1>7, Zenon DEF b, s, y

\* A flush moves the buffer to the end of the active file.
LEMMA FlushedFields ==
  ASSUME NEW f \in Files, f.open, f.disk # << >>, Len(f.bytes) = Len(f.disk)
  PROVE  /\ Flushed(f) \in Files
         /\ Flushed(f).open
         /\ Flushed(f).size = f.size
         /\ Flushed(f).buffer = << >>
         /\ Flushed(f).disk = [f.disk EXCEPT ![1] = f.disk[1] \o f.buffer]
         /\ Flushed(f).bytes = f.bytes
<1> DEFINE d == [f.disk EXCEPT ![1] = f.disk[1] \o f.buffer]
           h == [f EXCEPT !.disk = d]
<1>1. d \in Seq(Seq(Nat))
  BY DEF Files
<1>3. Flushed(f) = [h EXCEPT !.buffer = << >>]
  BY DEF Flushed
<1> HIDE DEF d
<1>2. /\ h \in Files /\ h.open = f.open /\ h.size = f.size /\ h.disk = d /\ h.bytes = f.bytes
  BY <1>1, SetDisk
<1>4. << >> \in Seq(Nat)
  OBVIOUS
<1> HIDE DEF h
<1> DEFINE a == [h EXCEPT !.buffer = << >>]
<1>5. /\ a \in Files /\ a.open = h.open /\ a.size = f.size
      /\ a.buffer = << >> /\ a.disk = d /\ a.bytes = f.bytes
  BY <1>2, <1>4, SetBuffer
<1>6. a.open
  BY <1>2, <1>5, Zenon
<1>7. Flushed(f) = a
  BY <1>3 DEF a
<1> HIDE DEF a
<1> QED BY <1>5, <1>6, <1>7, Zenon DEF d

\* What is on disk after flushing, of a file that may have to be rotated.
LEMMA FlushedDisk ==
  ASSUME NEW f, Grown(f)
  PROVE  /\ Flushed(f).disk \in Seq(Seq(Nat))
         /\ Len(Flushed(f).disk) = Len(f.disk)
<1>1. f \in Files /\ f.open /\ f.disk # << >> /\ Len(f.bytes) = Len(f.disk)
  BY DEF Grown
<1>2. Flushed(f).disk = [f.disk EXCEPT ![1] = f.disk[1] \o f.buffer]
  BY <1>1, FlushedFields
<1> DEFINE x == f.disk[1] \o f.buffer
<1>3. x \in Seq(Nat) /\ f.disk \in Seq(Seq(Nat))
  BY <1>1, FileTypes
<1> HIDE DEF x
<1> DEFINE e == [f.disk EXCEPT ![1] = x]
<1>4. e \in Seq(Seq(Nat)) /\ Len(e) = Len(f.disk)
  BY <1>1, <1>3, SetFirst
<1>7. Flushed(f).disk = e
  BY <1>2 DEF x
<1> HIDE DEF e
<1> QED BY <1>4, <1>7

\* A file that is open between two operations has not outgrown its limit.
LEMMA SoundIsGrown ==
  ASSUME NEW f, Sound(f), f.open
  PROVE  Grown(f)
  BY DEF Sound, Grown

\* Flushing does not change how much a file holds.
LEMMA FlushKeeps == ASSUME NEW f, Sound(f) PROVE Sound(Flushed(f))
<1>1. CASE ~f.open
  BY <1>1 DEF Flushed
<1>2. CASE f.open
  <2>1. Grown(f) /\ f \in Files /\ f.disk # << >> /\ Len(f.bytes) = Len(f.disk)
    BY <1>2, SoundIsGrown DEF Sound
  <2>3. /\ Flushed(f) \in Files /\ Flushed(f).open /\ Flushed(f).size = f.size
        /\ Flushed(f).buffer = << >> /\ Flushed(f).bytes = f.bytes
    BY <1>2, <2>1, FlushedFields
  <2>4. Len(Flushed(f).disk) = Len(f.disk) /\ Flushed(f).disk # << >>
    <3>1. Len(Flushed(f).disk) = Len(f.disk) /\ Len(f.disk) \in Nat \ {0}
      BY <2>1, FlushedDisk, FileTypes
    <3>2. Len(<< >>) = 0
      OBVIOUS
    <3> QED BY <3>1, <3>2
  <2> DEFINE g == Flushed(f)
  <2> HIDE DEF g
  <2>5. Sound(g)
    BY <1>2, <2>1, <2>3, <2>4 DEF Sound, WithinALine, g
  <2> QED BY <2>5 DEF g
<1> QED BY <1>1, <1>2

\* Closing flushes, and leaves no file open.
LEMMA CloseKeeps ==
  ASSUME NEW f, Sound(f)
  PROVE  Sound(Closed(f)) /\ ~Closed(f).open
<1> DEFINE g == Flushed(f)
           h == [g EXCEPT !.open = FALSE]
<1>1. Sound(g) /\ g.buffer = << >>
  <2>1. Sound(g)
    BY FlushKeeps
  <2>2. g.buffer = << >>
    BY FlushedFields DEF Sound, Flushed
  <2> QED BY <2>1, <2>2
<1>2. Closed(f) = [h EXCEPT !.size = 0]
  BY DEF Closed
<1> HIDE DEF g
<1>3. g \in Files
  BY <1>1 DEF Sound
<1>4. h \in Files /\ h.open = FALSE /\ h.buffer = g.buffer /\ h.disk = g.disk /\ h.bytes = g.bytes
  BY <1>3, SetOpen
<1> HIDE DEF h
<1> DEFINE c == [h EXCEPT !.size = 0]
<1>5. /\ c \in Files /\ c.open = FALSE /\ c.buffer = g.buffer
      /\ c.disk = g.disk /\ c.bytes = g.bytes
  <2>1. 0 \in Nat
    OBVIOUS
  <2> QED BY <1>4, <2>1, SetSize
<1> HIDE DEF c
<1>6. Sound(c) /\ ~c.open
  BY <1>1, <1>5 DEF Sound, WithinALine
<1> QED BY <1>2, <1>6 DEF c

\* What is created for a name without a file is an empty one.
LEMMA CreatedIsSound ==
  ASSUME NEW f, Sound(f)
  PROVE  /\ Sound(Created(f)) /\ Created(f).disk # << >>
         /\ Created(f).open = f.open /\ Created(f).buffer = f.buffer
         /\ f.disk # << >> => Created(f) = f
         /\ f.disk = << >> => Created(f).disk = << << >> >>
<1>1. CASE f.disk # << >>
  BY <1>1 DEF Created
<1>2. CASE f.disk = << >>
  <2> DEFINE d == << << >> >>
             b == <<0>>
             h == [f EXCEPT !.disk = d]
             c == [h EXCEPT !.bytes = b]
  <2>1. /\ d \in Seq(Seq(Nat)) /\ Len(d) = 1 /\ d # << >>
        /\ b \in Seq(Nat) /\ Len(b) = 1 /\ b[1] = 0
    OBVIOUS
  <2>2. Created(f) = c
    BY <1>2 DEF Created
  <2>3. f \in Files /\ ~f.open
    BY <1>2 DEF Sound
  <2> HIDE DEF d, b
  <2>4. /\ h \in Files /\ h.open = f.open /\ h.buffer = f.buffer /\ h.disk = d
        /\ h.size = f.size
    BY <2>1, <2>3, SetDisk
  <2> HIDE DEF h
  <2>5. /\ c \in Files /\ c.open = f.open /\ c.buffer = f.buffer /\ c.disk = d
        /\ c.bytes = b
    BY <2>1, <2>4, SetBytes
  <2> HIDE DEF c
  <2>6. MaxFileSize > 0 => 0 < MaxFileSize /\ 0 < MaxFileSize + MaxLine
    BY Sizes
  <2>7. 1 <= MaxRotated + 1
    BY Sizes
  <2>8. WithinALine(c)
    <3>1. \A i \in 1..1 : i = 1
      OBVIOUS
    <3>2. Len(c.bytes) = 1 /\ c.bytes[1] = 0
      BY <2>1, <2>5, Zenon
    <3>3. \A i \in 1..Len(c.bytes) : c.bytes[i] = 0
      BY <3>1, <3>2, Zenon
    <3> QED BY <2>6, <3>3 DEF WithinALine
  <2>9. Sound(c)
    <3>1. ~c.open /\ c.buffer = << >>
      BY <2>3, <2>5 DEF Sound
    <3> QED BY <2>1, <2>5, <2>6, <2>7, <2>8, <3>1 DEF Sound
  <2> QED BY <1>2, <2>1, <2>2, <2>5, <2>9 DEF d
<1> QED BY <1>1, <1>2

\* Opened for a line that is about to be written: as it is, or as fopen makes it.
LEMMA OpenedIsSound ==
  ASSUME NEW f, Sound(f), ~f.open
  PROVE  /\ Sound(Opened(f)) /\ Opened(f).open
         /\ Opened(f).disk = Created(f).disk /\ Opened(f).bytes = Created(f).bytes
         /\ Opened(f).buffer = << >>
<1> DEFINE e == Created(f)
           h == [e EXCEPT !.open = TRUE]
           o == [h EXCEPT !.size = e.bytes[1]]
<1>1. Sound(e) /\ e.disk # << >> /\ ~e.open /\ e.buffer = << >>
  BY CreatedIsSound DEF Sound
<1>2. Opened(f) = o
  BY DEF Opened
<1> HIDE DEF e
<1>3. e \in Files /\ e.bytes[1] \in Nat
  BY <1>1, FileTypes DEF Sound
<1>4. h \in Files /\ h.open = TRUE /\ h.buffer = e.buffer /\ h.disk = e.disk /\ h.bytes = e.bytes
  BY <1>3, SetOpen
<1> HIDE DEF h
<1>5. /\ o \in Files /\ o.open = TRUE /\ o.size = e.bytes[1] /\ o.buffer = e.buffer
      /\ o.disk = e.disk /\ o.bytes = e.bytes
  BY <1>3, <1>4, SetSize
<1> HIDE DEF o
<1>6. Sound(o)
  BY <1>1, <1>5 DEF Sound, WithinALine
<1> QED BY <1>1, <1>2, <1>5, <1>6 DEF e

\* A file that has not reached its limit is past it by less than the next line.
LEMMA AppendGrows ==
  ASSUME NEW f, Sound(f), f.open, NEW line \in Nat, NEW size \in 1..MaxLine
  PROVE  Grown(Appended(f, line, size))
<1> DEFINE g == Appended(f, line, size)
           x == f.bytes[1] + size
<1>1. f \in Files /\ f.disk # << >> /\ Len(f.bytes) = Len(f.disk) /\ size \in Nat
  BY Sizes DEF Sound
<1>2. /\ g \in Files /\ g.open = f.open /\ g.size = f.size + size
      /\ g.disk = f.disk /\ g.bytes = [f.bytes EXCEPT ![1] = x]
  <2>1. f \in Files /\ f.disk # << >> /\ Len(f.bytes) = Len(f.disk)
    BY <1>1
  <2>2. size \in Nat
    BY <1>1
  <2>3. g \in Files /\ g.open = f.open
    BY <2>1, <2>2, AppendedFields
  <2>4. g.size = f.size + size
    BY <2>1, <2>2, AppendedFields
  <2>5. g.disk = f.disk
    BY <2>1, <2>2, AppendedFields
  <2>6. g.bytes = [f.bytes EXCEPT ![1] = x]
    BY <2>1, <2>2, AppendedFields
  <2> QED BY <2>3, <2>4, <2>5, <2>6
<1>3. f.bytes \in Seq(Nat) /\ f.bytes # << >> /\ f.bytes[1] \in Nat /\ x \in Nat
  BY <1>1, FileTypes
<1>4. MaxFileSize > 0 => x < MaxFileSize + MaxLine
  <2>1. MaxFileSize > 0 => f.bytes[1] < MaxFileSize
    BY <1>1 DEF Sound
  <2> QED BY <1>3, <2>1, Sizes
<1> HIDE DEF g, x
<1>5. /\ Len(g.bytes) = Len(f.bytes) /\ g.bytes[1] = x
      /\ \A i \in 1..Len(f.bytes) : i # 1 => g.bytes[i] = f.bytes[i]
  BY <1>2, <1>3, SetFirst
<1>6. WithinALine(g)
  BY <1>4, <1>5 DEF Sound, WithinALine
<1>7. g.size = g.bytes[1]
  <2>1. f.size = f.bytes[1]
    BY DEF Sound
  <2> QED BY <1>2, <1>5, <2>1 DEF x
<1>8. Grown(g)
  BY <1>1, <1>2, <1>5, <1>6, <1>7 DEF Sound, Grown
<1> QED BY <1>8 DEF g

\* One that is not full has not reached its limit.
LEMMA NotFullIsSound == ASSUME NEW g, Grown(g), ~Full(g) PROVE Sound(g)
<1>1. g \in Files
  BY DEF Grown
<1>2. g.size \in Nat
  BY <1>1 DEF Files
<1>3. MaxFileSize > 0 => g.size < MaxFileSize
  BY <1>2, Sizes DEF Full
<1> QED BY <1>1, <1>3 DEF Sound, Grown

\* A new first element before the newest of a sequence.
LeadBy(r, S, first, n) == r \in Seq(S) /\ Len(r) = n /\ r[1] = first

LEMMA Pushed ==
  ASSUME NEW S, NEW s \in Seq(S), NEW x \in S, NEW max \in Nat
  PROVE  LeadBy(MovedOn(x, s, max), S, x, Least(max, Len(s)) + 1)
<1> DEFINE k == Least(max, Len(s))
           r == MovedOn(x, s, max)
           kept == SubSeq(s, 1, k)
           fresh == <<x>>
<1>0. r = fresh \o kept
  BY DEF MovedOn
<1> HIDE DEF r
<1>1. /\ Len(s) \in Nat /\ k \in 0..Len(s) /\ k \in Nat /\ k <= max
      /\ (k = max \/ k = Len(s))
  BY DEF Least
<1> HIDE DEF k
<1>2. /\ kept \in Seq(S) /\ Len(kept) = k
      /\ \A i \in 1..k : kept[i] = s[i]
  BY <1>1
<1> HIDE DEF kept
<1>3. fresh \in Seq(S) /\ Len(fresh) = 1 /\ fresh[1] = x
  OBVIOUS
<1> HIDE DEF fresh
<1> DEFINE all == fresh \o kept
<1>10. /\ all \in Seq(S) /\ Len(all) = Len(fresh) + Len(kept)
       /\ \A i \in 1..(Len(fresh) + Len(kept)) :
            all[i] = IF i <= Len(fresh) THEN fresh[i] ELSE kept[i - Len(fresh)]
  BY <1>2, <1>3, Concatenation, Zenon
<1>11. r = all
  BY <1>0
<1> HIDE DEF all
<1>4. /\ r \in Seq(S) /\ Len(r) = Len(fresh) + Len(kept)
      /\ \A i \in 1..(Len(fresh) + Len(kept)) :
           r[i] = IF i <= Len(fresh) THEN fresh[i] ELSE kept[i - Len(fresh)]
  BY <1>10, <1>11, Zenon
<1>5. Len(fresh) + Len(kept) = k + 1 /\ Len(fresh) = 1 /\ 1 \in 1..(k + 1) /\ 1 <= 1
  BY <1>1, <1>2, <1>3
<1>6. \A i \in 1..(k + 1) : r[i] = IF i <= 1 THEN fresh[i] ELSE kept[i - 1]
  BY <1>4, <1>5, Zenon
<1>7. r[1] = x /\ Len(r) = k + 1
  BY <1>3, <1>4, <1>5, <1>6, Zenon
<1> QED BY <1>4, <1>7, Zenon DEF k, r, LeadBy

\* The others follow it.
LEMMA PushedAt ==
  ASSUME NEW S, NEW s \in Seq(S), NEW x \in S, NEW max \in Nat,
         NEW at \in 2..(Least(max, Len(s)) + 1)
  PROVE  MovedOn(x, s, max)[at] = s[at - 1]
<1> DEFINE k == Least(max, Len(s))
           r == MovedOn(x, s, max)
           kept == SubSeq(s, 1, k)
           fresh == <<x>>
<1>0. r = fresh \o kept
  BY DEF MovedOn
<1> HIDE DEF r
<1>1. /\ Len(s) \in Nat /\ k \in 0..Len(s) /\ k \in Nat /\ k <= max
      /\ (k = max \/ k = Len(s))
  BY DEF Least
<1> HIDE DEF k
<1>2. /\ kept \in Seq(S) /\ Len(kept) = k
      /\ \A i \in 1..k : kept[i] = s[i]
  BY <1>1
<1> HIDE DEF kept
<1>3. fresh \in Seq(S) /\ Len(fresh) = 1 /\ fresh[1] = x
  OBVIOUS
<1> HIDE DEF fresh
<1> DEFINE all == fresh \o kept
<1>10. /\ all \in Seq(S) /\ Len(all) = Len(fresh) + Len(kept)
       /\ \A i \in 1..(Len(fresh) + Len(kept)) :
            all[i] = IF i <= Len(fresh) THEN fresh[i] ELSE kept[i - Len(fresh)]
  BY <1>2, <1>3, Concatenation, Zenon
<1>11. r = all
  BY <1>0
<1> HIDE DEF all
<1>4. /\ r \in Seq(S) /\ Len(r) = Len(fresh) + Len(kept)
      /\ \A i \in 1..(Len(fresh) + Len(kept)) :
           r[i] = IF i <= Len(fresh) THEN fresh[i] ELSE kept[i - Len(fresh)]
  BY <1>10, <1>11, Zenon
<1>5. Len(fresh) + Len(kept) = k + 1 /\ Len(fresh) = 1 /\ 1 \in 1..(k + 1) /\ 1 <= 1
  BY <1>1, <1>2, <1>3
<1>6. \A i \in 1..(k + 1) : r[i] = IF i <= 1 THEN fresh[i] ELSE kept[i - 1]
  BY <1>4, <1>5, Zenon
<1>7. at \in 2..(k + 1)
  BY DEF k
<1>8. at \in 1..(k + 1) /\ ~(at <= 1) /\ at - 1 \in 1..k
  BY <1>1, <1>7
<1>9. r[at] = s[at - 1]
  BY <1>2, <1>6, <1>8, Zenon
<1> QED BY <1>9 DEF r

\* What rotation makes of a file.
LEMMA RotatedFields ==
  ASSUME NEW g, Grown(g), NEW opens \in BOOLEAN
  PROVE  LET old == Flushed(g).disk
             k == Least(MaxRotated, Len(g.disk))
             r == Rotated(g, opens)
         IN  /\ k \in 0..Len(g.disk) /\ k \in Nat /\ k <= MaxRotated
             /\ (k = MaxRotated \/ k = Len(g.disk))
             /\ r \in Files /\ r.open = opens /\ r.size = 0 /\ r.buffer = << >>
             /\ Len(r.disk) = k + 1 /\ r.disk[1] = << >>
             /\ \A i \in 2..(k + 1) : r.disk[i] = old[i - 1]
             /\ Len(r.bytes) = k + 1 /\ r.bytes[1] = 0
             /\ \A i \in 2..(k + 1) : i - 1 \in 1..Len(g.disk) /\ r.bytes[i] = g.bytes[i - 1]
<1> DEFINE old == Flushed(g).disk
           k == Least(MaxRotated, Len(g.disk))
           d == MovedOn(<< >>, old, MaxRotated)
           b == MovedOn(0, g.bytes, MaxRotated)
           r == [open |-> opens, size |-> 0, buffer |-> << >>, disk |-> d, bytes |-> b]
<1>1. /\ old \in Seq(Seq(Nat)) /\ Len(old) = Len(g.disk) /\ Len(g.bytes) = Len(g.disk)
      /\ g.bytes \in Seq(Nat)
  BY FlushedDisk DEF Grown, Files
<1>2. r = Rotated(g, opens)
  BY DEF Rotated, RotatedTo
<1> HIDE DEF old
<1>3. << >> \in Seq(Nat) /\ 0 \in Nat
  OBVIOUS
<1> DEFINE n == Len(g.disk)
<1>7. /\ k \in 0..n /\ k \in Nat /\ k <= MaxRotated /\ (k = MaxRotated \/ k = n)
      /\ n \in Nat
  <2>1. MaxRotated \in Nat /\ n \in Nat
    BY <1>1, Sizes
  <2> HIDE DEF n
  <2> QED BY <2>1 DEF Least, n
<1>4. d \in Seq(Seq(Nat)) /\ Len(d) = k + 1 /\ d[1] = << >>
  <2>1. old \in Seq(Seq(Nat)) /\ << >> \in Seq(Nat) /\ MaxRotated \in Nat
    BY <1>1, <1>3, Sizes
  <2>2. LeadBy(d, Seq(Nat), << >>, Least(MaxRotated, Len(old)) + 1)
    BY <2>1, Pushed, Zenon
  <2>3. LeadBy(d, Seq(Nat), << >>, k + 1)
    BY <1>1, <2>2, Zenon
  <2> QED BY <2>3, Zenon DEF LeadBy
<1>5. b \in Seq(Nat) /\ Len(b) = k + 1 /\ b[1] = 0
  <2>1. g.bytes \in Seq(Nat) /\ 0 \in Nat /\ MaxRotated \in Nat
    BY <1>1, <1>3, Sizes
  <2>2. LeadBy(b, Nat, 0, Least(MaxRotated, Len(g.bytes)) + 1)
    BY <2>1, Pushed, Zenon
  <2>3. LeadBy(b, Nat, 0, k + 1)
    BY <1>1, <2>2, Zenon
  <2> QED BY <2>3, Zenon DEF LeadBy
<1>8. ASSUME NEW i \in 2..(k + 1)
      PROVE  i - 1 \in 1..n /\ d[i] = old[i - 1] /\ b[i] = g.bytes[i - 1]
  <2>1. Least(MaxRotated, Len(old)) = k /\ Least(MaxRotated, Len(g.bytes)) = k
    BY <1>1, Zenon
  <2>2. MaxRotated \in Nat
    BY Sizes
  <2>3. i \in 2..(Least(MaxRotated, Len(old)) + 1) /\ i \in 2..(Least(MaxRotated, Len(g.bytes)) + 1)
    BY <2>1, Zenon
  <2>4. d[i] = old[i - 1]
    BY <1>1, <1>3, <2>2, <2>3, PushedAt, Zenon
  <2>5. b[i] = g.bytes[i - 1]
    BY <1>1, <1>3, <2>2, <2>3, PushedAt, Zenon
  <2>6. i - 1 \in 1..n
    <3> HIDE DEF k, n
    <3> QED BY <1>7
  <2> QED BY <2>4, <2>5, <2>6
<1> HIDE DEF d, b, k
<1>6. /\ r \in Files /\ r.open = opens /\ r.size = 0 /\ r.buffer = << >>
      /\ r.disk = d /\ r.bytes = b
  BY <1>3, <1>4, <1>5 DEF Files
<1> HIDE DEF r
<1> QED BY <1>2, <1>4, <1>5, <1>6, <1>7, <1>8, Zenon DEF old, k, n

\* Rotation gives a full file a new active one, and keeps to the number of files.
LEMMA RotateKeeps ==
  ASSUME NEW g, Grown(g), Full(g), NEW opens \in BOOLEAN
  PROVE  Sound(Rotated(g, opens)) /\ Rotated(g, opens).open = opens
<1> DEFINE k == Least(MaxRotated, Len(g.disk))
           r == Rotated(g, opens)
<1>1. /\ k \in Nat /\ k <= MaxRotated
      /\ r \in Files /\ r.open = opens /\ r.size = 0 /\ r.buffer = << >>
      /\ Len(r.disk) = k + 1 /\ Len(r.bytes) = k + 1 /\ r.bytes[1] = 0
      /\ \A i \in 2..(k + 1) : i - 1 \in 1..Len(g.disk) /\ r.bytes[i] = g.bytes[i - 1]
  BY RotatedFields, Zenon
<1> HIDE DEF k, r
<1>2. WithinALine(r)
  <2> SUFFICES ASSUME MaxFileSize > 0, NEW i \in 1..(k + 1)
               PROVE  r.bytes[i] < MaxFileSize + MaxLine
    BY <1>1 DEF WithinALine
  <2>1. CASE i = 1
    BY <1>1, <2>1, Sizes
  <2>2. CASE i # 1
    <3>1. i \in 2..(k + 1)
      BY <1>1, <2>2
    <3>2. i - 1 \in 1..Len(g.bytes) /\ r.bytes[i] = g.bytes[i - 1]
      BY <1>1, <3>1 DEF Grown
    <3> QED BY <3>2 DEF Grown, WithinALine
  <2> QED BY <2>1, <2>2
<1>3. r.disk # << >> /\ Len(r.disk) <= MaxRotated + 1
  <2>1. Len(<< >>) = 0
    OBVIOUS
  <2> QED BY <1>1, <2>1, Sizes
<1>4. Sound(r)
  BY <1>1, <1>2, <1>3, Sizes DEF Sound
<1> QED BY <1>1, <1>4 DEF r

-----------------------------------------------------------------------------
\* All files and their writers.

FilesSound ==
    /\ writers \in [Profiles -> Writers]
    /\ files \in [Profiles -> [Names -> Files]]
    /\ failures \in 0..MaxFailures
    /\ written \in [Profiles -> [Names -> Seq(Nat)]]
    /\ \A p \in Profiles, n \in Names :
        Sound(files[p][n]) /\ (files[p][n].open => writers[p].active)

\* The profiles that may have a writer, in every phase of the change of profile.
Present ==
    CASE change = "starting" -> {}
      [] change = "idle"     -> {current}
      [] change = "made"     -> {current, Next(current)}
      [] change = "joining"  -> {current, Previous(current)}

WritersPresent ==
    /\ current \in Profiles
    /\ change \in {"starting", "idle", "made", "joining"}
    /\ change = "starting" => current = 1
    /\ change \in {"made", "joining"} => NumProfiles > 1
    /\ \A p \in Profiles : writers[p].active => p \in Present

FilesInv == FilesSound /\ WritersPresent

\* Profiles are in a cycle, of which next and previous are inverse.
LEMMA NextProfile ==
  ASSUME NEW c \in Profiles, NumProfiles > 1
  PROVE  /\ Next(c) \in Profiles /\ Next(c) # c /\ Previous(Next(c)) = c
         /\ Previous(c) \in Profiles /\ Previous(c) # c
<1>1. Next(c) = IF c = NumProfiles THEN 1 ELSE c + 1
  BY Sizes DEF Next, Profiles
<1>2. \A d \in Profiles : Previous(d) = IF d = 1 THEN NumProfiles ELSE d - 1
  BY Sizes DEF Previous, Profiles
<1>3. Next(c) \in Profiles /\ Next(c) # c
  BY <1>1, Sizes DEF Profiles
<1>4. Previous(Next(c)) = IF Next(c) = 1 THEN NumProfiles ELSE Next(c) - 1
  BY <1>2, <1>3
<1>5. Previous(Next(c)) = c
  BY <1>1, <1>4, Sizes DEF Profiles
<1>6. Previous(c) \in Profiles /\ Previous(c) # c
  BY <1>2, Sizes DEF Profiles
<1> QED BY <1>3, <1>5, <1>6

\* Steps that touch neither writers nor files keep the invariant.
LEMMA FilesUnchanged ==
  FilesInv /\ UNCHANGED <<writerVars, current, change>> => FilesInv'
  BY DEF FilesInv, FilesSound, WritersPresent, Present, writerVars

\* One file is replaced by a sound one of an active writer.
LEMMA StoreKeeps ==
  ASSUME FilesSound, NEW p \in Profiles, NEW n \in Names, NEW f,
         Sound(f), writers[p].active, Store(p, n, f),
         UNCHANGED writers, failures' \in 0..MaxFailures,
         written' \in [Profiles -> [Names -> Seq(Nat)]]
  PROVE  FilesSound'
<1>1. f \in Files
  BY DEF Sound
<1>2. files' \in [Profiles -> [Names -> Files]]
  BY <1>1 DEF FilesSound, Store
<1>3. ASSUME NEW q \in Profiles, NEW m \in Names
      PROVE  files'[q][m] = IF q = p /\ m = n THEN f ELSE files[q][m]
  BY DEF FilesSound, Store
<1>4. ASSUME NEW q \in Profiles, NEW m \in Names
      PROVE  Sound(files'[q][m]) /\ (files'[q][m].open => writers[q].active)
  BY <1>3 DEF FilesSound
<1> QED BY <1>2, <1>4 DEF FilesSound

\* What a call of write does to the history and to the count of failures.
LEMMA WriteRecords ==
  ASSUME FilesSound, NEW p \in Profiles, NEW n \in Names, NEW line \in Nat,
         NEW size \in 1..MaxLine, Write(p, n, line, size)
  PROVE  /\ failures' \in 0..MaxFailures
         /\ failures' = 0 => failures = 0
         /\ written' \in [Profiles -> [Names -> Seq(Nat)]]
         /\ \A q \in Profiles, m \in Names : ToSet(written[q][m]) \subseteq ToSet(written'[q][m])
         /\ failures' = 0 /\ writers[p].active => line \in ToSet(written'[p][n])
         /\ \A q \in Profiles, m \in Names :
              \/ written'[q][m] = written[q][m]
              \/ q = p /\ m = n /\ written'[q][m] = Append(written[q][m], line)
<1>1. failures \in 0..MaxFailures /\ written \in [Profiles -> [Names -> Seq(Nat)]]
  BY DEF FilesSound
<1>2. failures' = failures \/ (failures < MaxFailures /\ failures' = failures + 1)
  BY DEF Write, Fails, Works
<1>3. failures' \in 0..MaxFailures /\ (failures' = 0 => failures = 0)
  BY <1>1, <1>2, Sizes
<1>4. CASE UNCHANGED written
  <2>1. failures' = 0 => ~writers[p].active
    <3>1. CASE written' = [written EXCEPT ![p][n] = Append(@, line)]
      <4>1. Append(written[p][n], line) = written[p][n]
        BY <1>1, <1>4, <3>1
      <4> QED BY <1>1, <4>1
    <3>2. CASE Fails
      BY <1>1, <3>2, Sizes DEF Fails
    <3> QED BY <3>1, <3>2 DEF Write
  <2> QED BY <1>1, <1>3, <1>4, <2>1
<1>5. CASE written' = [written EXCEPT ![p][n] = Append(@, line)]
  <2>1. Append(written[p][n], line) \in Seq(Nat)
    BY <1>1
  <2>2. written' \in [Profiles -> [Names -> Seq(Nat)]]
    BY <1>1, <1>5, <2>1
  <2>3. ASSUME NEW q \in Profiles, NEW m \in Names
        PROVE  written'[q][m] = IF q = p /\ m = n THEN Append(written[p][n], line)
                                                  ELSE written[q][m]
    BY <1>1, <1>5
  <2>4. ASSUME NEW s \in Seq(Nat)
        PROVE  ToSet(s) \subseteq ToSet(Append(s, line)) /\ line \in ToSet(Append(s, line))
    <3>1. DOMAIN Append(s, line) = 1..(Len(s) + 1) /\ Append(s, line)[Len(s) + 1] = line
      OBVIOUS
    <3>2. DOMAIN s = 1..Len(s) /\ Len(s) \in Nat
      OBVIOUS
    <3>3. \A i \in 1..Len(s) : i \in 1..(Len(s) + 1) /\ Append(s, line)[i] = s[i]
      OBVIOUS
    <3>4. Len(s) + 1 \in 1..(Len(s) + 1)
      BY <3>2
    <3> QED BY <3>1, <3>2, <3>3, <3>4 DEF ToSet
  <2>5. written[p][n] \in Seq(Nat)
    BY <1>1
  <2> QED BY <1>3, <2>2, <2>3, <2>4, <2>5
<1> QED BY <1>4, <1>5 DEF Write

\* A write, with the opening and the rotation it may do, leaves files sound.
LEMMA WriteKeeps ==
  ASSUME FilesSound, NEW p \in Profiles, NEW n \in Names, NEW line \in Nat,
         NEW size \in 1..MaxLine, Write(p, n, line, size), UNCHANGED writers
  PROVE  FilesSound'
<1> DEFINE f == files[p][n]
           o == IF f.open THEN f ELSE Opened(f)
           g == Appended(o, line, size)
<1>1. Sound(f)
  BY DEF FilesSound
<1>2. Sound(o) /\ o.open
  BY <1>1, OpenedIsSound
<1>3. Grown(g)
  BY <1>2, AppendGrows
<1>4. failures' \in 0..MaxFailures /\ written' \in [Profiles -> [Names -> Seq(Nat)]]
  BY WriteRecords
<1>5. CASE UNCHANGED files
  BY <1>4, <1>5 DEF FilesSound
<1>6. CASE ~Full(g) /\ Store(p, n, g) /\ writers[p].active
  BY <1>3, <1>4, <1>6, NotFullIsSound, StoreKeeps
<1>7. ASSUME Full(g), NEW opens \in BOOLEAN, Store(p, n, Rotated(g, opens)),
             writers[p].active
      PROVE  FilesSound'
  BY <1>3, <1>4, <1>7, RotateKeeps, StoreKeeps
<1> QED BY <1>5, <1>6, <1>7 DEF Write

\* The files of one profile are replaced by what becomes of each.
LEMMA AllKeep ==
  ASSUME FilesSound, NEW p \in Profiles, NEW g, g = [n \in Names |-> g[n]],
         \A n \in Names : Sound(g[n]),
         files' = [files EXCEPT ![p] = g],
         writers' \in [Profiles -> Writers],
         \A q \in Profiles \ {p} : writers[q].active => writers'[q].active,
         \A n \in Names : g[n].open => writers'[p].active,
         UNCHANGED <<failures, written>>
  PROVE  FilesSound'
<1>1. g \in [Names -> Files]
  BY DEF Sound
<1>2. files' \in [Profiles -> [Names -> Files]]
  BY <1>1 DEF FilesSound
<1>3. ASSUME NEW q \in Profiles, NEW n \in Names
      PROVE  Sound(files'[q][n]) /\ (files'[q][n].open => writers'[q].active)
  <2>1. CASE q = p
    BY <2>1 DEF FilesSound
  <2>2. CASE q # p
    BY <2>2 DEF FilesSound
  <2> QED BY <2>1, <2>2
<1> QED BY <1>2, <1>3 DEF FilesSound

\* The flags of a writer change as its flush thread moves on ...
LEMMA WriterFields ==
  ASSUME NEW w \in Writers, NEW a \in {"none", "dozing", "waiting", "woken", "flushing", "gone"}
  PROVE  /\ [w EXCEPT !.flusher = a] \in Writers /\ [w EXCEPT !.flusher = a].active = w.active
  BY DEF Writers

\* ... or is stopped.
LEMMA StoppedFields ==
  ASSUME NEW w \in Writers, NEW a \in {"none", "dozing", "waiting", "woken", "flushing", "gone"}
  PROVE  /\ [w EXCEPT !.running = FALSE, !.flusher = a] \in Writers
         /\ [w EXCEPT !.running = FALSE, !.flusher = a].active = w.active
  BY DEF Writers

\* The periodic flush of an active writer keeps files sound.
LEMMA FlushStep ==
  ASSUME FilesInv, NEW p \in Profiles, FlusherStep(p), UNCHANGED <<current, change>>
  PROVE  FilesInv'
<1>1. writers[p] \in Writers
  BY DEF FilesInv, FilesSound
<1>2. PICK a \in {"none", "dozing", "waiting", "woken", "flushing", "gone"} :
        writers' = [writers EXCEPT ![p] = [writers[p] EXCEPT !.flusher = a]]
  BY DEF FlusherStep, FlusherBlocks, FlusherWakes, FlusherGoes, FlushAll
<1>3. /\ writers' \in [Profiles -> Writers]
      /\ \A q \in Profiles : writers'[q].active = writers[q].active
  <2> DEFINE v == [writers[p] EXCEPT !.flusher = a]
  <2>1. v \in Writers /\ v.active = writers[p].active
    BY <1>1, WriterFields
  <2>2. writers' = [writers EXCEPT ![p] = v]
    BY <1>2
  <2> HIDE DEF v
  <2> QED BY <2>1, <2>2 DEF FilesInv, FilesSound
<1>4. WritersPresent'
  BY <1>3 DEF FilesInv, WritersPresent, Present
<1>5. CASE FlusherBlocks(p) \/ FlusherWakes(p)
  BY <1>3, <1>4, <1>5 DEF FlusherBlocks, FlusherWakes, FlusherGoes, FilesInv, FilesSound
<1>6. CASE FlushAll(p)
  <2> DEFINE g == [n \in Names |-> Flushed(files[p][n])]
  <2>1. \A n \in Names : Sound(g[n])
    BY FlushKeeps DEF FilesInv, FilesSound
  <2>2. ASSUME NEW n \in Names, g[n].open
        PROVE  writers'[p].active
    <3>1. files[p][n].open
      BY <2>2 DEF Flushed
    <3> QED BY <1>3, <3>1 DEF FilesInv, FilesSound
  <2>3. files' = [files EXCEPT ![p] = g] /\ UNCHANGED <<failures, written>>
    BY <1>6 DEF FlushAll
  <2>4. g = [n \in Names |-> g[n]]
    OBVIOUS
  <2> HIDE DEF g
  <2>5. FilesSound'
    BY <1>3, <2>1, <2>2, <2>3, <2>4, AllKeep DEF FilesInv
  <2> QED BY <1>4, <2>5 DEF FilesInv
<1> QED BY <1>5, <1>6 DEF FlusherStep

\* A writer is made of a profile that has none.
LEMMA ConstructKeeps ==
  ASSUME FilesSound, NEW p \in Profiles, ~writers[p].active,
         Construct(p), UNCHANGED <<files, written>>
  PROVE  /\ FilesSound'
         /\ \A q \in Profiles \ {p} : writers'[q] = writers[q]
         /\ failures' = 0 => failures = 0 /\ writers'[p].active
<1>1. PICK w \in Writers :
        /\ writers' = [writers EXCEPT ![p] = w]
        /\ \/ failures' = failures /\ w.active
           \/ failures < MaxFailures /\ failures' = failures + 1
  <2>1. NoWriter \in Writers
    BY DEF NoWriter, Writers
  <2>2. [active |-> TRUE, running |-> TRUE, flusher |-> "dozing"] \in Writers
    BY DEF Writers
  <2> QED BY <2>1, <2>2 DEF Construct, Works, Fails
<1>2. /\ writers' \in [Profiles -> Writers]
      /\ \A q \in Profiles : writers'[q] = IF q = p THEN w ELSE writers[q]
  BY <1>1 DEF FilesSound
<1>3. failures' \in 0..MaxFailures /\ (failures' = 0 => failures = 0 /\ w.active)
  BY <1>1, Sizes DEF FilesSound
<1>4. \A q \in Profiles, n \in Names : files[q][n].open => q # p
  BY DEF FilesSound
<1>5. FilesSound'
  BY <1>2, <1>3, <1>4 DEF FilesSound
<1> QED BY <1>2, <1>3, <1>5

\* The first writer is made before any thread writes.
LEMMA BeginStep == ASSUME FilesInv, Begin PROVE FilesInv'
<1>1. 1 \in Profiles /\ \A p \in Profiles : ~writers[p].active
  BY Sizes DEF FilesInv, WritersPresent, Present, Begin, Profiles
<1>2. FilesSound' /\ \A q \in Profiles \ {1} : writers'[q] = writers[q]
  BY <1>1, ConstructKeeps DEF Begin, FilesInv
<1> QED BY <1>1, <1>2 DEF Begin, FilesInv, WritersPresent, Present

\* A change of profile makes a writer of the next one.
LEMMA MakeStep == ASSUME FilesInv, MakeWriter PROVE FilesInv'
<1>1. NumProfiles > 1 /\ current \in Profiles
  BY DEF MakeWriter, FilesInv, WritersPresent
<1>2. Next(current) \in Profiles /\ ~writers[Next(current)].active
  BY <1>1, NextProfile DEF MakeWriter, FilesInv, WritersPresent, Present
<1>3. FilesSound' /\ \A q \in Profiles \ {Next(current)} : writers'[q] = writers[q]
  BY <1>2, ConstructKeeps DEF MakeWriter, FilesInv
<1> QED BY <1>1, <1>2, <1>3 DEF MakeWriter, FilesInv, WritersPresent, Present

\* Installing it stops the flusher of the old one, which stays active.
LEMMA InstallStep ==
  ASSUME FilesInv, InstallWriter
  PROVE  FilesInv' /\ \A p \in Profiles : writers'[p].active = writers[p].active
<1> DEFINE a == IF writers[current].flusher = "waiting" THEN "woken" ELSE writers[current].flusher
<1>6. writers[current] \in Writers
  BY DEF FilesInv, FilesSound, WritersPresent
<1>7. a \in {"none", "dozing", "waiting", "woken", "flushing", "gone"}
  BY <1>6 DEF Writers
<1>1. /\ NumProfiles > 1 /\ current \in Profiles
      /\ writers' = [writers EXCEPT ![current] =
                        [writers[current] EXCEPT !.running = FALSE, !.flusher = a]]
      /\ UNCHANGED <<files, failures, written>> /\ current' = Next(current)
      /\ change = "made" /\ change' = "joining"
  BY DEF InstallWriter, StopFlusher, FilesInv, WritersPresent
<1> HIDE DEF a
<1>2. /\ writers' \in [Profiles -> Writers]
      /\ \A p \in Profiles : writers'[p].active = writers[p].active
  <2> DEFINE v == [writers[current] EXCEPT !.running = FALSE, !.flusher = a]
  <2>1. v \in Writers /\ v.active = writers[current].active
    BY <1>6, <1>7, StoppedFields
  <2>2. writers' = [writers EXCEPT ![current] = v]
    BY <1>1
  <2> HIDE DEF v
  <2> QED BY <2>1, <2>2 DEF FilesInv, FilesSound
<1>3. FilesSound'
  BY <1>1, <1>2 DEF FilesInv, FilesSound
<1>4. Next(current) \in Profiles /\ Previous(Next(current)) = current
  BY <1>1, NextProfile
<1>5. Present' = Present
  BY <1>1, <1>4 DEF Present
<1> QED BY <1>1, <1>2, <1>3, <1>4, <1>5 DEF FilesInv, WritersPresent

\* Destroying the old one closes its files and no other.
LEMMA DestroyStep ==
  ASSUME FilesInv, DestroyWriter
  PROVE  FilesInv' /\ writers'[current] = writers[current]
<1> DEFINE p == Previous(current)
<1>1. /\ current \in Profiles /\ p \in Profiles /\ p # current
      /\ change = "joining" /\ change' = "idle"
      /\ UNCHANGED <<failures, written, current>>
  BY NextProfile DEF DestroyWriter, FilesInv, WritersPresent
<1> DEFINE g == [n \in Names |-> Closed(files[p][n])]
<1>2. /\ files' = [files EXCEPT ![p] = g]
      /\ writers' = [writers EXCEPT ![p] = NoWriter]
  BY DEF DestroyWriter, Close
<1> HIDE DEF p
<1>3. /\ writers' \in [Profiles -> Writers]
      /\ \A q \in Profiles : writers'[q] = IF q = p THEN NoWriter ELSE writers[q]
  BY <1>1, <1>2 DEF FilesInv, FilesSound, NoWriter, Writers
<1>4. /\ \A n \in Names : Sound(g[n]) /\ ~g[n].open
      /\ g = [n \in Names |-> g[n]]
  BY <1>1, CloseKeeps DEF FilesInv, FilesSound
<1> HIDE DEF g
<1>5. FilesSound'
  BY <1>1, <1>2, <1>3, <1>4, AllKeep DEF FilesInv
<1>6. \A q \in Profiles : writers'[q].active => q = current
  BY <1>1, <1>3 DEF FilesInv, WritersPresent, Present, NoWriter, p
<1> QED BY <1>1, <1>3, <1>5, <1>6 DEF FilesInv, WritersPresent, Present

\* Nothing is open at first.
LEMMA InitFiles == LInit => FilesInv
<1> SUFFICES ASSUME LInit PROVE FilesInv
  OBVIOUS
<1>1. NoFile \in Files /\ ~NoFile.open /\ NoWriter \in Writers /\ ~NoWriter.active
  BY DEF NoFile, Files, NoWriter, Writers
<1>2. FilesSound
  BY <1>1, NoFileIsSound, Sizes DEF LInit, WriterInit, FilesSound
<1> QED BY <1>1, <1>2, Sizes DEF LInit, WriterInit, FilesInv, WritersPresent, Present, Profiles

-----------------------------------------------------------------------------
\* The lines that are handed over, and those that are shown.

ThreadsTyped == said \in [Names -> Nat] /\ AggregatorTypeOK

\* A line that is handed over is the last of its name, and its name's only one:
\* the reader of a process holds the mutex meanwhile.
HandedIsLast ==
    \A t \in Threads : handing[t] # << >> =>
        /\ handing[t][1].name = NameOf(t)
        /\ handing[t][1].number = said[NameOf(t)]
        /\ t \in Streams => pm = t
        /\ \A i \in DOMAIN entries :
             entries[i].name = NameOf(t) => entries[i].number < said[NameOf(t)]

ShownWasSaid == \A i \in DOMAIN entries : entries[i].number <= said[entries[i].name]

\* The lines of one name are shown in the order of their numbers ...
ShownRise ==
    \A i, j \in DOMAIN entries :
        i < j /\ entries[i].name = entries[j].name => entries[i].number < entries[j].number

\* ... and written in that order.
Rises(w, top) ==
    /\ \A a \in 1..Len(w) : w[a] <= top
    /\ \A a, b \in 1..Len(w) : a < b => w[a] < w[b]

FilesRise == \A p \in Profiles, n \in Names : Rises(written[p][n], said[n])

OrderInv == HandedIsLast /\ ShownWasSaid /\ ShownRise /\ FilesRise

\* A line is in some file from the moment it is handed over.
Filed(lines, e) == \E p \in Profiles : e.number \in ToSet(lines[p][e.name])

LoggedInv ==
    failures = 0 =>
        /\ change # "starting" => writers[current].active
        /\ change = "made" => writers[Next(current)].active
        /\ \A t \in Threads : handing[t] # << >> => Filed(written, handing[t][1])
        /\ \A i \in DOMAIN entries : Filed(written, entries[i])

LogInv == FilesInv /\ ThreadsTyped /\ OrderInv /\ LoggedInv

\* Every thread writes under a name, and readers not under that of rosout.
LEMMA Named == \A t \in Threads : NameOf(t) \in Names /\ (t \in Streams => NameOf(t) # Rosout)
  BY AggregatorAssumption DEF Threads, NameOf

\* Two threads never hand over lines of one name.
LEMMA OneOfAName ==
  ASSUME HandedIsLast, NEW t \in Threads, NEW u \in Threads,
         handing[u] # << >>, NameOf(t) = NameOf(u),
         handing[t] # << >> \/ t = Rosout \/ pm = NoThread
  PROVE  t = u
<1>1. CASE t = Rosout
  BY <1>1, Named DEF Threads, NameOf
<1>2. CASE t \in Streams
  <2>1. u \in Streams
    BY <1>2, Named DEF Threads, NameOf
  <2>2. pm = u
    BY <2>1 DEF HandedIsLast
  <2> QED BY <1>2, <2>1, <2>2, AggregatorAssumption DEF HandedIsLast
<1> QED BY <1>1, <1>2 DEF Threads

\* The latest entries are the end of all.
LEMMA LatestIsSuffix ==
  ASSUME NEW s \in Seq(Entries)
  PROVE  /\ Latest(s) \in Seq(Entries) /\ Len(Latest(s)) <= MaxEntries
         /\ \E k \in Nat : \A i \in DOMAIN Latest(s) :
              i + k \in DOMAIN s /\ Latest(s)[i] = s[i + k]
<1> DEFINE m == IF Len(s) > MaxEntries THEN Len(s) - MaxEntries + 1 ELSE 1
           r == SubSeq(s, m, Len(s))
<1>1. MaxEntries \in Nat /\ Len(s) \in Nat /\ DOMAIN s = 1..Len(s)
  BY AggregatorAssumption
<1>2. m \in 1..(Len(s) + 1) /\ Len(s) - m + 1 <= MaxEntries
  BY <1>1
<1> HIDE DEF m
<1>3. /\ r \in Seq(Entries) /\ Len(r) = Len(s) - m + 1 /\ DOMAIN r = 1..(Len(s) - m + 1)
      /\ \A i \in 1..(Len(s) - m + 1) : r[i] = s[m + i - 1]
  BY <1>1, <1>2
<1> HIDE DEF r
<1>4. \A i \in DOMAIN r : i + (m - 1) \in DOMAIN s /\ r[i] = s[i + (m - 1)]
  <2> TAKE i \in DOMAIN r
  <2>1. i \in 1..(Len(s) - m + 1)
    BY <1>3
  <2>2. i + (m - 1) = m + i - 1 /\ i + (m - 1) \in 1..Len(s)
    BY <1>1, <1>2, <2>1
  <2>3. r[i] = s[m + i - 1]
    BY <1>3, <2>1
  <2> QED BY <1>1, <2>2, <2>3
<1>5. m - 1 \in Nat
  BY <1>1, <1>2
<1>6. Latest(s) = r
  BY DEF Latest, m, r
<1> QED BY <1>2, <1>3, <1>4, <1>5, <1>6

\* Every entry after a push was there before it or is the line handed over.
LEMMA PushedEntries ==
  ASSUME ThreadsTyped, NEW t \in Threads, Push(t)
  PROVE  /\ entries' \in Seq(Entries) /\ Len(entries') <= MaxEntries
         /\ \E k \in Nat : \A i \in DOMAIN entries' :
              \/ i + k \in DOMAIN entries /\ entries'[i] = entries[i + k]
              \/ i + k = Len(entries) + 1 /\ entries'[i] = handing[t][1]
<1>1. /\ entries \in Seq(Entries) /\ handing[t] \in Seq(Entries)
      /\ Len(handing[t]) <= 1 /\ handing[t] # << >>
  BY DEF ThreadsTyped, AggregatorTypeOK, Push
<1> DEFINE h == handing[t]
           all == entries \o h
<1>2. h \in Seq(Entries) /\ Len(h) = 1 /\ Len(entries) \in Nat
  BY <1>1, Single
<1>3. /\ all \in Seq(Entries) /\ Len(all) = Len(entries) + Len(h)
      /\ \A i \in 1..(Len(entries) + Len(h)) :
           all[i] = IF i <= Len(entries) THEN entries[i] ELSE h[i - Len(entries)]
  BY <1>1, <1>2, Concatenation, Zenon
<1>4. entries' = Latest(all)
  BY DEF Push
<1> HIDE DEF h, all
<1>5. DOMAIN all = 1..(Len(entries) + 1) /\ DOMAIN entries = 1..Len(entries)
  BY <1>1, <1>2, <1>3
<1>6. \A i \in DOMAIN all :
        \/ i \in DOMAIN entries /\ all[i] = entries[i]
        \/ i = Len(entries) + 1 /\ all[i] = h[1]
  <2> TAKE i \in DOMAIN all
  <2>1. all[i] = IF i <= Len(entries) THEN entries[i] ELSE h[i - Len(entries)]
    BY <1>2, <1>3, <1>5
  <2>2. \/ i \in 1..Len(entries) /\ i <= Len(entries)
        \/ i = Len(entries) + 1 /\ ~(i <= Len(entries)) /\ i - Len(entries) = 1
    BY <1>2, <1>5
  <2>3. CASE i \in 1..Len(entries) /\ i <= Len(entries)
    <3>1. all[i] = entries[i]
      BY <2>1, <2>3
    <3>2. i \in DOMAIN entries
      BY <1>5, <2>3
    <3> QED BY <3>1, <3>2
  <2>4. CASE i = Len(entries) + 1 /\ ~(i <= Len(entries)) /\ i - Len(entries) = 1
    BY <2>1, <2>4
  <2> QED BY <2>2, <2>3, <2>4
<1>7. PICK k \in Nat : \A i \in DOMAIN entries' :
        i + k \in DOMAIN all /\ entries'[i] = all[i + k]
  BY <1>3, <1>4, LatestIsSuffix
<1>8. \A i \in DOMAIN entries' :
        \/ i + k \in DOMAIN entries /\ entries'[i] = entries[i + k]
        \/ i + k = Len(entries) + 1 /\ entries'[i] = h[1]
  BY <1>6, <1>7
<1>9. entries' \in Seq(Entries) /\ Len(entries') <= MaxEntries
  BY <1>3, <1>4, LatestIsSuffix
<1> QED BY <1>8, <1>9 DEF h

\* What rises goes on rising below a higher top, ...
LEMMA HigherTop ==
  ASSUME NEW w \in Seq(Nat), NEW s \in Nat, NEW t \in Nat, s <= t, Rises(w, s)
  PROVE  Rises(w, t)
<1>1. \A a \in 1..Len(w) : w[a] \in Nat
  OBVIOUS
<1> QED BY <1>1 DEF Rises

\* ... and with a last value that is above the old one.
LEMMA RisesOn ==
  ASSUME NEW w \in Seq(Nat), NEW s \in Nat, NEW x \in Nat, s < x, Rises(w, s)
  PROVE  Rises(Append(w, x), x)
<1> DEFINE v == Append(w, x)
<1>1. /\ Len(w) \in Nat /\ Len(v) = Len(w) + 1 /\ v[Len(w) + 1] = x
      /\ \A k \in 1..Len(w) : v[k] = w[k]
  BY Appending
<1> HIDE DEF v
<1>2. \A a \in 1..Len(w) : v[a] \in Nat /\ v[a] <= s
  BY <1>1 DEF Rises
<1>3. \A a \in 1..Len(v) : a \in 1..Len(w) \/ a = Len(w) + 1
  BY <1>1
<1>4. \A a \in 1..Len(v) : v[a] <= x
  BY <1>1, <1>2, <1>3
<1>5. ASSUME NEW a \in 1..Len(v), NEW b \in 1..Len(v), a < b PROVE v[a] < v[b]
  <2>1. a \in 1..Len(w)
    BY <1>1, <1>5
  <2>2. CASE b \in 1..Len(w)
    BY <1>1, <1>5, <2>1, <2>2 DEF Rises
  <2>3. CASE b = Len(w) + 1
    BY <1>1, <1>2, <2>1, <2>3
  <2> QED BY <1>3, <2>2, <2>3
<1>6. Rises(v, x)
  BY <1>4, <1>5 DEF Rises
<1> QED BY <1>6 DEF v

\* A thread that persists a line leaves files and entries in order.
LEMMA PersistStep ==
  ASSUME LogInv, NEW t \in Threads, Persist(t)
  PROVE  LogInv'
<1> DEFINE n == NameOf(t)
           number == said[n] + 1
<1>1. /\ n \in Names /\ current \in Profiles /\ said \in [Names -> Nat] /\ number \in Nat \ {0}
      /\ [said EXCEPT ![n] = number] \in Lines
  BY Named DEF LogInv, FilesInv, WritersPresent, ThreadsTyped, Persist
<1>2. PICK s \in SourcesOf[n] :
        handing' = [handing EXCEPT ![t] = <<[name |-> n, number |-> number, source |-> s]>>]
  BY DEF Persist
<1>20. PICK size \in 1..MaxLine : Write(current, n, number, size)
  BY DEF Persist
<1>3. /\ said' = [said EXCEPT ![n] = number]
      /\ handing[t] = << >> /\ change # "starting"
      /\ UNCHANGED <<writers, entries, sources, generation, current, wmutex, change, changes>>
      /\ Hold(t)
  BY DEF Persist
<1> DEFINE e == [name |-> n, number |-> number, source |-> s]
<1>4. e \in Entries /\ e.name = n /\ e.number = number
  BY <1>1, <1>2 DEF Entries, Sources
<1>5. /\ handing \in [Threads -> Seq(Entries)]
      /\ \A u \in Threads : handing'[u] = IF u = t THEN <<e>> ELSE handing[u]
      /\ handing' \in [Threads -> Seq(Entries)]
  BY <1>2, <1>4 DEF LogInv, ThreadsTyped, AggregatorTypeOK
<1>6. <<e>>[1] = e /\ Len(<<e>>) = 1 /\ Len(<<e>>) <= 1
  OBVIOUS
<1> HIDE DEF n, number, e
<1>7. /\ said' \in [Names -> Nat]
      /\ \A m \in Names : said'[m] = IF m = n THEN number ELSE said[m]
      /\ number > said[n]
  BY <1>1, <1>3 DEF number
<1>8. FilesInv'
  BY <1>1, <1>3, <1>20, WriteKeeps DEF LogInv, FilesInv, WritersPresent, Present
<1>9. ThreadsTyped'
  <2>1. pm' \in Streams \union {NoThread}
    BY <1>3 DEF Hold, Threads, LogInv, ThreadsTyped, AggregatorTypeOK
  <2>2. \A u \in Threads : Len(handing'[u]) <= 1
    BY <1>5, <1>6 DEF LogInv, ThreadsTyped, AggregatorTypeOK
  <2>3. said' \in Lines
    BY <1>1, <1>3
  <2> QED BY <1>3, <1>5, <1>7, <2>1, <2>2, <2>3 DEF LogInv, ThreadsTyped, AggregatorTypeOK
<1>10. \A i \in DOMAIN entries : entries[i] \in Entries
  BY DEF LogInv, ThreadsTyped, AggregatorTypeOK
<1>11. \A i \in DOMAIN entries : entries[i].name \in Names /\ entries[i].number \in Nat
  BY <1>10 DEF Entries
<1>12. OrderInv'
  <2>1. ShownWasSaid'
    BY <1>1, <1>3, <1>7, <1>11 DEF LogInv, OrderInv, ShownWasSaid
  <2>2. ShownRise'
    BY <1>3 DEF LogInv, OrderInv, ShownRise
  <2>4. FilesRise'
    <3> SUFFICES ASSUME NEW q \in Profiles, NEW m \in Names
                 PROVE  Rises(written'[q][m], said'[m])
      BY DEF FilesRise
    <3>1. Rises(written[q][m], said[m]) /\ written[q][m] \in Seq(Nat)
      BY DEF LogInv, OrderInv, FilesRise, FilesInv, FilesSound
    <3>2. said[m] \in Nat /\ said'[m] \in Nat /\ said[m] <= said'[m]
      BY <1>1, <1>7
    <3>3. CASE written'[q][m] = written[q][m]
      BY <3>1, <3>2, <3>3, HigherTop, Zenon
    <3>4. CASE m = n /\ written'[q][m] = Append(written[q][m], number)
      BY <1>1, <1>7, <3>1, <3>2, <3>4, RisesOn
    <3>5. \/ written'[q][m] = written[q][m]
          \/ q = current /\ m = n /\ written'[q][m] = Append(written[q][m], number)
      BY <1>1, <1>20, WriteRecords DEF LogInv, FilesInv
    <3> QED BY <3>3, <3>4, <3>5
  <2>3. HandedIsLast'
    <3> SUFFICES ASSUME NEW u \in Threads, handing'[u] # << >>
                 PROVE  /\ handing'[u][1].name = NameOf(u)
                        /\ handing'[u][1].number = said'[NameOf(u)]
                        /\ u \in Streams => pm' = u
                        /\ \A i \in DOMAIN entries : entries[i].name = NameOf(u) =>
                             entries[i].number < said'[NameOf(u)]
      BY <1>3 DEF HandedIsLast
    <3>1. CASE u = t
      <4>1. handing'[u][1] = e /\ NameOf(u) = n /\ said'[n] = number
        BY <1>1, <1>5, <1>6, <1>7, <3>1 DEF n
      <4>2. u \in Streams => pm' = u
        BY <1>3, <3>1, AggregatorAssumption DEF Hold
      <4>3. \A i \in DOMAIN entries : entries[i].name = n => entries[i].number < number
        BY <1>1, <1>7, <1>11 DEF LogInv, OrderInv, ShownWasSaid
      <4> QED BY <1>4, <4>1, <4>2, <4>3
    <3>2. CASE u # t
      <4>1. handing[u] # << >> /\ handing'[u] = handing[u]
        BY <1>5, <3>2
      <4>2. t = Rosout \/ pm = NoThread
        BY <1>3 DEF Hold
      <4>3. NameOf(u) # n
        BY <3>2, <4>1, <4>2, OneOfAName DEF LogInv, OrderInv, n
      <4>4. said'[NameOf(u)] = said[NameOf(u)]
        BY <1>7, <4>3, Named
      <4>5. u \in Streams => pm' = u
        BY <1>3, <4>1, <4>2, AggregatorAssumption DEF Hold, LogInv, OrderInv, HandedIsLast
      <4> QED BY <4>1, <4>4, <4>5 DEF LogInv, OrderInv, HandedIsLast
    <3> QED BY <3>1, <3>2
  <2> QED BY <2>1, <2>2, <2>3, <2>4 DEF OrderInv
<1>13. LoggedInv'
  <2> SUFFICES ASSUME failures' = 0 PROVE LoggedInv'
    BY DEF LoggedInv
  <2>1. /\ failures = 0
        /\ \A q \in Profiles, m \in Names : ToSet(written[q][m]) \subseteq ToSet(written'[q][m])
        /\ writers[current].active => number \in ToSet(written'[current][n])
    BY <1>1, <1>3, <1>20, WriteRecords DEF LogInv, FilesInv
  <2>2. /\ change # "starting" => writers'[current'].active
        /\ change' = "made" => writers'[Next(current')].active
    BY <1>3, <2>1 DEF LogInv, LoggedInv
  <2>3. ASSUME NEW x \in Entries, Filed(written, x)
        PROVE  Filed(written', x)
    BY <2>1, <2>3 DEF Filed, Entries
  <2>4. Filed(written', e)
    BY <1>1, <1>3, <1>4, <2>1 DEF Filed, LogInv, LoggedInv
  <2>5. ASSUME NEW u \in Threads, handing'[u] # << >>
        PROVE  Filed(written', handing'[u][1])
    <3>1. CASE u = t
      <4>1. handing'[u][1] = e
        BY <1>5, <1>6, <3>1
      <4> QED BY <2>4, <4>1
    <3>2. CASE u # t
      <4>1. handing'[u] = handing[u] /\ handing[u] \in Seq(Entries)
        BY <1>5, <3>2
      <4>2. handing[u][1] \in Entries
        BY <2>5, <4>1, FirstOf
      <4>3. Filed(written, handing[u][1])
        BY <2>1, <2>5, <4>1 DEF LogInv, LoggedInv
      <4> QED BY <2>3, <4>1, <4>2, <4>3
    <3> QED BY <3>1, <3>2
  <2>6. \A i \in DOMAIN entries' : Filed(written', entries'[i])
    <3>1. \A i \in DOMAIN entries : Filed(written, entries[i])
      BY <2>1 DEF LogInv, LoggedInv
    <3> QED BY <1>3, <1>10, <2>3, <3>1
  <2> QED BY <1>3, <2>2, <2>5, <2>6 DEF LoggedInv
<1> QED BY <1>8, <1>9, <1>12, <1>13 DEF LogInv

\* One that pushes a line shows it after all others of its name.
LEMMA PushStep ==
  ASSUME LogInv, NEW t \in Threads, Push(t)
  PROVE  LogInv'
<1>1. /\ handing[t] # << >> /\ handing' = [handing EXCEPT ![t] = << >>]
      /\ UNCHANGED <<writerVars, said, current, wmutex, change, changes>>
      /\ pm' = IF pm = t THEN NoThread ELSE pm
      /\ sources' = sources \union {handing[t][1].source} /\ generation' = generation + 1
  BY DEF Push, Release
<1>2. /\ handing \in [Threads -> Seq(Entries)] /\ entries \in Seq(Entries)
      /\ \A u \in Threads : Len(handing[u]) <= 1
  BY DEF LogInv, ThreadsTyped, AggregatorTypeOK
<1> DEFINE e == handing[t][1]
           n == NameOf(t)
<1>3. e \in Entries /\ n \in Names /\ e.name = n /\ e.number = said[n]
  BY <1>1, <1>2, FirstOf, Named DEF LogInv, OrderInv, HandedIsLast
<1>4. \A i \in DOMAIN entries :
        /\ entries[i] \in Entries /\ entries[i].name \in Names /\ entries[i].number \in Nat
        /\ i \in Nat /\ i <= Len(entries)
  <2> TAKE i \in DOMAIN entries
  <2>1. entries[i] \in Entries /\ i \in Nat /\ i <= Len(entries)
    BY <1>2
  <2> QED BY <2>1 DEF Entries
<1>5. PICK k \in Nat : \A i \in DOMAIN entries' :
        \/ i + k \in DOMAIN entries /\ entries'[i] = entries[i + k]
        \/ i + k = Len(entries) + 1 /\ entries'[i] = e
  BY PushedEntries DEF LogInv
<1>6. entries' \in Seq(Entries) /\ Len(entries') <= MaxEntries
  BY PushedEntries DEF LogInv
<1>7. /\ \A u \in Threads : handing'[u] = IF u = t THEN << >> ELSE handing[u]
      /\ handing' \in [Threads -> Seq(Entries)]
      /\ \A u \in Threads : Len(handing'[u]) <= 1
  <2>1. << >> \in Seq(Entries) /\ Len(<< >>) <= 1
    OBVIOUS
  <2> QED BY <1>1, <1>2, <2>1
<1> HIDE DEF e, n
<1>8. FilesInv'
  BY <1>1, FilesUnchanged DEF LogInv
<1>9. ThreadsTyped'
  <2>1. pm' \in Streams \union {NoThread} /\ generation' \in Nat
    BY <1>1 DEF LogInv, ThreadsTyped, AggregatorTypeOK
  <2>2. sources' \subseteq Sources
    BY <1>1, <1>3 DEF e, Entries, LogInv, ThreadsTyped, AggregatorTypeOK
  <2> QED BY <1>1, <1>6, <1>7, <2>1, <2>2 DEF LogInv, ThreadsTyped, AggregatorTypeOK
<1>10. \A i \in DOMAIN entries' : i \in Nat /\ entries'[i] \in Entries
  BY <1>6
<1>11. said \in [Names -> Nat]
  BY DEF LogInv, ThreadsTyped
<1>12. ShownWasSaid'
  <2> SUFFICES ASSUME NEW i \in DOMAIN entries'
               PROVE  entries'[i].number <= said[entries'[i].name]
    BY <1>1 DEF ShownWasSaid
  <2>1. CASE i + k \in DOMAIN entries /\ entries'[i] = entries[i + k]
    BY <2>1 DEF LogInv, OrderInv, ShownWasSaid
  <2>2. CASE entries'[i] = e
    BY <1>3, <1>11, <2>2
  <2> QED BY <1>5, <2>1, <2>2
<1>13. \A i \in DOMAIN entries : entries[i].name = n => entries[i].number < said[n]
  BY <1>1 DEF LogInv, OrderInv, HandedIsLast, n
<1>14. ShownRise'
  <2> SUFFICES ASSUME NEW i \in DOMAIN entries', NEW j \in DOMAIN entries', i < j,
                      entries'[i].name = entries'[j].name
               PROVE  entries'[i].number < entries'[j].number
    BY DEF ShownRise
  <2>1. i + k < j + k
    BY <1>10
  <2>2. CASE i + k \in DOMAIN entries /\ entries'[i] = entries[i + k]
    <3>1. CASE j + k \in DOMAIN entries /\ entries'[j] = entries[j + k]
      BY <2>1, <2>2, <3>1 DEF LogInv, OrderInv, ShownRise
    <3>2. CASE entries'[j] = e
      BY <1>3, <1>13, <2>2, <3>2
    <3> QED BY <1>5, <3>1, <3>2
  <2>3. CASE i + k = Len(entries) + 1
    <3>1. j + k \in Nat /\ Len(entries) \in Nat
      BY <1>2, <1>10
    <3>2. j + k \notin DOMAIN entries /\ j + k # Len(entries) + 1
      BY <1>4, <2>1, <2>3, <3>1
    <3> QED BY <1>5, <3>2
  <2> QED BY <1>5, <2>2, <2>3
<1>15. HandedIsLast'
  <2> SUFFICES ASSUME NEW u \in Threads, handing'[u] # << >>
               PROVE  /\ handing'[u][1].name = NameOf(u)
                      /\ handing'[u][1].number = said[NameOf(u)]
                      /\ u \in Streams => pm' = u
                      /\ \A i \in DOMAIN entries' : entries'[i].name = NameOf(u) =>
                           entries'[i].number < said[NameOf(u)]
    BY <1>1 DEF HandedIsLast
  <2>1. u # t /\ handing'[u] = handing[u] /\ handing[u] # << >>
    BY <1>7
  <2>2. NameOf(u) # n
    BY <1>1, <2>1, OneOfAName DEF LogInv, OrderInv, n
  <2>3. u \in Streams => pm' = u
    BY <1>1, <2>1 DEF LogInv, OrderInv, HandedIsLast
  <2>4. ASSUME NEW i \in DOMAIN entries', entries'[i].name = NameOf(u)
        PROVE  entries'[i].number < said[NameOf(u)]
    <3>1. entries'[i] # e
      BY <1>3, <2>2, <2>4
    <3> QED BY <1>5, <2>1, <2>4, <3>1 DEF LogInv, OrderInv, HandedIsLast
  <2> QED BY <2>1, <2>3, <2>4 DEF LogInv, OrderInv, HandedIsLast
<1>16. LoggedInv'
  <2> SUFFICES ASSUME failures' = 0 PROVE LoggedInv'
    BY DEF LoggedInv
  <2>1. failures = 0 /\ UNCHANGED <<written, writers>>
    BY <1>1 DEF writerVars
  <2>2. ASSUME NEW u \in Threads, handing'[u] # << >>
        PROVE  Filed(written, handing'[u][1])
    BY <1>7, <2>1, <2>2 DEF LogInv, LoggedInv
  <2>3. Filed(written, e)
    BY <1>1, <2>1 DEF LogInv, LoggedInv, e
  <2>4. ASSUME NEW i \in DOMAIN entries'
        PROVE  Filed(written, entries'[i])
    <3>1. CASE i + k \in DOMAIN entries /\ entries'[i] = entries[i + k]
      BY <2>1, <3>1 DEF LogInv, LoggedInv
    <3>2. CASE entries'[i] = e
      BY <2>3, <3>2
    <3> QED BY <1>5, <3>1, <3>2
  <2>5. /\ change # "starting" => writers[current].active
        /\ change = "made" => writers[Next(current)].active
    BY <2>1 DEF LogInv, LoggedInv
  <2> QED BY <1>1, <2>1, <2>2, <2>4, <2>5 DEF LoggedInv
<1>17. FilesRise'
  BY <1>1 DEF LogInv, OrderInv, FilesRise, writerVars
<1> QED BY <1>8, <1>9, <1>12, <1>14, <1>15, <1>16, <1>17 DEF LogInv, OrderInv

\* Clearing shows nothing.
LEMMA ClearStep == ASSUME LogInv, Clear PROVE LogInv'
<1>1. /\ UNCHANGED <<writerVars, said, handing, pm, current, wmutex, change>>
      /\ entries' = << >> /\ sources' = {} /\ generation' = generation + 1
      /\ changes < MaxChanges /\ changes' = changes + 1
  BY DEF Clear
<1>2. << >> \in Seq(Entries) /\ Len(<< >>) = 0 /\ DOMAIN << >> = {}
  OBVIOUS
<1>3. FilesInv'
  BY <1>1, FilesUnchanged DEF LogInv
<1>4. ThreadsTyped'
  <2>1. changes' \in 0..MaxChanges /\ generation' \in Nat /\ 0 <= MaxEntries
    BY <1>1, AggregatorAssumption DEF LogInv, ThreadsTyped, AggregatorTypeOK
  <2> QED BY <1>1, <1>2, <2>1 DEF LogInv, ThreadsTyped, AggregatorTypeOK
<1>5. OrderInv'
  BY <1>1, <1>2 DEF LogInv, OrderInv, HandedIsLast, ShownWasSaid, ShownRise, FilesRise, writerVars
<1>6. LoggedInv'
  BY <1>1, <1>2 DEF LogInv, LoggedInv, writerVars
<1> QED BY <1>3, <1>4, <1>5, <1>6 DEF LogInv

\* A step of the change of profile or of a flush thread leaves the lines alone.
LEMMA LinesAlone ==
  ASSUME LogInv, UNCHANGED <<written, said, handing, pm, entries, sources, generation>>,
         current' \in Profiles, wmutex' \in BOOLEAN,
         change' \in {"starting", "idle", "made", "joining"}, changes' \in 0..MaxChanges
  PROVE  /\ ThreadsTyped' /\ OrderInv'
         /\ failures = 0 =>
              /\ \A t \in Threads : handing'[t] # << >> => Filed(written', handing'[t][1])
              /\ \A i \in DOMAIN entries' : Filed(written', entries'[i])
<1>1. ThreadsTyped'
  BY DEF LogInv, ThreadsTyped, AggregatorTypeOK
<1>2. OrderInv'
  BY DEF LogInv, OrderInv, HandedIsLast, ShownWasSaid, ShownRise, FilesRise
<1> QED BY <1>1, <1>2 DEF LogInv, LoggedInv

\* What the invariant says of a change of profile.
LEMMA ChangeTypes ==
  LogInv => /\ current \in Profiles /\ wmutex \in BOOLEAN /\ changes \in 0..MaxChanges
            /\ change \in {"starting", "idle", "made", "joining"}
            /\ failures \in Nat
            /\ change \in {"made", "joining"} => NumProfiles > 1
            /\ change = "starting" => current = 1
  BY DEF LogInv, ThreadsTyped, AggregatorTypeOK, FilesInv, FilesSound, WritersPresent

\* No step of a change of profile disturbs lines or entries.
LEMMA ChangeSteps ==
  ASSUME LogInv, Begin \/ ChangeStep
  PROVE  LogInv'
<1>1. CASE Begin
  <2>1. FilesInv'
    BY <1>1, BeginStep DEF LogInv
  <2>2. 1 \in Profiles /\ current = 1 /\ ~writers[1].active /\ FilesSound
    BY <1>1, Sizes DEF Begin, LogInv, FilesInv, WritersPresent, Present, Profiles
  <2>3. failures' = 0 => failures = 0 /\ writers'[1].active
    BY <1>1, <2>2, ConstructKeeps DEF Begin
  <2>4. LoggedInv' /\ ThreadsTyped' /\ OrderInv'
    BY <1>1, <2>2, <2>3, LinesAlone, ChangeTypes DEF Begin, LoggedInv
  <2> QED BY <2>1, <2>4 DEF LogInv
<1>2. CASE MakeWriter
  <2>1. FilesInv'
    BY <1>2, MakeStep DEF LogInv
  <2>2. /\ NumProfiles > 1 /\ current \in Profiles /\ current' = current
        /\ change = "idle" /\ change' = "made" /\ changes' \in 0..MaxChanges
        /\ UNCHANGED <<files, written, said, handing, pm, entries, sources, generation, wmutex>>
    BY <1>2, ChangeTypes, AggregatorAssumption DEF MakeWriter
  <2>3. Next(current) \in Profiles /\ Next(current) # current
    BY <2>2, NextProfile
  <2>4. ~writers[Next(current)].active /\ FilesSound
    BY <2>2, <2>3 DEF LogInv, FilesInv, WritersPresent, Present
  <2>5. /\ failures' = 0 => failures = 0 /\ writers'[Next(current)].active
        /\ writers'[current] = writers[current]
    BY <1>2, <2>2, <2>3, <2>4, ConstructKeeps DEF MakeWriter
  <2>6. ThreadsTyped' /\ OrderInv'
    BY <2>2, LinesAlone, ChangeTypes
  <2>7. LoggedInv'
    BY <2>2, <2>5, LinesAlone, ChangeTypes DEF LogInv, LoggedInv
  <2> QED BY <2>1, <2>6, <2>7 DEF LogInv
<1>3. CASE InstallWriter
  <2>1. FilesInv' /\ \A p \in Profiles : writers'[p].active = writers[p].active
    BY <1>3, InstallStep DEF LogInv
  <2>2. /\ change = "made" /\ change' = "joining" /\ current' = Next(current) /\ wmutex' = TRUE
        /\ UNCHANGED <<failures, written, said, handing, pm, entries, sources, generation, changes>>
    BY <1>3 DEF InstallWriter
  <2>3. Next(current) \in Profiles
    BY <2>2, NextProfile, ChangeTypes
  <2>4. ThreadsTyped' /\ OrderInv'
    BY <2>2, <2>3, LinesAlone, ChangeTypes
  <2>5. LoggedInv'
    BY <2>1, <2>2, <2>3, LinesAlone, ChangeTypes DEF LogInv, LoggedInv
  <2> QED BY <2>1, <2>4, <2>5 DEF LogInv
<1>4. CASE DestroyWriter
  <2>1. FilesInv' /\ writers'[current] = writers[current]
    BY <1>4, DestroyStep DEF LogInv
  <2>2. /\ change = "joining" /\ change' = "idle" /\ wmutex' = FALSE
        /\ UNCHANGED <<failures, written, said, handing, pm, entries, sources, generation,
                       current, changes>>
    BY <1>4 DEF DestroyWriter
  <2>3. ThreadsTyped' /\ OrderInv'
    BY <2>2, LinesAlone, ChangeTypes
  <2>4. LoggedInv'
    BY <2>1, <2>2, LinesAlone, ChangeTypes DEF LogInv, LoggedInv
  <2> QED BY <2>1, <2>3, <2>4 DEF LogInv
<1> QED BY <1>1, <1>2, <1>3, <1>4 DEF ChangeStep

\* Nor does a step of a flusher.
LEMMA FlusherSteps ==
  ASSUME LogInv, NEW p \in Profiles, FlusherStep(p), UNCHANGED aggregatorVars
  PROVE  LogInv'
<1>1. UNCHANGED <<said, handing, pm, entries, sources, generation, current, wmutex,
                  change, changes>>
  BY DEF aggregatorVars
<1>2. FilesInv'
  BY <1>1, FlushStep DEF LogInv
<1>3. UNCHANGED <<failures, written>>
  BY DEF FlusherStep, FlusherBlocks, FlusherWakes, FlusherGoes, FlushAll
<1>4. writers[p] \in Writers /\ writers \in [Profiles -> Writers]
  BY DEF LogInv, FilesInv, FilesSound
<1>5. PICK a \in {"none", "dozing", "waiting", "woken", "flushing", "gone"} :
        writers' = [writers EXCEPT ![p] = [writers[p] EXCEPT !.flusher = a]]
  BY DEF FlusherStep, FlusherBlocks, FlusherWakes, FlusherGoes, FlushAll
<1>6. \A q \in Profiles : writers'[q].active = writers[q].active
  <2> DEFINE v == [writers[p] EXCEPT !.flusher = a]
  <2>1. v.active = writers[p].active
    BY <1>4, WriterFields
  <2>2. writers' = [writers EXCEPT ![p] = v]
    BY <1>5
  <2> HIDE DEF v
  <2> QED BY <1>4, <2>1, <2>2
<1>7. ThreadsTyped' /\ OrderInv'
  BY <1>1, <1>3, LinesAlone, ChangeTypes
<1>8. change = "made" => Next(current) \in Profiles
  BY NextProfile, ChangeTypes
<1>9. LoggedInv'
  BY <1>1, <1>3, <1>6, <1>8, LinesAlone, ChangeTypes DEF LogInv, LoggedInv
<1> QED BY <1>2, <1>7, <1>9 DEF LogInv

\* Nothing has been logged at first.
LEMMA InitLog == LInit => LogInv
<1> SUFFICES ASSUME LInit PROVE LogInv
  OBVIOUS
<1>1. << >> \in Seq(Entries) /\ Len(<< >>) = 0 /\ DOMAIN << >> = {}
  OBVIOUS
<1>2. ThreadsTyped
  <2>1. said \in [Names -> Nat] /\ said \in Lines
    BY AggregatorAssumption DEF LInit
  <2>2. handing \in [Threads -> Seq(Entries)] /\ \A t \in Threads : Len(handing[t]) <= 1
    BY <1>1 DEF LInit
  <2>3. entries \in Seq(Entries) /\ Len(entries) <= MaxEntries /\ changes \in 0..MaxChanges
    BY <1>1, AggregatorAssumption DEF LInit
  <2>4. current \in Profiles
    BY Sizes DEF LInit, Profiles
  <2> QED BY <2>1, <2>2, <2>3, <2>4 DEF LInit, ThreadsTyped, AggregatorTypeOK
<1>3. OrderInv
  <2>1. \A p \in Profiles, n \in Names : written[p][n] = << >>
    BY DEF LInit, WriterInit
  <2>2. FilesRise
    BY <1>1, <2>1 DEF FilesRise, Rises
  <2> QED BY <1>1, <2>2 DEF LInit, OrderInv, HandedIsLast, ShownWasSaid, ShownRise
<1>4. LoggedInv
  BY <1>1 DEF LInit, LoggedInv
<1> QED BY <1>2, <1>3, <1>4, InitFiles DEF LogInv

\* Every step keeps the invariant.
LEMMA LogStep == LogInv /\ [LNext]_lvars => LogInv'
<1> SUFFICES ASSUME LogInv, [LNext]_lvars PROVE LogInv'
  OBVIOUS
<1>1. CASE UNCHANGED lvars
  <2>1. FilesInv'
    BY <1>1, FilesUnchanged DEF LogInv, lvars, aggregatorVars
  <2>2. UNCHANGED <<failures, writers, written>> /\ UNCHANGED aggregatorVars
    BY <1>1 DEF lvars, writerVars
  <2>3. ThreadsTyped' /\ OrderInv'
    BY <2>2, LinesAlone, ChangeTypes DEF aggregatorVars
  <2>4. LoggedInv'
    BY <2>2 DEF LogInv, LoggedInv, aggregatorVars
  <2> QED BY <2>1, <2>3, <2>4 DEF LogInv
<1>2. CASE Begin \/ ChangeStep
  BY <1>2, ChangeSteps
<1>3. CASE Clear
  BY <1>3, ClearStep
<1>4. CASE \E t \in Threads : Persist(t) \/ Push(t)
  BY <1>4, PersistStep, PushStep
<1>5. CASE \E p \in Profiles : FlusherStep(p) /\ UNCHANGED aggregatorVars
  BY <1>5, FlusherSteps
<1> QED BY <1>1, <1>2, <1>3, <1>4, <1>5 DEF LNext

\* So it always holds.
LEMMA LogInvariant == LSpec => []LogInv
  BY InitLog, LogStep, PTL DEF LSpec

-----------------------------------------------------------------------------
\* The files keep their bounds and agree with what is known of them (LInv), for lines
\* of any size and any sequence of writes, rotations, flushes, failures and changes
\* of profile: a file is rotated after the line that fills it, so it exceeds its
\* limit by less than that line; the size that decides it is the file's, buffered
\* bytes and those of an earlier writer included; only an active writer has open ones.
THEOREM FilesKeepBounds == LSpec => []LInv
<1> SUFFICES LogInv => LInv
  BY LogInvariant, PTL
<1> SUFFICES ASSUME LogInv PROVE LInv
  OBVIOUS
<1>1. WriterTypeOK /\ AggregatorTypeOK
  BY DEF LogInv, FilesInv, FilesSound, ThreadsTyped, WriterTypeOK
<1>2. \A p \in Profiles, n \in Names :
        Sound(files[p][n]) /\ (files[p][n].open => writers[p].active)
  BY DEF LogInv, FilesInv, FilesSound
<1>3. FilesConsistent
  BY <1>2 DEF FilesConsistent, Sound
<1>4. FilesBounded
  <2>1. ASSUME NEW f, Sound(f) PROVE DOMAIN f.bytes = 1..Len(f.bytes)
    BY <2>1 DEF Sound, Files
  <2> QED BY <1>2, <2>1 DEF FilesBounded, Sound, WithinALine
<1> QED BY <1>1, <1>3, <1>4 DEF LInv

\* The lines of one name are shown in the order they have in its file (SameOrder): two
\* readers of the streams of a process cannot overtake each other between write and
\* push, as the mutex of the process manager is held meanwhile.
THEOREM ShownInOrder == LSpec => []SameOrder
<1>1. LogInv => SameOrder
  <2> SUFFICES ASSUME LogInv, NEW i \in DOMAIN entries, NEW j \in DOMAIN entries,
                      i < j, entries[i].name = entries[j].name, NEW p \in Profiles,
                      NEW a \in DOMAIN written[p][entries[i].name],
                      NEW b \in DOMAIN written[p][entries[i].name],
                      written[p][entries[i].name][a] = entries[i].number,
                      written[p][entries[i].name][b] = entries[j].number
               PROVE  a < b
    BY DEF SameOrder
  <2> DEFINE n == entries[i].name
             w == written[p][n]
  <2>1. entries[i] \in Entries /\ entries[j] \in Entries
    BY DEF LogInv, ThreadsTyped, AggregatorTypeOK
  <2>2. n \in Names /\ entries[i].number \in Nat /\ entries[j].number \in Nat
    BY <2>1 DEF Entries
  <2>3. w \in Seq(Nat) /\ Rises(w, said[n])
    BY <2>2 DEF LogInv, FilesInv, FilesSound, OrderInv, FilesRise
  <2>4. entries[i].number < entries[j].number
    BY DEF LogInv, OrderInv, ShownRise
  <2>5. w[a] < w[b] /\ w[a] \in Nat /\ w[b] \in Nat
    BY <2>2, <2>4
  <2> HIDE DEF w
  <2>6. a \in 1..Len(w) /\ b \in 1..Len(w) /\ a \in Nat /\ b \in Nat
    BY <2>3 DEF w
  <2>7. b < a => w[b] < w[a]
    BY <2>3, <2>6 DEF Rises
  <2>8. b = a => w[b] = w[a]
    OBVIOUS
  <2> QED BY <2>5, <2>6, <2>7, <2>8
<1> QED BY <1>1, LogInvariant, PTL

\* What is shown has reached a file unless the file system failed (ShownIsLogged):
\* at no point of a change of profile is the current writer closed.
THEOREM ShownHasBeenLogged == LSpec => []ShownIsLogged
<1>1. LogInv => ShownIsLogged
  BY DEF LogInv, LoggedInv, Filed, ShownIsLogged
<1> QED BY <1>1, LogInvariant, PTL

-----------------------------------------------------------------------------
\* What the files of a name hold of its lines.

\* The buffer and the files are cut out of the lines w: before the i-th file there are
\* cut[i] lines of them, and there are such only if as many files as may be hold the rest.
Cuts(f, w, cut) ==
    /\ Len(w) = cut[0] + Len(f.buffer)
    /\ \A k \in 1..Len(f.buffer) : f.buffer[k] = w[cut[0] + k]
    /\ \A i \in 1..Len(f.disk) :
        /\ cut[i - 1] = cut[i] + Len(f.disk[i])
        /\ \A k \in 1..Len(f.disk[i]) : f.disk[i][k] = w[cut[i] + k]
    /\ cut[Len(f.disk)] # 0 => MaxFileSize > 0 /\ Len(f.disk) = MaxRotated + 1

\* A file that was rotated is full.
RotatedAreFull(f) ==
    MaxFileSize > 0 => \A i \in 2..Len(f.disk) : f.bytes[i] >= MaxFileSize

Holds(f, w) ==
    /\ RotatedAreFull(f)
    /\ \E cut \in [0..Len(f.disk) -> 0..Len(w)] : Cuts(f, w, cut)

\* A file that is not there holds no lines.
LEMMA NoFileHolds == Holds(NoFile, << >>)
<1>. DEFINE w == << >>
            cut == [i \in 0..0 |-> 0]
<1>1. Len(w) = 0 /\ NoFile.disk = << >> /\ NoFile.buffer = << >> /\ Len(NoFile.disk) = 0
      /\ Len(NoFile.buffer) = 0
  BY DEF NoFile
<1>2. cut \in [0..0 -> 0..0] /\ cut[0] = 0
  OBVIOUS
<1>. HIDE DEF cut, w
<1>3. Cuts(NoFile, w, cut)
  BY <1>1, <1>2 DEF Cuts
<1>4. RotatedAreFull(NoFile)
  BY <1>1 DEF RotatedAreFull
<1>5. \E c \in [0..Len(NoFile.disk) -> 0..Len(w)] : Cuts(NoFile, w, c)
  BY <1>1, <1>2, <1>3
<1>6. Holds(NoFile, w)
  BY <1>4, <1>5 DEF Holds
<1>. QED  BY <1>6 DEF w

\* A place among b + c lines of n that is after the first b.
LEMMA Inside ==
  ASSUME NEW n \in Nat, NEW a \in 0..n, NEW b \in Nat, NEW c \in Nat, a = b + c,
         NEW k \in 1..c
  PROVE  b + k \in 1..n
  OBVIOUS

\* Three numbers add up in any grouping.
LEMMA Regrouped ==
  ASSUME NEW a \in Nat, NEW b \in Nat, NEW c \in Nat
  PROVE  (a + b) + c = a + (b + c)
  OBVIOUS

\* A file on disk and its types, one by one.
LEMMA DiskTypes ==
  ASSUME NEW f \in Files
  PROVE  /\ f.disk \in Seq(Seq(Nat)) /\ f.buffer \in Seq(Nat) /\ Len(f.disk) \in Nat
         /\ Len(f.buffer) \in Nat /\ DOMAIN f.disk = 1..Len(f.disk)
         /\ \A i \in 1..Len(f.disk) : f.disk[i] \in Seq(Nat) /\ Len(f.disk[i]) \in Nat
<1>1. f.disk \in Seq(Seq(Nat)) /\ f.buffer \in Seq(Nat)
  BY DEF Files
<1>2. /\ DOMAIN f.disk = 1..Len(f.disk) /\ Len(f.disk) \in Nat
      /\ \A i \in 1..Len(f.disk) : f.disk[i] \in Seq(Nat)
  BY <1>1, Indices
<1>3. Len(f.buffer) \in Nat
  BY <1>1
<1>4. \A i \in 1..Len(f.disk) : Len(f.disk[i]) \in Nat
  BY <1>2
<1>. QED  BY <1>1, <1>2, <1>3, <1>4

\* The same files and the same buffer hold the same lines.
LEMMA SameHolds ==
  ASSUME NEW f, NEW g, NEW w, Holds(f, w), g.disk = f.disk, g.buffer = f.buffer,
         g.bytes = f.bytes
  PROVE  Holds(g, w)
<1>1. PICK cut \in [0..Len(f.disk) -> 0..Len(w)] : Cuts(f, w, cut)
  BY DEF Holds
<1>2. cut \in [0..Len(g.disk) -> 0..Len(w)]
  BY <1>1, Zenon
<1>4. Cuts(g, w, cut)
  <2>1. /\ Len(w) = cut[0] + Len(g.buffer)
        /\ \A k \in 1..Len(g.buffer) : g.buffer[k] = w[cut[0] + k]
    BY <1>1, Zenon DEF Cuts
  <2>2. \A i \in 1..Len(f.disk) :
          /\ cut[i - 1] = cut[i] + Len(f.disk[i])
          /\ \A k \in 1..Len(f.disk[i]) : f.disk[i][k] = w[cut[i] + k]
    BY <1>1, Zenon DEF Cuts
  <2>3. \A i \in 1..Len(g.disk) :
          /\ cut[i - 1] = cut[i] + Len(g.disk[i])
          /\ \A k \in 1..Len(g.disk[i]) : g.disk[i][k] = w[cut[i] + k]
    BY <2>2, Zenon
  <2>4. cut[Len(g.disk)] # 0 => MaxFileSize > 0 /\ Len(g.disk) = MaxRotated + 1
    BY <1>1, Zenon DEF Cuts
  <2>. QED  BY <2>1, <2>3, <2>4, Zenon DEF Cuts
<1>3. RotatedAreFull(g)
  BY Zenon DEF Holds, RotatedAreFull
<1>. QED  BY <1>2, <1>3, <1>4, Zenon DEF Holds

\* Opening creates an empty file if there is none.
LEMMA OpenedHolds ==
  ASSUME NEW f, Sound(f), ~f.open, NEW w \in Seq(Nat), Holds(f, w)
  PROVE  Holds(Opened(f), w)
<1>. DEFINE o == Opened(f)
<1>1. f \in Files /\ f.buffer = << >>
  BY DEF Sound
<1>2. CASE f.disk # << >>
  <2>1. o.disk = f.disk /\ o.buffer = f.buffer /\ o.bytes = f.bytes
    BY <1>1, <1>2, OpenedIsSound, CreatedIsSound
  <2>. HIDE DEF o
  <2>2. Holds(o, w)
    BY <2>1, SameHolds
  <2>. QED  BY <2>2 DEF o
<1>3. CASE f.disk = << >>
  <2>1. o.disk = << << >> >> /\ o.buffer = << >>
    BY <1>3, OpenedIsSound, CreatedIsSound
  <2>. HIDE DEF o
  <2>2. Len(f.disk) = 0 /\ Len(f.buffer) = 0 /\ Len(w) \in Nat
    BY <1>1, <1>3
  <2>3. PICK cut \in [0..0 -> 0..Len(w)] : Cuts(f, w, cut)
    BY <2>2 DEF Holds
  <2>4. cut[0] \in Nat /\ Len(w) = cut[0]
    BY <2>2, <2>3 DEF Cuts
  <2>5. cut[0] = 0
    BY <2>2, <2>3, Sizes DEF Cuts
  <2>6. Len(o.disk) = 1 /\ Len(o.disk[1]) = 0 /\ Len(o.buffer) = 0
    BY <2>1
  <2>. DEFINE new == [i \in 0..1 |-> 0]
  <2>7. new \in [0..1 -> 0..Len(w)] /\ new[0] = 0 /\ new[1] = 0 /\ Len(w) = 0
    BY <2>2, <2>4, <2>5
  <2>. HIDE DEF new
  <2>8. Cuts(o, w, new)
    <3>1. Len(w) = new[0] + Len(o.buffer)
      BY <2>6, <2>7
    <3>2. \A i \in 1..Len(o.disk) : i = 1
      BY <2>6
    <3>3. new[1 - 1] = new[1] + Len(o.disk[1])
      BY <2>6, <2>7
    <3>. QED  BY <2>6, <2>7, <3>1, <3>2, <3>3 DEF Cuts
  <2>9. RotatedAreFull(o)
    BY <2>6 DEF RotatedAreFull
  <2>10. \E c \in [0..Len(o.disk) -> 0..Len(w)] : Cuts(o, w, c)
    BY <2>6, <2>7, <2>8
  <2>11. Holds(o, w)
    BY <2>9, <2>10 DEF Holds
  <2>. QED  BY <2>11 DEF o
<1>. QED  BY <1>2, <1>3

\* A line goes to the buffer and to the history.
LEMMA AppendedHolds ==
  ASSUME NEW f, Sound(f), f.open, NEW w \in Seq(Nat), NEW line \in Nat,
         NEW size \in 1..MaxLine, Holds(f, w)
  PROVE  Holds(Appended(f, line, size), Append(w, line))
<1>. DEFINE g == Appended(f, line, size)
            v == Append(w, line)
<1>0. f \in Files /\ f.disk # << >> /\ Len(f.bytes) = Len(f.disk) /\ size \in Nat
  BY Sizes DEF Sound
<1>16. f.bytes \in Seq(Nat) /\ f.bytes # << >> /\ f.bytes[1] + size \in Nat
  BY <1>0, FileTypes
<1>1. /\ g.disk = f.disk /\ g.buffer = Append(f.buffer, line)
      /\ g.bytes = [f.bytes EXCEPT ![1] = f.bytes[1] + size]
  BY <1>0, AppendedFields
<1>17. \A i \in 2..Len(f.disk) : g.bytes[i] = f.bytes[i]
  <2>1. \A i \in 1..Len(f.bytes) : i # 1 => g.bytes[i] = f.bytes[i]
    BY <1>1, <1>16, SetFirst
  <2>2. \A i \in 2..Len(f.disk) : i \in 1..Len(f.bytes) /\ i # 1
    BY <1>0
  <2>. QED  BY <2>1, <2>2
<1>. HIDE DEF g
<1>2. /\ Len(w) \in Nat /\ Len(v) = Len(w) + 1 /\ v[Len(w) + 1] = line
      /\ \A k \in 1..Len(w) : v[k] = w[k]
  BY Appending
<1>. HIDE DEF v
<1>3. /\ f.buffer \in Seq(Nat) /\ Len(f.buffer) \in Nat /\ Len(f.disk) \in Nat
      /\ \A i \in 1..Len(f.disk) : Len(f.disk[i]) \in Nat
  BY <1>0, DiskTypes
<1>4. /\ Len(g.buffer) = Len(f.buffer) + 1 /\ g.buffer[Len(f.buffer) + 1] = line
      /\ \A k \in 1..Len(f.buffer) : g.buffer[k] = f.buffer[k]
  BY <1>1, <1>3, Appending
<1>5. PICK cut \in [0..Len(f.disk) -> 0..Len(w)] : Cuts(f, w, cut)
  BY DEF Holds
<1>6. cut \in [0..Len(f.disk) -> 0..Len(v)]
  BY <1>2, <1>5
<1>7. /\ Len(w) = cut[0] + Len(f.buffer) /\ cut[0] \in Nat
      /\ \A i \in 0..Len(f.disk) : cut[i] \in 0..Len(w)
  <2>1. 0 \in 0..Len(f.disk)
    BY <1>3
  <2>2. \A i \in 0..Len(f.disk) : cut[i] \in 0..Len(w)
    BY <1>5, Zenon
  <2>3. Len(w) = cut[0] + Len(f.buffer)
    BY <1>5, Zenon DEF Cuts
  <2>. QED  BY <2>1, <2>2, <2>3
<1>8. Len(v) = cut[0] + Len(g.buffer)
  BY <1>2, <1>3, <1>4, <1>7
<1>9. ASSUME NEW k \in 1..Len(g.buffer) PROVE g.buffer[k] = v[cut[0] + k]
  <2>1. CASE k = Len(f.buffer) + 1
    <3>1. cut[0] + k = Len(w) + 1
      BY <1>3, <1>7, <2>1
    <3>. QED  BY <1>2, <1>4, <2>1, <3>1
  <2>2. CASE k # Len(f.buffer) + 1
    <3>1. k \in 1..Len(f.buffer)
      BY <1>3, <1>4, <2>2
    <3>2. cut[0] + k \in 1..Len(w)
      <4>1. Len(w) \in 0..Len(w)
        BY <1>2
      <4>. QED  BY <1>2, <1>3, <1>7, <3>1, <4>1, Inside, Zenon
    <3>3. f.buffer[k] = w[cut[0] + k]
      BY <1>5, <3>1, Zenon DEF Cuts
    <3>4. g.buffer[k] = f.buffer[k] /\ v[cut[0] + k] = w[cut[0] + k]
      BY <1>2, <1>4, <3>1, <3>2, Zenon
    <3>. QED  BY <3>3, <3>4, Zenon
  <2>. QED  BY <2>1, <2>2
<1>10. ASSUME NEW i \in 1..Len(f.disk), NEW k \in 1..Len(f.disk[i])
       PROVE  f.disk[i][k] = v[cut[i] + k]
  <2>1. i - 1 \in 0..Len(f.disk) /\ i \in 0..Len(f.disk) /\ Len(f.disk[i]) \in Nat
    BY <1>3
  <2>2. cut[i - 1] = cut[i] + Len(f.disk[i]) /\ f.disk[i][k] = w[cut[i] + k]
    BY <1>5 DEF Cuts
  <2>3. cut[i - 1] \in 0..Len(w) /\ cut[i] \in 0..Len(w)
    BY <1>7, <2>1
  <2>4. cut[i] \in Nat
    BY <1>2, <2>3
  <2>5. cut[i] + k \in 1..Len(w)
    BY <1>2, <2>1, <2>2, <2>3, <2>4, Inside, Zenon
  <2>6. v[cut[i] + k] = w[cut[i] + k]
    BY <1>2, <2>5, Zenon
  <2>. QED  BY <2>2, <2>6, Zenon
<1>11. /\ \A i \in 1..Len(f.disk) : cut[i - 1] = cut[i] + Len(f.disk[i])
       /\ cut[Len(f.disk)] # 0 => MaxFileSize > 0 /\ Len(f.disk) = MaxRotated + 1
  BY <1>5 DEF Cuts
<1>12. Cuts(g, v, cut)
  BY <1>1, <1>8, <1>9, <1>10, <1>11 DEF Cuts
<1>13. RotatedAreFull(g)
  BY <1>1, <1>17 DEF Holds, RotatedAreFull
<1>14. \E c \in [0..Len(g.disk) -> 0..Len(v)] : Cuts(g, v, c)
  BY <1>1, <1>6, <1>12
<1>15. Holds(g, v)
  BY <1>13, <1>14 DEF Holds
<1>. QED  BY <1>15 DEF g, v

\* What was in the buffer is at the end of the first file.
LEMMA FlushedHolds ==
  ASSUME NEW f, Grown(f), NEW w \in Seq(Nat), Holds(f, w)
  PROVE  Holds(Flushed(f), w)
<1>. DEFINE g == Flushed(f)
            x == f.disk[1] \o f.buffer
            L == Len(f.disk)
<1>1. /\ f \in Files /\ f.open /\ f.disk # << >>
      /\ g.disk = [f.disk EXCEPT ![1] = x] /\ g.buffer = << >>
      /\ g.bytes = f.bytes /\ Len(f.bytes) = Len(f.disk)
  BY FlushedFields DEF Grown
<1>2. /\ L \in Nat \ {0} /\ f.disk \in Seq(Seq(Nat)) /\ f.buffer \in Seq(Nat)
      /\ Len(f.buffer) \in Nat /\ f.disk[1] \in Seq(Nat) /\ Len(f.disk[1]) \in Nat
      /\ \A i \in 1..L : f.disk[i] \in Seq(Nat) /\ Len(f.disk[i]) \in Nat
  BY <1>1, FileTypes, DiskTypes
<1>3. /\ x \in Seq(Nat) /\ Len(x) = Len(f.disk[1]) + Len(f.buffer)
      /\ \A k \in 1..(Len(f.disk[1]) + Len(f.buffer)) :
           x[k] = IF k <= Len(f.disk[1]) THEN f.disk[1][k] ELSE f.buffer[k - Len(f.disk[1])]
  BY <1>2, Concatenation, Zenon
<1>. HIDE DEF g, x
<1>4. /\ Len(g.disk) = L /\ g.disk[1] = x /\ Len(g.buffer) = 0
      /\ \A i \in 1..L : i # 1 => g.disk[i] = f.disk[i]
  BY <1>1, <1>2, <1>3, SetFirst
<1>5. PICK cut \in [0..L -> 0..Len(w)] : Cuts(f, w, cut)
  BY DEF Holds
<1>. HIDE DEF L
<1>6. /\ Len(w) \in Nat /\ cut[0] \in Nat /\ cut[1] \in 0..Len(w)
      /\ Len(w) = cut[0] + Len(f.buffer)
      /\ cut[0] = cut[1] + Len(f.disk[1])
  <2>1. 0 \in 0..L /\ 1 \in 0..L /\ 1 \in 1..L /\ 1 - 1 = 0
    BY <1>2
  <2>2. Len(w) = cut[0] + Len(f.buffer) /\ cut[1 - 1] = cut[1] + Len(f.disk[1])
    BY <1>5, <2>1 DEF Cuts, L
  <2>. QED  BY <1>5, <2>1, <2>2
<1>. DEFINE new == [i \in 0..L |-> IF i = 0 THEN Len(w) ELSE cut[i]]
<1>7. /\ new \in [0..L -> 0..Len(w)] /\ new[0] = Len(w)
      /\ \A i \in 1..L : new[i] = cut[i]
  BY <1>2, <1>5, <1>6
<1>. HIDE DEF new
<1>8. ASSUME NEW i \in 1..L
      PROVE  /\ new[i - 1] = new[i] + Len(g.disk[i])
             /\ \A k \in 1..Len(g.disk[i]) : g.disk[i][k] = w[new[i] + k]
  <2>1. CASE i = 1
    <3>0. 1 - 1 = 0 /\ 1 \in 1..L
      BY <1>2
    <3>1. new[1 - 1] = new[1] + Len(x)
      <4>1. new[1 - 1] = cut[0] + Len(f.buffer) /\ new[1] = cut[1]
        BY <1>6, <1>7, <3>0, Zenon
      <4>2. new[1 - 1] = (cut[1] + Len(f.disk[1])) + Len(f.buffer)
        BY <1>6, <4>1, Zenon
      <4>3. (cut[1] + Len(f.disk[1])) + Len(f.buffer) = cut[1] + (Len(f.disk[1]) + Len(f.buffer))
        <5>1. cut[1] \in Nat
          BY <1>6
        <5>. QED  BY <1>2, <5>1, Regrouped, Zenon
      <4>. QED  BY <1>3, <4>1, <4>2, <4>3, Zenon
    <3>2. ASSUME NEW k \in 1..Len(x) PROVE x[k] = w[cut[1] + k]
      <4>1. CASE k <= Len(f.disk[1])
        <5>0. k \in 1..(Len(f.disk[1]) + Len(f.buffer))
          BY <1>3
        <5>1. k \in 1..Len(f.disk[1])
          BY <1>2, <4>1, <5>0
        <5>3. x[k] = f.disk[1][k]
          BY <1>3, <4>1, <5>0, Zenon
        <5>2. f.disk[1][k] = w[cut[1] + k]
          <6>1. \A j \in 1..Len(f.disk[1]) : f.disk[1][j] = w[cut[1] + j]
            BY <1>5, <3>0, Zenon DEF Cuts, L
          <6>. QED  BY <5>1, <6>1, Zenon
        <5>. QED  BY <5>2, <5>3, Zenon
      <4>2. CASE ~(k <= Len(f.disk[1]))
        <5>. DEFINE j == k - Len(f.disk[1])
        <5>0. k \in 1..(Len(f.disk[1]) + Len(f.buffer))
          BY <1>3
        <5>1. j \in 1..Len(f.buffer)
          <6>. DEFINE a == Len(f.disk[1])
                      b == Len(f.buffer)
          <6>1. a \in Nat /\ b \in Nat /\ k \in 1..(a + b) /\ ~(k <= a)
            BY <1>2, <4>2, <5>0, Zenon
          <6>. HIDE DEF a, b
          <6>2. k - a \in 1..b
            BY <6>1
          <6>. QED  BY <6>2, Zenon DEF a, b
        <5>2. x[k] = f.buffer[j]
          BY <1>3, <4>2, <5>0, Zenon
        <5>3. cut[0] + j = cut[1] + k
          <6>1. cut[1] \in Nat
            BY <1>6
          <6>2. k \in Nat
            BY <5>0
          <6>. QED  BY <1>2, <1>6, <6>1, <6>2
        <5>. HIDE DEF j
        <5>4. f.buffer[j] = w[cut[0] + j]
          BY <1>5, <5>1, Zenon DEF Cuts
        <5>. QED  BY <5>2, <5>3, <5>4, Zenon
      <4>. QED  BY <4>1, <4>2
    <3>3. g.disk[i] = x /\ new[i] = cut[1]
      BY <1>4, <1>7, <2>1, <3>0, Zenon
    <3>. QED  BY <2>1, <3>1, <3>2, <3>3, <1>7, <3>0, Zenon
  <2>2. CASE i # 1
    <3>1. i - 1 \in 1..L
      BY <1>2, <2>2
    <3>2. /\ cut[i - 1] = cut[i] + Len(f.disk[i])
          /\ \A k \in 1..Len(f.disk[i]) : f.disk[i][k] = w[cut[i] + k]
      BY <1>5, Zenon DEF Cuts, L
    <3>3. g.disk[i] = f.disk[i] /\ new[i] = cut[i] /\ new[i - 1] = cut[i - 1]
      BY <1>4, <1>7, <2>2, <3>1, Zenon
    <3>. QED  BY <3>2, <3>3, Zenon
  <2>. QED  BY <2>1, <2>2
<1>9. new[L] # 0 => MaxFileSize > 0 /\ L = MaxRotated + 1
  <2>1. L \in 1..L
    BY <1>2
  <2>. QED  BY <1>5, <1>7, <2>1 DEF Cuts, L
<1>10. Len(w) = new[0] + Len(g.buffer)
  BY <1>4, <1>6, <1>7
<1>11. \A k \in 1..Len(g.buffer) : FALSE
  BY <1>4
<1>12. Cuts(g, w, new)
  BY <1>4, <1>8, <1>9, <1>10, <1>11 DEF Cuts
<1>13. RotatedAreFull(g)
  <2>. QED  BY <1>1, <1>4 DEF Holds, RotatedAreFull, L
<1>14. \E c \in [0..Len(g.disk) -> 0..Len(w)] : Cuts(g, w, c)
  BY <1>4, <1>7, <1>12
<1>15. Holds(g, w)
  BY <1>13, <1>14 DEF Holds
<1>. QED  BY <1>15 DEF g

\* Rotation moves full files on; the oldest falls off only when there are enough.
LEMMA RotatedHolds ==
  ASSUME NEW g, Grown(g), Full(g), NEW w \in Seq(Nat), Holds(g, w), NEW opens \in BOOLEAN
  PROVE  Holds(Rotated(g, opens), w)
<1>. DEFINE h == Flushed(g)
            old == h.disk
            L == Len(old)
            k == Least(MaxRotated, Len(g.disk))
            r == Rotated(g, opens)
            disk == r.disk
<1>1. old \in Seq(Seq(Nat)) /\ L = Len(g.disk)
  BY FlushedDisk
<1>20. g \in Files /\ g.open /\ g.disk # << >> /\ Len(g.bytes) = Len(g.disk)
  BY DEF Grown
<1>3. /\ Holds(h, w) /\ h.buffer = << >> /\ h.bytes = g.bytes
      /\ L \in Nat \ {0} /\ Len(w) \in Nat
  <2>1. Holds(h, w)
    BY FlushedHolds
  <2>3. h.buffer = << >> /\ h.bytes = g.bytes /\ Len(g.disk) \in Nat \ {0}
    BY <1>20, FlushedFields, FileTypes
  <2>. QED  BY <1>1, <2>1, <2>3
<1>11. /\ k \in 0..L /\ k \in Nat /\ k <= MaxRotated /\ (k = MaxRotated \/ k = L)
       /\ r.buffer = << >> /\ Len(disk) = k + 1 /\ disk[1] = << >>
       /\ \A i \in 2..(k + 1) : disk[i] = old[i - 1]
       /\ \A i \in 2..(k + 1) : i - 1 \in 1..L /\ r.bytes[i] = g.bytes[i - 1]
  BY <1>1, RotatedFields, Zenon
<1>. HIDE DEF h, k
<1>4. PICK cut \in [0..L -> 0..Len(w)] : Cuts(h, w, cut)
  BY <1>3 DEF Holds
<1>5. /\ cut[0] = Len(w)
      /\ \A i \in 1..L : /\ cut[i - 1] = cut[i] + Len(old[i])
                         /\ \A j \in 1..Len(old[i]) : old[i][j] = w[cut[i] + j]
      /\ cut[L] # 0 => L = MaxRotated + 1
  <2>1. Len(h.buffer) = 0 /\ cut[0] \in Nat
    BY <1>3, <1>4
  <2>. QED  BY <1>4, <2>1 DEF Cuts
<1>6. MaxFileSize > 0 /\ g.size >= MaxFileSize
  BY DEF Full
<1>7. \A i \in 1..L : g.bytes[i] >= MaxFileSize
  <2>1. \A i \in 2..L : g.bytes[i] >= MaxFileSize
    BY <1>3, <1>6 DEF Holds, RotatedAreFull
  <2>2. g.bytes[1] >= MaxFileSize
    BY <1>6 DEF Grown
  <2>. QED  BY <1>3, <2>1, <2>2
<1>8. k \in 0..L /\ k <= MaxRotated /\ (k = MaxRotated \/ k = L)
  BY <1>11
<1>. HIDE DEF old, L
<1>10. Len(<< >>) = 0
  OBVIOUS
<1>. HIDE DEF disk, r
<1>. DEFINE new == [i \in 0..(k + 1) |-> IF i = 0 THEN Len(w) ELSE cut[i - 1]]
<1>12. /\ new \in [0..(k + 1) -> 0..Len(w)] /\ new[0] = Len(w)
       /\ \A i \in 1..(k + 1) : new[i] = cut[i - 1]
  BY <1>3, <1>4, <1>8
<1>. HIDE DEF new
<1>13. ASSUME NEW i \in 1..(k + 1)
       PROVE  /\ new[i - 1] = new[i] + Len(disk[i])
              /\ \A j \in 1..Len(disk[i]) : disk[i][j] = w[new[i] + j]
  <2>1. CASE i = 1
    <3>1. 1 - 1 = 0 /\ 1 \in 1..(k + 1) /\ 0 \in 0..L
      BY <1>3, <1>8
    <3>2. new[1 - 1] = Len(w) /\ new[1] = Len(w)
      BY <1>5, <1>12, <3>1, Zenon
    <3>3. Len(w) = Len(w) + 0
      BY <1>3
    <3>4. Len(disk[1]) = 0
      BY <1>10, <1>11, Zenon
    <3>5. \A j \in 1..Len(disk[1]) : FALSE
      BY <3>4
    <3>. QED  BY <2>1, <3>2, <3>3, <3>4, <3>5, Zenon
  <2>2. CASE i # 1
    <3>1. i - 1 \in 1..L /\ i - 1 \in 1..(k + 1) /\ i \in 2..(k + 1)
      BY <1>3, <1>8, <2>2
    <3>2. new[i - 1] = cut[(i - 1) - 1] /\ new[i] = cut[i - 1] /\ disk[i] = old[i - 1]
      BY <1>11, <1>12, <3>1
    <3>. QED  BY <1>5, <3>1, <3>2
  <2>. QED  BY <2>1, <2>2
<1>14. new[k + 1] # 0 => MaxFileSize > 0 /\ k + 1 = MaxRotated + 1
  <2>1. k + 1 \in 1..(k + 1) /\ (k + 1) - 1 = k
    BY <1>3, <1>8
  <2>2. new[k + 1] = cut[k]
    BY <1>12, <2>1
  <2>. QED  BY <1>5, <1>6, <1>8, <2>2, Sizes
<1>15. /\ Len(w) = new[0] + Len(r.buffer)
       /\ \A j \in 1..Len(r.buffer) : FALSE
  BY <1>3, <1>10, <1>11, <1>12
<1>16. Cuts(r, w, new)
  BY <1>11, <1>13, <1>14, <1>15 DEF Cuts, disk
<1>17. RotatedAreFull(r)
  <2>1. \A i \in 2..(k + 1) : r.bytes[i] >= MaxFileSize
    BY <1>7, <1>11, Zenon
  <2>. QED  BY <1>11, <2>1 DEF RotatedAreFull, disk
<1>18. \E c \in [0..Len(r.disk) -> 0..Len(w)] : Cuts(r, w, c)
  BY <1>11, <1>12, <1>16 DEF disk
<1>19. Holds(r, w)
  BY <1>17, <1>18 DEF Holds
<1>. QED  BY <1>19 DEF r

\* What is closed is flushed, and holds the same.
LEMMA ClosingHolds ==
  ASSUME NEW f, Sound(f), NEW w \in Seq(Nat), Holds(f, w)
  PROVE  Holds(Flushed(f), w) /\ Holds(Closed(f), w)
<1>1. Holds(Flushed(f), w)
  <2>1. CASE f.open
    BY <2>1, SoundIsGrown, FlushedHolds
  <2>2. CASE ~f.open
    BY <2>2, Zenon DEF Flushed
  <2>. QED  BY <2>1, <2>2
<1>. DEFINE g == Flushed(f)
            h == [g EXCEPT !.open = FALSE]
            c == [h EXCEPT !.size = 0]
<1>2. g \in Files
  BY FlushKeeps DEF Sound
<1>3. Closed(f) = c
  BY DEF Closed
<1>. HIDE DEF g
<1>4. h \in Files /\ h.buffer = g.buffer /\ h.disk = g.disk /\ h.bytes = g.bytes
  BY <1>2, SetOpen
<1>. HIDE DEF h
<1>5. c.buffer = g.buffer /\ c.disk = g.disk /\ c.bytes = g.bytes
  <2>1. 0 \in Nat
    OBVIOUS
  <2>. QED  BY <1>4, <2>1, SetSize
<1>. HIDE DEF c
<1>6. Holds(c, w)
  BY <1>1, <1>5, SameHolds DEF g
<1>. QED  BY <1>1, <1>3, <1>6, Zenon

-----------------------------------------------------------------------------
\* All files.

\* Every file holds what its history says it should.
AllHold == \A p \in Profiles, n \in Names : Holds(files[p][n], written[p][n])

\* A line that is written reaches the file or the buffer, or is dropped and not counted.
LEMMA WriteHolds ==
  ASSUME FilesSound, AllHold, NEW p \in Profiles, NEW n \in Names, NEW line \in Nat,
         NEW size \in 1..MaxLine, Write(p, n, line, size)
  PROVE  AllHold'
<1>. DEFINE f == files[p][n]
            w == written[p][n]
            o == IF f.open THEN f ELSE Opened(f)
            g == Appended(o, line, size)
            v == Append(w, line)
<1>1. Sound(f) /\ Holds(f, w) /\ w \in Seq(Nat)
  BY DEF FilesSound, AllHold
<1>2. Sound(o) /\ o.open /\ Holds(o, w)
  <2>1. CASE f.open
    BY <1>1, <2>1
  <2>2. CASE ~f.open
    BY <1>1, <2>2, OpenedIsSound, OpenedHolds
  <2>. QED  BY <2>1, <2>2
<1>3. Grown(g) /\ Holds(g, v) /\ v \in Seq(Nat)
  <2>. HIDE DEF o
  <2>2. Grown(g)
    BY <1>2, AppendGrows
  <2>3. Holds(g, v)
    BY <1>1, <1>2, AppendedHolds
  <2>. QED  BY <1>1, <2>2, <2>3
<1>4. CASE UNCHANGED <<files, written>>
  BY <1>4, Zenon DEF AllHold
<1>5. ASSUME NEW h, Holds(h, v), Store(p, n, h),
             written' = [written EXCEPT ![p][n] = v]
      PROVE  AllHold'
  <2>1. files \in [Profiles -> [Names -> Files]] /\ written \in [Profiles -> [Names -> Seq(Nat)]]
    BY DEF FilesSound
  <2>. HIDE DEF v
  <2>2. ASSUME NEW q \in Profiles, NEW m \in Names
        PROVE  /\ files'[q][m] = IF q = p /\ m = n THEN h ELSE files[q][m]
               /\ written'[q][m] = IF q = p /\ m = n THEN v ELSE written[q][m]
    BY <1>5, <2>1 DEF Store
  <2>3. ASSUME NEW q \in Profiles, NEW m \in Names
        PROVE  Holds(files'[q][m], written'[q][m])
    <3>1. CASE q = p /\ m = n
      BY <1>5, <2>2, <3>1, Zenon
    <3>2. CASE ~(q = p /\ m = n)
      <4>1. files'[q][m] = files[q][m] /\ written'[q][m] = written[q][m]
        BY <2>2, <3>2, Zenon
      <4>. QED  BY <4>1, Zenon DEF AllHold
    <3>. QED  BY <3>1, <3>2, Zenon
  <2>. QED  BY <2>3, Zenon DEF AllHold
<1>6. ASSUME Full(g), NEW opens \in BOOLEAN PROVE Holds(Rotated(g, opens), v)
  BY <1>3, <1>6, RotatedHolds
<1>7. \/ UNCHANGED <<files, written>>
      \/ /\ written' = [written EXCEPT ![p][n] = v]
         /\ \/ Store(p, n, g)
            \/ Full(g) /\ Store(p, n, Rotated(g, TRUE))
            \/ Full(g) /\ Store(p, n, Rotated(g, FALSE))
  BY Zenon DEF Write
<1>. QED  BY <1>3, <1>4, <1>5, <1>6, <1>7, Zenon

\* What becomes of the files of one profile.
LEMMA AllOfOneHold ==
  ASSUME FilesSound, AllHold, NEW p \in Profiles, NEW g, g = [n \in Names |-> g[n]],
         \A n \in Names : Holds(g[n], written[p][n]),
         files' = [files EXCEPT ![p] = g], UNCHANGED written
  PROVE  AllHold'
<1>1. ASSUME NEW q \in Profiles, NEW m \in Names
      PROVE  files'[q][m] = IF q = p THEN g[m] ELSE files[q][m]
  BY DEF FilesSound
<1>2. ASSUME NEW q \in Profiles, NEW m \in Names
      PROVE  Holds(files'[q][m], written'[q][m])
  <2>1. CASE q = p
    BY <1>1, <2>1, Zenon
  <2>2. CASE q # p
    <3>1. files'[q][m] = files[q][m]
      BY <1>1, <2>2, Zenon
    <3>. QED  BY <3>1, Zenon DEF AllHold
  <2>. QED  BY <2>1, <2>2, Zenon
<1>. QED  BY <1>2, Zenon DEF AllHold

\* No step of the program loses a line it has to keep.
LEMMA HoldStep == FilesInv /\ ThreadsTyped /\ AllHold /\ [LNext]_lvars => AllHold'
<1>. SUFFICES ASSUME FilesInv, ThreadsTyped, AllHold, [LNext]_lvars PROVE AllHold'
  OBVIOUS
<1>1. FilesSound /\ current \in Profiles
  BY DEF FilesInv, WritersPresent
<1>2. CASE UNCHANGED <<files, written>>
  BY <1>2, Zenon DEF AllHold
<1>3. ASSUME NEW t \in Threads, Persist(t) PROVE AllHold'
  <2>1. NameOf(t) \in Names
    BY Named
  <2>2. said[NameOf(t)] + 1 \in Nat
    BY <2>1 DEF ThreadsTyped
  <2>3. PICK size \in 1..MaxLine : Write(current, NameOf(t), said[NameOf(t)] + 1, size)
    BY <1>3, Zenon DEF Persist
  <2>. QED  BY <1>1, <2>1, <2>2, <2>3, WriteHolds, Zenon
<1>4. CASE DestroyWriter
  <2>. DEFINE p == Previous(current)
              g == [n \in Names |-> Closed(files[p][n])]
  <2>1. p \in Profiles /\ UNCHANGED written /\ files' = [files EXCEPT ![p] = g]
    BY <1>4, NextProfile DEF DestroyWriter, Close, FilesInv, WritersPresent
  <2>2. \A n \in Names : Holds(g[n], written[p][n])
    BY <1>1, <2>1, ClosingHolds DEF FilesSound, AllHold
  <2>3. g = [n \in Names |-> g[n]]
    OBVIOUS
  <2>. HIDE DEF g, p
  <2>. QED  BY <1>1, <2>1, <2>2, <2>3, AllOfOneHold, Zenon
<1>5. ASSUME NEW p \in Profiles, FlushAll(p) PROVE AllHold'
  <2>. DEFINE g == [n \in Names |-> Flushed(files[p][n])]
  <2>1. UNCHANGED written /\ files' = [files EXCEPT ![p] = g]
    BY <1>5 DEF FlushAll
  <2>2. \A n \in Names : Holds(g[n], written[p][n])
    BY <1>1, ClosingHolds DEF FilesSound, AllHold
  <2>3. g = [n \in Names |-> g[n]]
    OBVIOUS
  <2>. HIDE DEF g
  <2>. QED  BY <1>1, <2>1, <2>2, <2>3, AllOfOneHold, Zenon
<1>6. \/ UNCHANGED <<files, written>> \/ DestroyWriter
      \/ \E t \in Threads : Persist(t)
      \/ \E p \in Profiles : FlushAll(p)
  BY DEF LNext, ChangeStep, FlusherStep, Begin, MakeWriter, InstallWriter, Clear, Push,
         FlusherBlocks, FlusherWakes, FlusherGoes, lvars, writerVars
<1>. QED  BY <1>2, <1>3, <1>4, <1>5, <1>6

-----------------------------------------------------------------------------
\* The latest lines.

\* Files that hold the lines w of a name have the latest of them.
LEMMA HoldsLatest ==
  ASSUME NEW f, Sound(f), NEW w \in Seq(Nat), Holds(f, w)
  PROVE  LET kept == FlattenSeq(Reverse(f.disk)) \o f.buffer
         IN  /\ IsSuffix(kept, w)
             /\ \/ kept = w
                \/ /\ MaxFileSize > 0 /\ Len(f.disk) = MaxRotated + 1
                   /\ \A i \in 2..Len(f.disk) : f.bytes[i] >= MaxFileSize
<1>. DEFINE d == f.disk
            L == Len(f.disk)
            N == Len(w)
            B == Len(f.buffer)
            s == Reverse(d)
<1>1. /\ f \in Files /\ d \in Seq(Seq(Nat)) /\ f.buffer \in Seq(Nat) /\ L \in Nat /\ B \in Nat
      /\ N \in Nat /\ L <= MaxRotated + 1
      /\ \A i \in 1..L : d[i] \in Seq(Nat) /\ Len(d[i]) \in Nat
  <2>1. f \in Files /\ L <= MaxRotated + 1 /\ N \in Nat
    BY DEF Sound
  <2>. QED  BY <2>1, DiskTypes
<1>2. PICK cut \in [0..L -> 0..N] : Cuts(f, w, cut)
  BY DEF Holds
<1>3. /\ N = cut[0] + B
      /\ \A k \in 1..B : f.buffer[k] = w[cut[0] + k]
      /\ \A i \in 1..L : /\ cut[i - 1] = cut[i] + Len(d[i])
                         /\ \A k \in 1..Len(d[i]) : d[i][k] = w[cut[i] + k]
      /\ cut[L] # 0 => MaxFileSize > 0 /\ L = MaxRotated + 1
  BY <1>2, Zenon DEF Cuts
<1>4. /\ s \in Seq(Seq(Nat)) /\ Len(s) = L
      /\ \A i \in 1..L : s[i] = d[(L - i) + 1]
  <2>1. \A i \in 1..L : (L - i) + 1 \in 1..L
    BY <1>1
  <2>2. s \in [1..L -> Seq(Nat)]
    BY <1>1, <2>1 DEF Reverse
  <2>3. \A i \in 1..L : s[i] = d[(L - i) + 1]
    BY DEF Reverse
  <2>. QED  BY <1>1, <2>2, <2>3, FunctionIsSeq, Zenon
<1>. HIDE DEF s, d, L, N, B
<1>5. \A i \in 0..L : cut[i] \in 0..N /\ cut[i] \in Nat
  BY <1>1, <1>2
\* the cuts go back, by a full file each but for the first
<1>6. ASSUME NEW M \in Nat, \A i \in 2..L : Len(d[i]) >= M, L # 0
      PROVE  \A j \in 0..(L - 1) : cut[L - j] >= cut[L] + j * M
  <2>1. ASSUME NEW i \in 2..L PROVE cut[i - 1] >= cut[i] + M
    <3>1. i \in 1..L /\ i \in 0..L
      BY <1>1
    <3>2. cut[i - 1] = cut[i] + Len(d[i]) /\ Len(d[i]) \in Nat /\ Len(d[i]) >= M /\ cut[i] \in Nat
      BY <1>1, <1>3, <1>5, <1>6, <3>1
    <3>. QED  BY <3>2
  <2>2. L \in Nat \ {0}
    BY <1>1, <1>6
  <2>. QED  BY <1>1, <1>2, <2>1, <2>2, GrowingBack
<1>. DEFINE c == cut[L]
            n == N - c
            w2 == [k \in 1..n |-> w[c + k]]
            cut2 == [i \in 0..L |-> cut[L - i] - c]
<1>7. c \in 0..N /\ n \in Nat /\ N = c + n /\ c \in Nat
  <2>1. L \in 0..L
    BY <1>1
  <2>. QED  BY <1>1, <1>5, <2>1
<1>8. ASSUME NEW i \in 0..L PROVE cut[i] >= c
  <2>1. CASE i = L
    BY <1>7, <2>1
  <2>2. CASE i # L
    <3>1. L # 0 /\ L - i \in 1..L /\ 0 \in Nat /\ 1 \in 1..L
      BY <1>1, <2>2
    <3>2. \A j \in 2..L : Len(d[j]) >= 0
      BY <1>1
    <3>3. \A j \in 0..(L - 1) : cut[L - j] >= cut[L] + j * 0
      BY <1>6, <3>1, <3>2
    <3>4. CASE i = 0
      <4>1. cut[1 - 1] = cut[1] + Len(d[1]) /\ cut[1] \in Nat /\ Len(d[1]) \in Nat /\ cut[0] \in Nat
        BY <1>1, <1>3, <1>5, <3>1
      <4>2. L - 1 \in 0..(L - 1) /\ L - (L - 1) = 1 /\ (L - 1) * 0 = 0 /\ 1 - 1 = 0
        BY <1>1, <3>1
      <4>3. cut[1] >= cut[L] + 0
        BY <3>3, <4>2
      <4>. QED  BY <1>7, <3>4, <4>1, <4>2, <4>3
    <3>5. CASE i # 0
      <4>1. L - i \in 0..(L - 1) /\ L - (L - i) = i /\ (L - i) * 0 = 0
        BY <1>1, <2>2, <3>5
      <4>2. cut[i] >= cut[L] + 0
        BY <3>3, <4>1
      <4>. QED  BY <1>5, <1>7, <4>2
    <3>. QED  BY <3>4, <3>5
  <2>. QED  BY <2>1, <2>2
<1>9. /\ cut2 \in [0..L -> 0..n] /\ \A i \in 0..L : cut2[i] = cut[L - i] - c /\ cut2[i] \in 0..n
  <2>1. ASSUME NEW i \in 0..L PROVE cut[L - i] - c \in 0..n
    <3>1. L - i \in 0..L
      BY <1>1
    <3>2. cut[L - i] >= c /\ cut[L - i] \in 0..N
      BY <1>5, <1>8, <3>1
    <3>. QED  BY <1>1, <1>7, <3>2
  <2>. QED  BY <2>1
<1>10. /\ \A k \in 1..n : w2[k] = w[c + k] /\ w2[k] \in Nat
  <2>1. \A k \in 1..n : c + k \in 1..Len(w)
    BY <1>7 DEF N
  <2>. QED  BY <2>1
<1>. HIDE DEF cut2, w2, n
<1>11. ASSUME NEW i \in 1..L
       PROVE  /\ cut2[i] = cut2[i - 1] + Len(s[i])
              /\ \A k \in 1..Len(s[i]) : s[i][k] = w2[cut2[i - 1] + k]
  <2>. DEFINE j == (L - i) + 1
  <2>1. /\ j \in 1..L /\ L - i = j - 1 /\ L - (i - 1) = j /\ i - 1 \in 0..L /\ i \in 0..L
        /\ j \in 0..L /\ j - 1 \in 0..L
    BY <1>1
  <2>. HIDE DEF j
  <2>2. s[i] = d[j]
    BY <1>4 DEF j
  <2>3. cut2[i] = cut[j - 1] - c /\ cut2[i - 1] = cut[j] - c
    BY <1>9, <2>1
  <2>4. /\ cut[j - 1] = cut[j] + Len(d[j]) /\ cut[j] \in Nat /\ cut[j - 1] \in 0..N
        /\ Len(d[j]) \in Nat /\ cut[j] >= c
    BY <1>1, <1>3, <1>5, <1>8, <2>1
  <2>5. cut2[i] = cut2[i - 1] + Len(d[j])
    BY <1>7, <2>3, <2>4
  <2>6. ASSUME NEW k \in 1..Len(d[j]) PROVE d[j][k] = w2[cut2[i - 1] + k]
    <3>1. d[j][k] = w[cut[j] + k]
      BY <1>3, <2>1
    <3>2. c + (cut2[i - 1] + k) = cut[j] + k /\ cut2[i - 1] + k \in 1..n
      <4>1. cut2[i - 1] \in Nat /\ cut2[i] \in 0..n
        BY <1>7, <1>9, <2>1
      <4>2. cut2[i - 1] + k \in 1..n
        BY <1>7, <2>4, <2>5, <4>1, Inside
      <4>3. k \in Nat /\ cut2[i - 1] = cut[j] - c /\ cut[j] \in Nat /\ c \in Nat
        BY <1>7, <2>3, <2>4
      <4>. DEFINE a == cut2[i - 1]
                  b == cut[j]
      <4>4. a \in Nat /\ b \in Nat /\ c \in Nat /\ k \in Nat /\ a = b - c
        BY <4>1, <4>3, Zenon
      <4>. HIDE DEF a, b, c
      <4>5. c + (a + k) = b + k
        BY <4>4
      <4>. QED  BY <4>2, <4>5, Zenon DEF a, b
    <3>. QED  BY <1>10, <3>1, <3>2
  <2>. QED  BY <2>2, <2>5, <2>6
<1>21. cut2[0] = 0
  <2>1. 0 \in 0..L /\ L - 0 = L
    BY <1>1
  <2>2. cut2[0] = cut[L - 0] - c
    BY <1>9, <2>1
  <2>. QED  BY <1>7, <2>1, <2>2
<1>20. /\ FlattenSeq(s) \in Seq(Nat) /\ Len(FlattenSeq(s)) = cut2[Len(s)]
       /\ \A k \in 1..cut2[Len(s)] : FlattenSeq(s)[k] = w2[k]
  <2>1. /\ s \in Seq(Seq(Nat)) /\ n \in Nat /\ cut2 \in [0..Len(s) -> 0..n] /\ cut2[0] = 0
        /\ \A k \in 1..n : w2[k] \in Nat
    BY <1>4, <1>7, <1>9, <1>10, <1>21, Zenon
  <2>2. \A i \in 1..Len(s) :
          /\ cut2[i] = cut2[i - 1] + Len(s[i])
          /\ \A k \in 1..Len(s[i]) : s[i][k] = w2[cut2[i - 1] + k]
    BY <1>4, <1>11, Zenon
  <2>3. CutOut(Nat, s, n, w2, cut2)
    BY <2>1, <2>2, Zenon DEF CutOut
  <2>. QED  BY <2>3, Flattening
<1>. DEFINE F == FlattenSeq(s)
            m == cut2[L]
            kept == F \o f.buffer
<1>12. /\ m = cut[0] - c /\ m \in 0..n /\ cut2[0] = 0
  <2>1. L \in 0..L /\ 0 \in 0..L /\ L - L = 0 /\ L - 0 = L
    BY <1>1
  <2>2. cut2[0] = cut[L - 0] - c /\ cut2[L] = cut[L - L] - c /\ cut2[L] \in 0..n
    BY <1>9, <2>1
  <2>. QED  BY <1>7, <2>1, <2>2
<1>13. F \in Seq(Nat) /\ Len(F) = m /\ \A k \in 1..m : F[k] = w2[k]
  BY <1>4, <1>20, Zenon
<1>. HIDE DEF F, m
<1>14. F \in Seq(Nat) /\ Len(F) = m /\ \A k \in 1..m : F[k] = w[c + k]
  <2>1. \A k \in 1..m : k \in 1..n
    BY <1>7, <1>12
  <2>. QED  BY <1>10, <1>13, <2>1, Zenon
<1>15. /\ kept \in Seq(Nat) /\ Len(kept) = m + B
       /\ \A k \in 1..(m + B) : kept[k] = IF k <= m THEN F[k] ELSE f.buffer[k - m]
  BY <1>1, <1>14, Concatenation, Zenon DEF B
<1>. HIDE DEF kept
<1>16. m \in Nat /\ cut[0] \in Nat /\ cut[0] = c + m /\ N = c + (m + B) /\ n = m + B
  <2>1. 0 \in 0..L
    BY <1>1
  <2>2. cut[0] \in Nat /\ m \in Nat /\ cut[0] = c + m
    BY <1>5, <1>7, <1>12, <2>1
  <2>3. N = (c + m) + B
    BY <1>3, <2>2
  <2>4. N = c + (m + B)
    BY <1>1, <1>7, <2>2, <2>3
  <2>. QED  BY <1>1, <1>7, <2>2, <2>4
<1>17. ASSUME NEW k \in 1..(m + B) PROVE kept[k] = w[c + k]
  <2>1. CASE k <= m
    <3>1. k \in 1..m
      BY <1>16, <2>1
    <3>. QED  BY <1>14, <1>15, <2>1, <3>1, Zenon
  <2>2. CASE ~(k <= m)
    <3>1. k - m \in 1..B /\ cut[0] + (k - m) = c + k
      BY <1>1, <1>7, <1>16, <2>2
    <3>. QED  BY <1>3, <1>15, <2>2, <3>1, Zenon
  <2>. QED  BY <2>1, <2>2
<1>18. IsSuffix(kept, w)
  <2>1. Len(w) = c + Len(kept)
    BY <1>15, <1>16, Zenon DEF N
  <2>2. \A k \in 1..Len(kept) : kept[k] = w[c + k]
    BY <1>15, <1>17, Zenon
  <2>. QED  BY <1>7, <1>15, <2>1, <2>2, FromSomewhereOn
<1>19. \/ kept = w
       \/ /\ MaxFileSize > 0 /\ L = MaxRotated + 1
          /\ \A i \in 2..L : f.bytes[i] >= MaxFileSize
  <2>1. CASE c = 0
    <3>1. Len(kept) = Len(w) /\ kept \in Seq(Nat)
      BY <1>7, <1>15, <1>16, <2>1 DEF N
    <3>2. \A k \in 1..Len(kept) : 0 + k = k
      OBVIOUS
    <3>3. \A k \in 1..Len(kept) : kept[k] = w[k]
      BY <1>15, <1>17, <2>1, <3>2, Zenon
    <3>. QED  BY <3>1, <3>3, Alike, Zenon
  <2>2. CASE c # 0
    <3>1. MaxFileSize > 0 /\ L = MaxRotated + 1
      BY <1>3, <2>2
    <3>. QED  BY <3>1 DEF Holds, RotatedAreFull, L
  <2>. QED  BY <2>1, <2>2
<1>. QED  BY <1>18, <1>19 DEF kept, F, s, d, L

\* The files hold the latest lines of every name, in order and as many as the limits
\* on size and number leave room for, whatever is rotated, closed or cannot be opened.
THEOREM LatestLinesKept == LSpec => []RecentLinesKept
<1>1. LInit => AllHold
  BY NoFileHolds DEF LInit, WriterInit, AllHold
<1>2. LogInv => FilesInv /\ ThreadsTyped
  BY DEF LogInv
<1>3. FilesInv /\ AllHold => RecentLinesKept
  <2>. SUFFICES ASSUME FilesInv, AllHold, NEW p \in Profiles, NEW n \in Names
       PROVE  /\ IsSuffix(Kept(p, n), written[p][n])
              /\ \/ Kept(p, n) = written[p][n]
                 \/ /\ MaxFileSize > 0 /\ Len(files[p][n].disk) = MaxRotated + 1
                    /\ \A i \in 2..Len(files[p][n].disk) : files[p][n].bytes[i] >= MaxFileSize
    BY DEF RecentLinesKept
  <2>1. Sound(files[p][n]) /\ written[p][n] \in Seq(Nat) /\ Holds(files[p][n], written[p][n])
    BY DEF FilesInv, FilesSound, AllHold
  <2>. QED  BY <2>1, HoldsLatest, Zenon DEF Kept
<1>. QED  BY <1>1, <1>2, <1>3, HoldStep, LogInvariant, PTL DEF LSpec
=============================================================================
