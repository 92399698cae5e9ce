------------------------ MODULE ProcessManagerProofs ------------------------
(***************************************************************************)
(* Proofs about ProcessManager, for any entries, any number of forks and   *)
(* of calling threads, and any restart policies.  IInv is inductive: one   *)
(* lemma per action, one step per conjunct the action disturbs; the        *)
(* conjuncts none of whose variables it changes go together.  The theorems *)
(* at the end follow from it.                                              *)
(***************************************************************************)
EXTENDS ProcessManager, TLAPS

USE PolicyAssumption, DistinctAssumption
    DEF Threads, States, OsStates, WaiterSteps, ReaderSteps, HandleStates,
        ScanSteps, StopSteps, ThreadSteps, childVars, objectVars, localVars, Active

-----------------------------------------------------------------------------
\* A call of start only hands its thread the names to start.
LEMMA CallStartPreserves ==
  ASSUME IInv, NEW t \in Callers, NEW ns \in SUBSET Names, CallStart(t, ns)
  PROVE  IInv'
<1>1. TypeOK'
  BY DEF CallStart, Free, IInv, TypeOK
<1>2. ChildInv' /\ HandleInv' /\ UnaskedExitReported'
  BY DEF CallStart, Free, Alive, IInv, ChildInv, HandleInv,
     UnaskedExitReported
<1>3. RestartInv'
  BY DEF CallStart, Free, IInv, TypeOK, RestartDue, RestartInv
<1>4. ThreadInv'
  BY DEF CallStart, Free, IInv, TypeOK, ThreadInv
<1>5. JoinInv'
  BY DEF CallStart, Free, IInv, TypeOK, JoinInv
<1>6. MapInv'
  BY DEF CallStart, Free, IInv, TypeOK, MapInv
<1>. QED  BY <1>1, <1>2, <1>3, <1>4, <1>5, <1>6 DEF IInv

\* Refusing an entry that is already running touches no object.
LEMMA RefuseStartPreserves ==
  ASSUME IInv, NEW t \in Threads, NEW n \in Names, RefuseStart(t, n)
  PROVE  IInv'
<1>1. TypeOK'
  BY DEF RefuseStart, AfterStop, RunsAs, Active, IInv, TypeOK
<1>2. ChildInv' /\ HandleInv' /\ UnaskedExitReported'
  BY DEF RefuseStart, AfterStop, RunsAs, Alive, Active, IInv, ChildInv,
     HandleInv, UnaskedExitReported
<1>3. RestartInv'
  BY DEF RefuseStart, AfterStop, RunsAs, Active, IInv, TypeOK, RestartDue, RestartInv
<1>4. ThreadInv'
  BY DEF RefuseStart, AfterStop, RunsAs, Active, IInv, TypeOK, ThreadInv
<1>5. JoinInv'
  BY DEF RefuseStart, AfterStop, RunsAs, Active, IInv, TypeOK, JoinInv
<1>6. MapInv'
  BY DEF RefuseStart, AfterStop, RunsAs, Active, IInv, TypeOK, MapInv
<1>. QED  BY <1>1, <1>2, <1>3, <1>4, <1>5, <1>6 DEF IInv

\* Accepting an entry touches no object either: fork comes later.
LEMMA AcceptStartPreserves ==
  ASSUME IInv, NEW t \in Threads, NEW n \in Names, AcceptStart(t, n)
  PROVE  IInv'
<1>1. TypeOK'
  BY DEF AcceptStart, RunsAs, Active, IInv, TypeOK
<1>2. ChildInv' /\ HandleInv' /\ UnaskedExitReported'
  BY DEF AcceptStart, RunsAs, Alive, Active, IInv, ChildInv, HandleInv,
     UnaskedExitReported
<1>3. RestartInv'
  BY DEF AcceptStart, RunsAs, Active, IInv, TypeOK, RestartDue, RestartInv
<1>4. ThreadInv'
  <2>. USE DEF IInv, TypeOK
  <2>1. procs[n] # NoProc => os[procs[n]] # "unborn" /\ ~Active(procs[n])
    BY DEF AcceptStart, RunsAs, MapInv
  <2>2. /\ UNCHANGED <<cur, todo, toStop, os, name, waiter, shuttingDown>>
        /\ pc' = [pc EXCEPT ![t] = "fork"] /\ seen' = [seen EXCEPT ![t] = procs[n]]
        /\ entry' = [entry EXCEPT ![t] = n] /\ pc[t] = "check"
    BY DEF AcceptStart
  <2>. QED  BY <2>1, <2>2 DEF ThreadInv
<1>5. JoinInv'
  BY DEF AcceptStart, RunsAs, Active, IInv, TypeOK, JoinInv
<1>6. MapInv'
  BY DEF AcceptStart, RunsAs, Active, IInv, TypeOK, MapInv
<1>. QED  BY <1>1, <1>2, <1>3, <1>4, <1>5, <1>6 DEF IInv

\* fork brings up an object nothing refers to yet: an unborn p has no wait
\* thread (ChildInv), and no thread's locals name it (ThreadInv).
LEMMA ForkPreserves ==
  ASSUME IInv, NEW t \in Threads, NEW p \in Procs, Fork(t, p)
  PROVE  IInv'
<1>1. TypeOK'
  BY DEF Fork, IInv, TypeOK
<1>2. ChildInv'
  BY DEF Fork, Alive, IInv, TypeOK, ChildInv, ThreadInv
<1>3. HandleInv'
  BY DEF Fork, IInv, TypeOK, HandleInv
<1>4. RestartInv'
  BY DEF Fork, Alive, IInv, TypeOK, ChildInv, RestartDue, RestartInv
<1>5. UnaskedExitReported'
  BY DEF Fork, IInv, TypeOK, UnaskedExitReported
<1>6. ThreadInv'
  BY DEF Fork, IInv, TypeOK, ThreadInv
<1>7. JoinInv'
  BY DEF Fork, IInv, TypeOK, ThreadInv, JoinInv
<1>8. MapInv'
  BY DEF Fork, IInv, TypeOK, MapInv
<1>. QED  BY <1>1, <1>2, <1>3, <1>4, <1>5, <1>6, <1>7, <1>8 DEF IInv

\* A fork that failed leaves nothing behind.
LEMMA ForkFailsPreserves ==
  ASSUME IInv, NEW t \in Threads, ForkFails(t)
  PROVE  IInv'
<1>1. TypeOK'
  BY DEF ForkFails, AfterStop, IInv, TypeOK
<1>2. ChildInv' /\ HandleInv' /\ UnaskedExitReported'
  BY DEF ForkFails, AfterStop, Alive, IInv, ChildInv, HandleInv,
     UnaskedExitReported
<1>3. RestartInv'
  BY DEF ForkFails, AfterStop, IInv, TypeOK, RestartDue, RestartInv
<1>4. ThreadInv'
  BY DEF ForkFails, AfterStop, IInv, TypeOK, ThreadInv
<1>5. JoinInv'
  BY DEF ForkFails, AfterStop, IInv, TypeOK, JoinInv
<1>6. MapInv'
  BY DEF ForkFails, AfterStop, IInv, TypeOK, MapInv
<1>. QED  BY <1>1, <1>2, <1>3, <1>4, <1>5, <1>6 DEF IInv

\* procs_[name] = proc registers an object that was forked under that name
\* (ThreadInv), so MapInv survives.
LEMMA PublishPreserves ==
  ASSUME IInv, NEW t \in Threads, Publish(t)
  PROVE  IInv'
<1>1. TypeOK'
  BY DEF Publish, AfterStop, IInv, TypeOK, ThreadInv
<1>2. ChildInv' /\ HandleInv' /\ UnaskedExitReported'
  BY DEF Publish, AfterStop, Alive, IInv, ChildInv, HandleInv,
     UnaskedExitReported
<1>3. RestartInv'
  BY DEF Publish, AfterStop, IInv, TypeOK, RestartDue, RestartInv
<1>4. ThreadInv'
  BY DEF Publish, AfterStop, IInv, TypeOK, ThreadInv
<1>5. JoinInv'
  BY DEF Publish, AfterStop, IInv, TypeOK, JoinInv
<1>6. MapInv'
  BY DEF Publish, AfterStop, IInv, TypeOK, ThreadInv, MapInv
<1>. QED  BY <1>1, <1>2, <1>3, <1>4, <1>5, <1>6 DEF IInv

\* A call of stop or restart only notes the name.
LEMMA BeginStopPreserves ==
  ASSUME IInv, NEW t \in Callers, NEW n \in Names, NEW w \in SUBSET Names, BeginStop(t, n, w)
  PROVE  IInv'
<1>1. TypeOK'
  BY DEF BeginStop, Free, IInv, TypeOK
<1>2. ChildInv' /\ HandleInv' /\ UnaskedExitReported'
  BY DEF BeginStop, Free, Alive, IInv, ChildInv, HandleInv,
     UnaskedExitReported
<1>3. RestartInv'
  BY DEF BeginStop, Free, IInv, TypeOK, RestartDue, RestartInv
<1>4. ThreadInv'
  BY DEF BeginStop, Free, IInv, TypeOK, ThreadInv
<1>5. JoinInv'
  BY DEF BeginStop, Free, IInv, TypeOK, JoinInv
<1>6. MapInv'
  BY DEF BeginStop, Free, IInv, TypeOK, MapInv
<1>. QED  BY <1>1, <1>2, <1>3, <1>4, <1>5, <1>6 DEF IInv

\* Looking up an unknown name ends the operation.
LEMMA FindAbsentPreserves ==
  ASSUME IInv, NEW t \in Threads, FindAbsent(t)
  PROVE  IInv'
<1>1. TypeOK'
  BY DEF FindAbsent, IInv, TypeOK
<1>2. ChildInv' /\ HandleInv' /\ UnaskedExitReported'
  BY DEF FindAbsent, Alive, IInv, ChildInv, HandleInv, UnaskedExitReported
<1>3. RestartInv'
  BY DEF FindAbsent, IInv, TypeOK, RestartDue, RestartInv
<1>4. ThreadInv'
  BY DEF FindAbsent, IInv, TypeOK, ThreadInv
<1>5. JoinInv'
  BY DEF FindAbsent, IInv, TypeOK, JoinInv
<1>6. MapInv'
  BY DEF FindAbsent, IInv, TypeOK, MapInv
<1>. QED  BY <1>1, <1>2, <1>3, <1>4, <1>5, <1>6 DEF IInv

\* What the lookup finds was forked (MapInv), so it may be stopped.
LEMMA FindPresentPreserves ==
  ASSUME IInv, NEW t \in Threads, FindPresent(t)
  PROVE  IInv'
<1>1. TypeOK'
  BY DEF FindPresent, IInv, TypeOK, ThreadInv
<1>2. ChildInv' /\ HandleInv' /\ UnaskedExitReported'
  BY DEF FindPresent, Alive, IInv, ChildInv, HandleInv, UnaskedExitReported
<1>3. RestartInv'
  BY DEF FindPresent, IInv, TypeOK, RestartDue, RestartInv
<1>4. ThreadInv'
  BY DEF FindPresent, IInv, TypeOK, ThreadInv, MapInv
<1>5. JoinInv'
  BY DEF FindPresent, IInv, TypeOK, JoinInv
<1>6. MapInv'
  BY DEF FindPresent, IInv, TypeOK, MapInv
<1>. QED  BY <1>1, <1>2, <1>3, <1>4, <1>5, <1>6 DEF IInv

\* stopAll takes mutex_ and visits what procs_ holds, all of it forked (MapInv).
LEMMA CallStopAllPreserves ==
  ASSUME IInv, NEW t \in Callers, CallStopAll(t)
  PROVE  IInv'
<1>1. TypeOK'
  BY DEF CallStopAll, Free, Range, IInv, TypeOK
<1>2. ChildInv' /\ HandleInv' /\ UnaskedExitReported'
  BY DEF CallStopAll, Free, Range, Alive, IInv, ChildInv, HandleInv,
     UnaskedExitReported
<1>3. RestartInv'
  BY DEF CallStopAll, Free, Range, IInv, TypeOK, RestartDue, RestartInv
<1>4. ThreadInv'
  BY DEF CallStopAll, Free, Range, IInv, TypeOK, ThreadInv, MapInv
<1>5. JoinInv'
  BY DEF CallStopAll, Free, Range, IInv, TypeOK, JoinInv
<1>6. MapInv'
  BY DEF CallStopAll, Free, Range, IInv, TypeOK, MapInv
<1>. QED  BY <1>1, <1>2, <1>3, <1>4, <1>5, <1>6 DEF IInv

\* An inactive object is passed over.
LEMMA ScanInactivePreserves ==
  ASSUME IInv, NEW t \in Threads, NEW p \in Procs, ScanInactive(t, p)
  PROVE  IInv'
<1>1. TypeOK'
  BY DEF ScanInactive, Active, IInv, TypeOK
<1>2. ChildInv' /\ HandleInv' /\ RestartInv' /\ UnaskedExitReported' /\ MapInv'
  BY DEF ScanInactive, Active, Alive, IInv, ChildInv, HandleInv, RestartDue, RestartInv,
     UnaskedExitReported, MapInv
<1>3. ThreadInv'
  BY DEF ScanInactive, Active, IInv, TypeOK, ThreadInv
<1>4. JoinInv'
  BY DEF ScanInactive, Active, IInv, TypeOK, JoinInv
<1>. QED  BY <1>1, <1>2, <1>3, <1>4 DEF IInv

\* An active object joins those this call must see the end of.
LEMMA ScanActivePreserves ==
  ASSUME IInv, NEW t \in Threads, NEW p \in Procs, ScanActive(t, p)
  PROVE  IInv'
<1>1. TypeOK'
  BY DEF ScanActive, Active, IInv, TypeOK
<1>2. ChildInv' /\ HandleInv' /\ UnaskedExitReported'
  BY DEF ScanActive, Active, Alive, IInv, ChildInv, HandleInv,
     UnaskedExitReported
<1>3. RestartInv'
  BY DEF ScanActive, Active, IInv, TypeOK, RestartDue, RestartInv
<1>4. ThreadInv'
  BY DEF ScanActive, Active, IInv, TypeOK, ThreadInv
<1>5. JoinInv'
  BY DEF ScanActive, Active, IInv, TypeOK, JoinInv
<1>6. MapInv'
  BY DEF ScanActive, Active, IInv, TypeOK, MapInv
<1>. QED  BY <1>1, <1>2, <1>3, <1>4, <1>5, <1>6 DEF IInv

\* shutting_down is only ever raised.
LEMMA MarkShutdownPreserves ==
  ASSUME IInv, NEW t \in Threads, MarkShutdown(t)
  PROVE  IInv'
<1>1. TypeOK'
  BY DEF MarkShutdown, IInv, TypeOK, ThreadInv
<1>2. ChildInv' /\ HandleInv'
  BY DEF MarkShutdown, Alive, IInv, ChildInv, HandleInv
<1>3. RestartInv'
  BY DEF MarkShutdown, IInv, TypeOK, RestartDue, RestartInv
<1>4. UnaskedExitReported'
  BY DEF MarkShutdown, IInv, TypeOK, UnaskedExitReported
<1>5. ThreadInv'
  BY DEF MarkShutdown, IInv, TypeOK, ThreadInv
<1>6. JoinInv'
  BY DEF MarkShutdown, IInv, TypeOK, JoinInv
<1>7. MapInv'
  BY DEF MarkShutdown, IInv, TypeOK, MapInv
<1>. QED  BY <1>1, <1>2, <1>3, <1>4, <1>5, <1>6, <1>7 DEF IInv

\* state = Stopping is stored after shutting_down was raised (ThreadInv), so an
\* object nobody marked never shows it.
LEMMA MarkStoppingPreserves ==
  ASSUME IInv, NEW t \in Threads, MarkStopping(t)
  PROVE  IInv'
<1>1. TypeOK'
  BY DEF MarkStopping, IInv, TypeOK, ThreadInv
<1>2. ChildInv' /\ HandleInv'
  BY DEF MarkStopping, Alive, IInv, ChildInv, HandleInv
<1>3. RestartInv'
  BY DEF MarkStopping, IInv, TypeOK, RestartDue, RestartInv, ThreadInv
<1>4. UnaskedExitReported'
  BY DEF MarkStopping, IInv, TypeOK, UnaskedExitReported, ThreadInv
<1>5. ThreadInv'
  BY DEF MarkStopping, IInv, TypeOK, ThreadInv
<1>6. JoinInv'
  BY DEF MarkStopping, IInv, TypeOK, JoinInv
<1>7. MapInv'
  BY DEF MarkStopping, IInv, TypeOK, MapInv
<1>. QED  BY <1>1, <1>2, <1>3, <1>4, <1>5, <1>6, <1>7 DEF IInv

\* stopAll releases mutex_ as it leaves the scan.
LEMMA EndScanPreserves ==
  ASSUME IInv, NEW t \in Threads, EndScan(t)
  PROVE  IInv'
<1>1. TypeOK'
  BY DEF EndScan, IInv, TypeOK
<1>2. ChildInv' /\ HandleInv' /\ UnaskedExitReported'
  BY DEF EndScan, Alive, IInv, ChildInv, HandleInv, UnaskedExitReported
<1>3. RestartInv'
  BY DEF EndScan, IInv, TypeOK, RestartDue, RestartInv
<1>4. ThreadInv'
  BY DEF EndScan, IInv, TypeOK, ThreadInv
<1>5. JoinInv'
  BY DEF EndScan, IInv, TypeOK, JoinInv
<1>6. MapInv'
  BY DEF EndScan, IInv, TypeOK, MapInv
<1>. QED  BY <1>1, <1>2, <1>3, <1>4, <1>5, <1>6 DEF IInv

\* SIGKILL changes a living child only.
LEMMA KillPreserves ==
  ASSUME IInv, NEW t \in Threads, NEW p \in Procs, Kill(t, p)
  PROVE  IInv'
<1>1. TypeOK'
  BY DEF Kill, Active, IInv, TypeOK
<1>2. HandleInv' /\ UnaskedExitReported'
  BY DEF Kill, Active, IInv, HandleInv, UnaskedExitReported
<1>3. ChildInv'
  BY DEF Kill, Active, Alive, IInv, TypeOK, ChildInv
<1>4. RestartInv'
  BY DEF Kill, Active, IInv, TypeOK, RestartDue, RestartInv
<1>5. ThreadInv'
  BY DEF Kill, Active, IInv, TypeOK, ThreadInv
<1>6. JoinInv'
  BY DEF Kill, Active, IInv, TypeOK, JoinInv
<1>7. MapInv'
  BY DEF Kill, Active, IInv, TypeOK, MapInv
<1>. QED  BY <1>1, <1>2, <1>3, <1>4, <1>5, <1>6, <1>7 DEF IInv

\* The join loop starts with every object still to be joined.
LEMMA EndKillPreserves ==
  ASSUME IInv, NEW t \in Threads, EndKill(t)
  PROVE  IInv'
<1>1. TypeOK'
  BY DEF EndKill, IInv, TypeOK
<1>2. ChildInv' /\ HandleInv' /\ UnaskedExitReported'
  BY DEF EndKill, Alive, IInv, ChildInv, HandleInv, UnaskedExitReported
<1>3. RestartInv'
  BY DEF EndKill, IInv, TypeOK, RestartDue, RestartInv
<1>4. ThreadInv'
  BY DEF EndKill, IInv, TypeOK, ThreadInv
<1>5. JoinInv'
  BY DEF EndKill, IInv, TypeOK, JoinInv
<1>6. MapInv'
  BY DEF EndKill, IInv, TypeOK, MapInv
<1>. QED  BY <1>1, <1>2, <1>3, <1>4, <1>5, <1>6 DEF IInv

\* The wait thread is joined, or found joined, before the reader (JoinInv).
LEMMA JoinWaitThreadPreserves ==
  ASSUME IInv, NEW t \in Threads, NEW p \in Procs, JoinWaitThread(t, p)
  PROVE  IInv'
<1>1. TypeOK'
  <2>1. CASE waitThread[p] = "joinable"
    <3>1. /\ waitThread' = [waitThread EXCEPT ![p] = "joining"]
          /\ pc' = [pc EXCEPT ![t] = "joinWait"]
      BY <2>1 DEF JoinWaitThread
    <3>. QED  BY <3>1 DEF JoinWaitThread, IInv, TypeOK
  <2>2. CASE waitThread[p] = "joined"
    <3>1. /\ waitThread' = waitThread
          /\ pc' = [pc EXCEPT ![t] = "joinReader"]
      BY <2>2 DEF JoinWaitThread
    <3>. QED  BY <3>1 DEF JoinWaitThread, IInv, TypeOK
  <2>. QED BY <2>1, <2>2 DEF JoinWaitThread
<1>2. ChildInv' /\ UnaskedExitReported'
  BY DEF JoinWaitThread, Alive, IInv, ChildInv, UnaskedExitReported
<1>3. HandleInv'
  BY DEF JoinWaitThread, IInv, TypeOK, HandleInv
<1>4. RestartInv'
  BY DEF JoinWaitThread, IInv, TypeOK, RestartDue, RestartInv
<1>5. ThreadInv'
  BY DEF JoinWaitThread, IInv, TypeOK, ThreadInv
<1>6. JoinInv'
  BY DEF JoinWaitThread, IInv, TypeOK, ThreadInv, JoinInv
<1>7. MapInv'
  BY DEF JoinWaitThread, IInv, TypeOK, MapInv
<1>. QED  BY <1>1, <1>2, <1>3, <1>4, <1>5, <1>6, <1>7 DEF IInv

\* join() returns once the wait thread is done.
LEMMA WaitThreadJoinedPreserves ==
  ASSUME IInv, NEW t \in Threads, WaitThreadJoined(t)
  PROVE  IInv'
<1>1. TypeOK'
  BY DEF WaitThreadJoined, IInv, TypeOK, ThreadInv
<1>2. ChildInv' /\ UnaskedExitReported'
  BY DEF WaitThreadJoined, Alive, IInv, ChildInv, UnaskedExitReported
<1>3. HandleInv'
  BY DEF WaitThreadJoined, IInv, TypeOK, HandleInv
<1>4. RestartInv'
  BY DEF WaitThreadJoined, IInv, TypeOK, RestartDue, RestartInv
<1>5. ThreadInv'
  BY DEF WaitThreadJoined, IInv, TypeOK, ThreadInv
<1>6. JoinInv'
  BY DEF WaitThreadJoined, IInv, TypeOK, ThreadInv, JoinInv
<1>7. MapInv'
  BY DEF WaitThreadJoined, IInv, TypeOK, MapInv
<1>. QED  BY <1>1, <1>2, <1>3, <1>4, <1>5, <1>6, <1>7 DEF IInv

\* The reader thread is joined, or found joined, after the wait thread.
LEMMA JoinReaderPreserves ==
  ASSUME IInv, NEW t \in Threads, JoinReader(t)
  PROVE  IInv'
<1>1. TypeOK'
  <2>1. CASE readerThread[cur[t]] = "joinable"
    <3>1. /\ readerThread' = [readerThread EXCEPT ![cur[t]] = "joining"]
          /\ pc' = [pc EXCEPT ![t] = "inReader"] /\ cur' = cur
      BY <2>1 DEF JoinReader
    <3>. QED  BY <3>1 DEF JoinReader, IInv, TypeOK
  <2>2. CASE readerThread[cur[t]] = "joined"
    <3>1. /\ readerThread' = readerThread
          /\ pc' = [pc EXCEPT ![t] = "join"] /\ cur' = [cur EXCEPT ![t] = NoProc]
      BY <2>2 DEF JoinReader
    <3>. QED  BY <3>1 DEF JoinReader, IInv, TypeOK
  <2>. QED BY <2>1, <2>2 DEF JoinReader
<1>2. ChildInv' /\ UnaskedExitReported'
  BY DEF JoinReader, Alive, IInv, ChildInv, UnaskedExitReported
<1>3. HandleInv'
  BY DEF JoinReader, IInv, TypeOK, HandleInv
<1>4. RestartInv'
  BY DEF JoinReader, IInv, TypeOK, RestartDue, RestartInv
<1>5. ThreadInv'
  BY DEF JoinReader, IInv, TypeOK, ThreadInv
<1>6. JoinInv'
  BY DEF JoinReader, IInv, TypeOK, JoinInv
<1>7. MapInv'
  BY DEF JoinReader, IInv, TypeOK, MapInv
<1>. QED  BY <1>1, <1>2, <1>3, <1>4, <1>5, <1>6, <1>7 DEF IInv

\* join() returns once the reader is done; the object's turn is over.
LEMMA ReaderJoinedPreserves ==
  ASSUME IInv, NEW t \in Threads, ReaderJoined(t)
  PROVE  IInv'
<1>1. TypeOK'
  BY DEF ReaderJoined, IInv, TypeOK, ThreadInv
<1>2. ChildInv' /\ UnaskedExitReported'
  BY DEF ReaderJoined, Alive, IInv, ChildInv, UnaskedExitReported
<1>3. HandleInv'
  BY DEF ReaderJoined, IInv, TypeOK, HandleInv
<1>4. RestartInv'
  BY DEF ReaderJoined, IInv, TypeOK, RestartDue, RestartInv
<1>5. ThreadInv'
  BY DEF ReaderJoined, IInv, TypeOK, ThreadInv
<1>6. JoinInv'
  BY DEF ReaderJoined, IInv, TypeOK, JoinInv
<1>7. MapInv'
  BY DEF ReaderJoined, IInv, TypeOK, MapInv
<1>. QED  BY <1>1, <1>2, <1>3, <1>4, <1>5, <1>6, <1>7 DEF IInv

\* The exception leaves the operation with nothing at hand.
LEMMA JoinThrowsPreserves ==
  ASSUME IInv, NEW t \in Threads, JoinThrows(t)
  PROVE  IInv'
<1>1. TypeOK'
  BY DEF JoinThrows, IInv, TypeOK
<1>2. ChildInv' /\ HandleInv' /\ UnaskedExitReported'
  BY DEF JoinThrows, Alive, IInv, ChildInv, HandleInv, UnaskedExitReported
<1>3. RestartInv'
  BY DEF JoinThrows, IInv, TypeOK, RestartDue, RestartInv
<1>4. ThreadInv'
  BY DEF JoinThrows, IInv, TypeOK, ThreadInv
<1>5. JoinInv'
  BY DEF JoinThrows, IInv, TypeOK, JoinInv
<1>6. MapInv'
  BY DEF JoinThrows, IInv, TypeOK, MapInv
<1>. QED  BY <1>1, <1>2, <1>3, <1>4, <1>5, <1>6 DEF IInv

\* The operation returns with nothing at hand.
LEMMA EndStopPreserves ==
  ASSUME IInv, NEW t \in Threads, EndStop(t)
  PROVE  IInv'
<1>1. TypeOK'
  BY DEF EndStop, AfterStop, IInv, TypeOK
<1>2. ChildInv' /\ HandleInv' /\ UnaskedExitReported'
  BY DEF EndStop, AfterStop, Alive, IInv, ChildInv, HandleInv,
     UnaskedExitReported
<1>3. RestartInv'
  BY DEF EndStop, AfterStop, IInv, TypeOK, RestartDue, RestartInv
<1>4. ThreadInv'
  BY DEF EndStop, AfterStop, IInv, TypeOK, ThreadInv
<1>5. JoinInv'
  BY DEF EndStop, AfterStop, IInv, TypeOK, JoinInv
<1>6. MapInv'
  BY DEF EndStop, AfterStop, IInv, TypeOK, MapInv
<1>. QED  BY <1>1, <1>2, <1>3, <1>4, <1>5, <1>6 DEF IInv

\* A living child is still waited for (ChildInv), so its exit status is set
\* before anything was derived from it.
LEMMA ChildExitsPreserves ==
  ASSUME IInv, NEW p \in Procs, NEW e \in {"clean", "failure"}, ChildExits(p, e)
  PROVE  IInv'
<1>1. TypeOK'
  BY DEF ChildExits, IInv, TypeOK
<1>2. HandleInv' /\ JoinInv'
  BY DEF ChildExits, IInv, HandleInv, JoinInv
<1>3. ChildInv'
  BY DEF ChildExits, Alive, IInv, TypeOK, ChildInv
<1>4. RestartInv'
  BY DEF ChildExits, Alive, IInv, TypeOK, ChildInv, RestartDue, RestartInv
<1>5. UnaskedExitReported'
  <2>1. waiter[p] = "waitpid"
    BY DEF ChildExits, IInv, ChildInv
  <2>2. /\ UNCHANGED <<waiter, shuttingDown, state>>
        /\ \A q \in Procs \ {p} : exit'[q] = exit[q]
    BY DEF ChildExits, IInv, TypeOK
  <2>. QED  BY <2>1, <2>2 DEF IInv, UnaskedExitReported
<1>6. ThreadInv'
  BY DEF ChildExits, IInv, TypeOK, ThreadInv
<1>7. MapInv'
  BY DEF ChildExits, IInv, TypeOK, MapInv
<1>. QED  BY <1>1, <1>2, <1>3, <1>4, <1>5, <1>6, <1>7 DEF IInv

\* The pipe is the reader's business only.
LEMMA LetGoPreserves ==
  ASSUME IInv, NEW p \in Procs, LetGo(p)
  PROVE  IInv'
<1>1. TypeOK'
  BY DEF LetGo, IInv, TypeOK
<1>2. HandleInv' /\ RestartInv' /\ UnaskedExitReported' /\ ThreadInv' /\ JoinInv' /\ MapInv'
  BY DEF LetGo, IInv, HandleInv, RestartDue, RestartInv, UnaskedExitReported, ThreadInv,
     JoinInv, MapInv
<1>3. ChildInv'
  BY DEF LetGo, IInv, TypeOK, ChildInv
<1>. QED  BY <1>1, <1>2, <1>3 DEF IInv

\* The reader ends at the end of file or after its child; it closes the pipe.
LEMMA ReaderEndsPreserves ==
  ASSUME IInv, NEW p \in Procs, ReaderEnds(p)
  PROVE  IInv'
<1>1. TypeOK'
  BY DEF ReaderEnds, IInv, TypeOK
<1>2. RestartInv' /\ UnaskedExitReported' /\ ThreadInv' /\ JoinInv' /\ MapInv'
  BY DEF ReaderEnds, IInv, RestartDue, RestartInv, UnaskedExitReported, ThreadInv,
     JoinInv, MapInv
<1>3. ChildInv'
  BY DEF ReaderEnds, IInv, TypeOK, ChildInv
<1>4. HandleInv'
  BY DEF ReaderEnds, IInv, TypeOK, HandleInv
<1>. QED  BY <1>1, <1>2, <1>3, <1>4 DEF IInv

\* waitpid reaps a zombie.
LEMMA WaitPidPreserves ==
  ASSUME IInv, NEW p \in Procs, WaitPid(p)
  PROVE  IInv'
<1>1. TypeOK'
  BY DEF WaitPid, IInv, TypeOK
<1>2. JoinInv'
  BY DEF WaitPid, IInv, JoinInv
<1>3. ChildInv'
  BY DEF WaitPid, Alive, IInv, TypeOK, ChildInv
<1>4. HandleInv'
  BY DEF WaitPid, IInv, TypeOK, HandleInv
<1>5. RestartInv'
  BY DEF WaitPid, IInv, TypeOK, RestartDue, RestartInv
<1>6. UnaskedExitReported'
  BY DEF WaitPid, IInv, TypeOK, UnaskedExitReported
<1>7. ThreadInv'
  BY DEF WaitPid, IInv, TypeOK, ThreadInv
<1>8. MapInv'
  BY DEF WaitPid, IInv, TypeOK, MapInv
<1>. QED  BY <1>1, <1>2, <1>3, <1>4, <1>5, <1>6, <1>7, <1>8 DEF IInv

\* active = false changes the wait thread's position only.
LEMMA DeactivatePreserves ==
  ASSUME IInv, NEW p \in Procs, Deactivate(p)
  PROVE  IInv'
<1>1. TypeOK'
  BY DEF Deactivate, WaiterGoes, IInv, TypeOK
<1>2. ThreadInv' /\ JoinInv' /\ MapInv'
  BY DEF Deactivate, WaiterGoes, IInv, TypeOK, ThreadInv, JoinInv, MapInv
<1>3. ChildInv'
  BY DEF Deactivate, WaiterGoes, Alive, IInv, TypeOK, ChildInv
<1>4. HandleInv'
  BY DEF Deactivate, WaiterGoes, IInv, TypeOK, HandleInv
<1>5. RestartInv'
  BY DEF Deactivate, WaiterGoes, IInv, TypeOK, RestartDue, RestartInv
<1>6. UnaskedExitReported'
  BY DEF Deactivate, WaiterGoes, IInv, TypeOK, UnaskedExitReported
<1>. QED  BY <1>1, <1>2, <1>3, <1>4, <1>5, <1>6 DEF IInv

\* Stopping is found only on an object that was marked (RestartInv).
LEMMA LoadStatePreserves ==
  ASSUME IInv, NEW p \in Procs, LoadState(p)
  PROVE  IInv'
<1>1. TypeOK'
  BY DEF LoadState, WaiterGoes, IInv, TypeOK
<1>2. ThreadInv' /\ JoinInv' /\ MapInv'
  BY DEF LoadState, WaiterGoes, IInv, TypeOK, ThreadInv, JoinInv, MapInv
<1>3. ChildInv'
  BY DEF LoadState, WaiterGoes, Alive, IInv, TypeOK, ChildInv
<1>4. HandleInv'
  BY DEF LoadState, WaiterGoes, IInv, TypeOK, HandleInv
<1>5. RestartInv'
  BY DEF LoadState, WaiterGoes, IInv, TypeOK, RestartDue, RestartInv
<1>6. UnaskedExitReported'
  BY DEF LoadState, WaiterGoes, IInv, TypeOK, UnaskedExitReported
<1>. QED  BY <1>1, <1>2, <1>3, <1>4, <1>5, <1>6 DEF IInv

\* The stored state follows the exit status unless the object was marked
\* (RestartInv).
LEMMA StoreStatePreserves ==
  ASSUME IInv, NEW p \in Procs, StoreState(p)
  PROVE  IInv'
<1>1. TypeOK'
  BY DEF StoreState, FinalState, IInv, TypeOK
<1>2. ThreadInv' /\ JoinInv' /\ MapInv'
  BY DEF StoreState, FinalState, IInv, TypeOK, ThreadInv, JoinInv, MapInv
<1>3. ChildInv'
  BY DEF StoreState, FinalState, Alive, IInv, TypeOK, ChildInv
<1>4. HandleInv'
  BY DEF StoreState, FinalState, IInv, TypeOK, HandleInv
<1>5. RestartInv'
  BY DEF StoreState, FinalState, Alive, IInv, TypeOK, ChildInv, RestartDue, RestartInv
<1>6. UnaskedExitReported'
  BY DEF StoreState, FinalState, IInv, TypeOK, RestartDue, RestartInv, UnaskedExitReported
<1>. QED  BY <1>1, <1>2, <1>3, <1>4, <1>5, <1>6 DEF IInv

\* Reading shutting_down changes the wait thread's position only.
LEMMA ReadShutdownPreserves ==
  ASSUME IInv, NEW p \in Procs, ReadShutdown(p)
  PROVE  IInv'
<1>1. TypeOK'
  BY DEF ReadShutdown, WaiterGoes, IInv, TypeOK
<1>2. ThreadInv' /\ JoinInv' /\ MapInv'
  BY DEF ReadShutdown, WaiterGoes, IInv, TypeOK, ThreadInv, JoinInv, MapInv
<1>3. ChildInv'
  BY DEF ReadShutdown, WaiterGoes, Alive, IInv, TypeOK, ChildInv
<1>4. HandleInv'
  BY DEF ReadShutdown, WaiterGoes, IInv, TypeOK, HandleInv
<1>5. RestartInv'
  BY DEF ReadShutdown, WaiterGoes, IInv, TypeOK, RestartDue, RestartInv
<1>6. UnaskedExitReported'
  BY DEF ReadShutdown, WaiterGoes, IInv, TypeOK, UnaskedExitReported
<1>. QED  BY <1>1, <1>2, <1>3, <1>4, <1>5, <1>6 DEF IInv

\* A restart is decided on only as the policy allows: Crashed means that the
\* child failed (RestartInv).
LEMMA ApplyPolicyPreserves ==
  ASSUME IInv, NEW p \in Procs, ApplyPolicy(p)
  PROVE  IInv'
<1>1. TypeOK'
  BY DEF ApplyPolicy, WaiterGoes, ShouldRestart, IInv, TypeOK
<1>2. ThreadInv' /\ JoinInv' /\ MapInv'
  BY DEF ApplyPolicy, WaiterGoes, ShouldRestart, IInv, TypeOK, ThreadInv, JoinInv,
     MapInv
<1>3. ChildInv'
  BY DEF ApplyPolicy, WaiterGoes, ShouldRestart, Alive, IInv, TypeOK, ChildInv
<1>4. HandleInv'
  BY DEF ApplyPolicy, WaiterGoes, ShouldRestart, IInv, TypeOK, HandleInv
<1>5. RestartInv'
  BY DEF ApplyPolicy, WaiterGoes, ShouldRestart, IInv, TypeOK, RestartDue, RestartInv
<1>6. UnaskedExitReported'
  BY DEF ApplyPolicy, WaiterGoes, ShouldRestart, IInv, TypeOK,
     UnaskedExitReported
<1>. QED  BY <1>1, <1>2, <1>3, <1>4, <1>5, <1>6 DEF IInv

\* The restart task is spawned idle-to-start, for a name (ChildInv), by a wait
\* thread whose policy allows it (RestartInv).
LEMMA PushRestartPreserves ==
  ASSUME IInv, NEW p \in Procs, PushRestart(p)
  PROVE  IInv'
<1>1. TypeOK'
  BY DEF PushRestart, Alive, IInv, TypeOK, ChildInv
<1>2. ChildInv'
  BY DEF PushRestart, Alive, IInv, TypeOK, ChildInv
<1>3. HandleInv'
  BY DEF PushRestart, IInv, TypeOK, HandleInv
<1>4. RestartInv'
  BY DEF PushRestart, IInv, TypeOK, RestartDue, RestartInv
<1>5. UnaskedExitReported'
  BY DEF PushRestart, IInv, TypeOK, UnaskedExitReported
<1>6. ThreadInv'
  BY DEF PushRestart, IInv, TypeOK, RestartDue, RestartInv, ThreadInv
<1>7. JoinInv'
  BY DEF PushRestart, IInv, TypeOK, JoinInv
<1>8. MapInv'
  BY DEF PushRestart, IInv, TypeOK, RestartDue, RestartInv, MapInv
<1>. QED  BY <1>1, <1>2, <1>3, <1>4, <1>5, <1>6, <1>7, <1>8 DEF IInv
-----------------------------------------------------------------------------
\* A program that has just started satisfies the invariant.
LEMMA InitEstablishes == Init => IInv
  BY DEF Init, Alive, IInv, TypeOK, ChildInv, HandleInv, RestartDue, RestartInv,
     UnaskedExitReported, ThreadInv, JoinInv, MapInv

\* The invariant only reads the variables of vars.
LEMMA StutterPreserves == ASSUME IInv, UNCHANGED vars PROVE IInv'
  BY DEF vars, Alive, IInv, TypeOK, ChildInv, HandleInv, RestartDue, RestartInv,
     UnaskedExitReported, ThreadInv, JoinInv, MapInv

\* A step inside start.
LEMMA StartStepPreserves == ASSUME IInv, NEW t \in Threads, StartStep(t) PROVE IInv'
  BY RefuseStartPreserves, AcceptStartPreserves, ForkPreserves,
     ForkFailsPreserves, PublishPreserves DEF StartStep

\* A step inside stop, restart or stopAll.
LEMMA StopStepPreserves == ASSUME IInv, NEW t \in Threads, StopStep(t) PROVE IInv'
<1>1. CASE FindAbsent(t) \/ FindPresent(t) \/ MarkShutdown(t) \/ MarkStopping(t) \/ EndScan(t)
  BY <1>1, FindAbsentPreserves, FindPresentPreserves, MarkShutdownPreserves,
     MarkStoppingPreserves, EndScanPreserves
<1>2. CASE \E p \in Procs : ScanInactive(t, p) \/ ScanActive(t, p) \/ Kill(t, p)
                            \/ JoinWaitThread(t, p)
  BY <1>2, ScanInactivePreserves, ScanActivePreserves, KillPreserves,
     JoinWaitThreadPreserves
<1>3. CASE EndKill(t) \/ WaitThreadJoined(t) \/ JoinReader(t) \/ ReaderJoined(t)
           \/ JoinThrows(t) \/ EndStop(t)
  BY <1>3, EndKillPreserves, WaitThreadJoinedPreserves, JoinReaderPreserves,
     ReaderJoinedPreserves, JoinThrowsPreserves, EndStopPreserves
<1>. QED  BY <1>1, <1>2, <1>3 DEF StopStep

\* A step of a wait thread.
LEMMA WaiterStepPreserves == ASSUME IInv, NEW p \in Procs, WaiterStep(p) PROVE IInv'
  BY WaitPidPreserves, DeactivatePreserves, LoadStatePreserves,
     StoreStatePreserves, ReadShutdownPreserves, ApplyPolicyPreserves,
     PushRestartPreserves DEF WaiterStep

\* Whatever moves of its own accord.
LEMMA StepsPreserve == ASSUME IInv, Steps PROVE IInv'
  BY StartStepPreserves, StopStepPreserves, ChildExitsPreserves, LetGoPreserves,
     ReaderEndsPreserves, WaiterStepPreserves DEF Steps

\* A call of a public operation.
LEMMA CallPreserves == ASSUME IInv, NEW t \in Callers, Call(t) PROVE IInv'
<1>1. CASE \E ns \in SUBSET Names \ {{}} : CallStart(t, ns)
  BY <1>1, CallStartPreserves
<1>2. CASE \E n \in Names : CallStop(t, n) \/ CallRestart(t, n)
  BY <1>2, BeginStopPreserves DEF CallStop, CallRestart
<1>3. CASE CallStopAll(t)
  BY <1>3, CallStopAllPreserves
<1>. QED  BY <1>1, <1>2, <1>3 DEF Call

\* The inductive invariant holds of every reachable state.
THEOREM Invariance == Spec => []IInv
<1>1. IInv /\ [Next]_vars => IInv'
  <2>. SUFFICES ASSUME IInv, [Next]_vars PROVE IInv'
    OBVIOUS
  <2>1. CASE Steps
    BY <2>1, StepsPreserve
  <2>2. CASE \E t \in Callers : Call(t)
    BY <2>2, CallPreserves
  <2>3. CASE UNCHANGED vars
    BY <2>3, StutterPreserves
  <2>. QED  BY <2>1, <2>2, <2>3 DEF Next, Dead
<1>. QED  BY InitEstablishes, <1>1, PTL DEF Spec

\* Every variable keeps to its type, whoever calls what and when.
THEOREM TypeCorrect == Spec => []TypeOK
<1>1. IInv => TypeOK
  BY DEF IInv
<1>. QED  BY <1>1, Invariance, PTL

\* A restart task is never spawned against the restart policy of the entry:
\* waitThread's should_restart, raced by stops and stores of the state.
THEOREM RestartsObeyPolicy == Spec => []RestartObeysPolicy
<1>1. IInv => RestartObeysPolicy
  BY DEF IInv, RestartDue, RestartInv, RestartObeysPolicy
<1>. QED  BY <1>1, Invariance, PTL

\* The state reported of a child that ended unasked is Crashed exactly if it
\* failed, whatever other threads store meanwhile.
THEOREM ExitsReported == Spec => []UnaskedExitReported
<1>1. IInv => UnaskedExitReported
  BY DEF IInv
<1>. QED  BY <1>1, Invariance, PTL

\* A step inside start neither begins nor ends in a join loop, and moves its own
\* thread only.
LEMMA StartStepMoves ==
  ASSUME pc \in [Threads -> ThreadSteps], NEW u \in Threads, StartStep(u), NEW t \in Threads
  PROVE  pc[t] = "join" => pc'[t] = "join"
<1>1. CASE \E n \in Names : RefuseStart(u, n) \/ AcceptStart(u, n)
  BY <1>1 DEF RefuseStart, AcceptStart
<1>2. CASE \E p \in Procs : Fork(u, p)
  BY <1>2 DEF Fork
<1>3. CASE ForkFails(u) \/ Publish(u)
  BY <1>3 DEF ForkFails, Publish
<1>. QED  BY <1>1, <1>2, <1>3 DEF StartStep

\* A step inside stop that leaves the join loop is the return of its own thread,
\* or throws, or joins something.
LEMMA StopStepMoves ==
  ASSUME pc \in [Threads -> ThreadSteps], NEW u \in Threads, StopStep(u), NEW t \in Threads,
         pc[t] = "join", pc'[t] \in {"idle", "check"}
  PROVE  EndStop(t)
<1>1. CASE FindAbsent(u) \/ FindPresent(u)
  BY <1>1 DEF FindAbsent, FindPresent
<1>2. CASE \E p \in Procs : ScanInactive(u, p) \/ ScanActive(u, p) \/ Kill(u, p)
  BY <1>2 DEF ScanInactive, ScanActive, Kill
<1>3. CASE MarkShutdown(u) \/ MarkStopping(u)
  BY <1>3 DEF MarkShutdown, MarkStopping
<1>4. CASE EndScan(u) \/ EndKill(u)
  BY <1>4 DEF EndScan, EndKill
<1>5. CASE \E p \in Procs : JoinWaitThread(u, p)
  BY <1>5 DEF JoinWaitThread
<1>6. CASE WaitThreadJoined(u) \/ ReaderJoined(u)
  BY <1>6 DEF WaitThreadJoined, ReaderJoined
<1>7. CASE JoinReader(u)
  BY <1>7 DEF JoinReader
<1>8. CASE JoinThrows(u)
  BY <1>8 DEF JoinThrows
<1>9. CASE EndStop(u)
  BY <1>9 DEF EndStop
<1>. QED  BY <1>1, <1>2, <1>3, <1>4, <1>5, <1>6, <1>7, <1>8, <1>9 DEF StopStep

\* A thread with a call under way is not moved by a call or by a wait thread.
LEMMA OthersMove ==
  ASSUME pc \in [Threads -> ThreadSteps], NEW t \in Callers, pc[t] = "join",
         \/ \E u \in Callers : Call(u)
         \/ \E p \in Procs : WaiterStep(p) \/ LetGo(p) \/ ReaderEnds(p)
         \/ \E p \in Procs, e \in {"clean", "failure"} : ChildExits(p, e)
  PROVE  pc'[t] = "join"
<1>1. CASE \E u \in Callers : Call(u)
  BY <1>1 DEF Call, CallStart, CallStop, CallRestart, BeginStop, CallStopAll,
     Free
<1>2. CASE \E p \in Procs : PushRestart(p)
  BY <1>2 DEF PushRestart
<1>3. CASE \E p \in Procs : WaiterStep(p) /\ ~PushRestart(p)
  BY <1>3 DEF WaiterStep, WaitPid, Deactivate, LoadState, StoreState,
     ReadShutdown, ApplyPolicy, WaiterGoes
<1>4. CASE \E p \in Procs : \/ LetGo(p) \/ ReaderEnds(p)
                           \/ \E e \in {"clean", "failure"} : ChildExits(p, e)
  BY <1>4 DEF LetGo, ReaderEnds, ChildExits
<1>. QED  BY <1>1, <1>2, <1>3, <1>4

\* stop and stopAll join only threads that have finished, and return only when
\* the children they marked are reaped and read to the end.
THEOREM StopsComplete == Spec => StopEndsItsTargets
<1>1. ASSUME IInv, [Next]_vars, NEW t \in Callers,
             pc[t] = "join", pc'[t] \in {"idle", "check"}
      PROVE  \A p \in toStop[t] :
                 os[p] = "reaped" /\ waiter[p] = "done" /\ reader[p] = "done"
  <2>1. EndStop(t)
    BY <1>1, StartStepMoves, StopStepMoves, OthersMove
       DEF Next, Dead, Steps, vars, IInv, TypeOK
  <2>2. \A p \in toStop[t] : waitThread[p] = "joined" /\ readerThread[p] = "joined"
    <3>1. todo[t] = {} /\ cur[t] = NoProc /\ toStop[t] \subseteq Procs
      BY <1>1, <2>1 DEF EndStop, IInv, TypeOK, ThreadInv
    <3>. QED  BY <1>1, <3>1 DEF IInv, JoinInv
  <2>. QED  BY <1>1, <2>2 DEF IInv, TypeOK, ChildInv, HandleInv
<1>2. IInv /\ [Next]_vars =>
        \A t \in Callers :
            pc[t] = "join" /\ pc'[t] \in {"idle", "check"} =>
                \A p \in toStop[t] :
                    os[p] = "reaped" /\ waiter[p] = "done" /\ reader[p] = "done"
  BY <1>1
<1>. QED  BY <1>2, Invariance, PTL DEF Spec, StopEndsItsTargets

\* shutting_down: once an object is marked, a wait thread that has yet to read
\* the flag schedules no restart, and none starts later.
THEOREM MarkedIsNotRestarted == Spec => StopSuppressesRestart
<1>1. ASSUME IInv, [Next]_vars, NEW p \in Procs, shuttingDown[p],
             waiter[p] \notin {"policy", "push"}, pc[p] = "idle"
      PROVE  waiter'[p] \notin {"policy", "push"} /\ pc'[p] = "idle"
  <2>. USE <1>1 DEF IInv, TypeOK
  <2>1. CASE \E t \in Threads : StartStep(t)
    BY <2>1 DEF StartStep, RefuseStart, AcceptStart, Fork, ForkFails, Publish
  <2>2. CASE \E t \in Threads : StopStep(t)
    <3>. PICK t \in Threads : StopStep(t)
      BY <2>2
    <3>1. CASE FindAbsent(t) \/ FindPresent(t) \/ EndScan(t) \/ EndKill(t)
      BY <3>1 DEF FindAbsent, FindPresent, EndScan, EndKill
    <3>2. CASE \E q \in Procs : ScanInactive(t, q) \/ ScanActive(t, q) \/ Kill(t, q)
      BY <3>2 DEF ScanInactive, ScanActive, Kill
    <3>3. CASE \E q \in Procs : JoinWaitThread(t, q)
      BY <3>3 DEF JoinWaitThread
    <3>4. CASE MarkShutdown(t) \/ MarkStopping(t)
      BY <3>4 DEF MarkShutdown, MarkStopping
    <3>5. CASE WaitThreadJoined(t) \/ JoinReader(t) \/ ReaderJoined(t)
      BY <3>5 DEF WaitThreadJoined, JoinReader, ReaderJoined
    <3>6. CASE JoinThrows(t) \/ EndStop(t)
      BY <3>6 DEF JoinThrows, EndStop
    <3>. QED  BY <3>1, <3>2, <3>3, <3>4, <3>5, <3>6 DEF StopStep
  <2>3. CASE \E q \in Procs : WaiterStep(q)
    <3>. PICK q \in Procs : WaiterStep(q)
      BY <2>3
    <3>1. CASE WaitPid(q) \/ Deactivate(q) \/ LoadState(q) \/ StoreState(q)
      BY <3>1 DEF WaitPid, Deactivate, LoadState, StoreState, WaiterGoes
    <3>2. CASE ReadShutdown(q) \/ ApplyPolicy(q)
      BY <3>2 DEF ReadShutdown, ApplyPolicy, WaiterGoes
    <3>3. CASE PushRestart(q)
      BY <3>3 DEF PushRestart
    <3>. QED  BY <3>1, <3>2, <3>3 DEF WaiterStep
  <2>4. CASE \E q \in Procs : \/ LetGo(q) \/ ReaderEnds(q)
                             \/ \E e \in {"clean", "failure"} : ChildExits(q, e)
    BY <2>4 DEF LetGo, ReaderEnds, ChildExits
  <2>5. CASE \E t \in Callers : Call(t)
    BY <2>5 DEF Call, CallStart, CallStop, CallRestart, BeginStop, CallStopAll
  <2>6. CASE UNCHANGED vars
    BY <2>6 DEF vars
  <2>. QED  BY <2>1, <2>2, <2>3, <2>4, <2>5, <2>6 DEF Next, Dead, Steps
<1>2. IInv /\ [Next]_vars =>
        \A p \in Procs :
            shuttingDown[p] /\ waiter[p] \notin {"policy", "push"} /\ pc[p] = "idle" =>
                waiter'[p] \notin {"policy", "push"} /\ pc'[p] = "idle"
  BY <1>1
<1>. QED  BY <1>2, Invariance, PTL DEF Spec, StopSuppressesRestart
-----------------------------------------------------------------------------
(* What was asked to stop, and what is registered. *)

\* An object that was asked to stop is that of a child, and it has both threads
\* joined, or a call that still has it in hand, or had until it threw.
MarkInv ==
    \A p \in Procs : shuttingDown[p] =>
        /\ os[p] # "unborn"
        /\ \/ waitThread[p] = "joined" /\ readerThread[p] = "joined"
           \/ p \in abandoned
           \/ \E t \in Threads : p \in toStop[t]

TargetsInv == AskedAreStopped /\ MarkInv

\* A step that marks nothing, revives nothing, unjoins nothing, and takes no object
\* out of the hands of a call.
LEMMA TargetsKept ==
  ASSUME TargetsInv,
         \A p \in Procs : shuttingDown'[p] => shuttingDown[p],
         \A p \in Procs : /\ os'[p] = "alive" => os[p] = "alive"
                          /\ os'[p] = "unborn" => os[p] = "unborn",
         \A p \in Procs :
             /\ waitThread[p] = "joined" => waitThread'[p] = "joined"
             /\ readerThread[p] = "joined" => readerThread'[p] = "joined",
         abandoned \subseteq abandoned',
         \A t \in Threads : toStop[t] \subseteq toStop'[t],
         \A t \in Threads : \A p \in toStop[t] :
             pc[t] \in ScanSteps \/ (pc[t] = "kill" /\ p \in todo[t]) =>
                 pc'[t] \in ScanSteps \/ (pc'[t] = "kill" /\ p \in todo'[t])
  PROVE  TargetsInv'
<1>1. AskedAreStopped'
  BY DEF TargetsInv, AskedAreStopped
<1>2. MarkInv'
  BY DEF TargetsInv, MarkInv
<1>. QED  BY <1>1, <1>2 DEF TargetsInv

\* A step inside start: a new object is not marked.
LEMMA StartStepTargets ==
  ASSUME IInv, TargetsInv, NEW t \in Threads, StartStep(t)
  PROVE  TargetsInv'
<1>. USE DEF IInv, TypeOK
<1>1. CASE \E n \in Names : RefuseStart(t, n) \/ AcceptStart(t, n)
  BY <1>1, TargetsKept DEF RefuseStart, AcceptStart, ThreadInv
<1>2. CASE ForkFails(t) \/ Publish(t)
  BY <1>2, TargetsKept DEF ForkFails, Publish, ThreadInv
<1>3. CASE \E p \in Procs : Fork(t, p)
  <2>. PICK p \in Procs : Fork(t, p)
    BY <1>3
  <2>1. waiter[p] = "none" /\ os[p] = "unborn" /\ pc[t] = "fork"
    BY DEF Fork, ChildInv, ThreadInv
  <2>4. ~shuttingDown[p]
    BY <2>1 DEF TargetsInv, MarkInv
  <2>5. /\ UNCHANGED <<shuttingDown, toStop, todo, abandoned>>
        /\ \A q \in Procs \ {p} : /\ waitThread'[q] = waitThread[q] /\ os'[q] = os[q]
                                  /\ readerThread'[q] = readerThread[q]
        /\ os'[p] # "unborn"
        /\ \A u \in Threads : pc'[u] = pc[u] \/ pc[u] = "fork"
    BY <2>1 DEF Fork
  <2>. HIDE DEF Threads, IInv, TypeOK
  <2>6. AskedAreStopped'
    BY <2>4, <2>5 DEF TargetsInv, AskedAreStopped
  <2>7. MarkInv'
    BY <2>4, <2>5 DEF TargetsInv, MarkInv
  <2>. QED  BY <2>6, <2>7 DEF TargetsInv
<1>. QED  BY <1>1, <1>2, <1>3 DEF StartStep

\* A step inside stop, restart or stopAll: what is marked is in hand, what is in hand
\* is killed before it is joined, and joined before it is let go of.
LEMMA StopStepTargets ==
  ASSUME IInv, TargetsInv, NEW t \in Threads, StopStep(t)
  PROVE  TargetsInv'
<1>. USE DEF IInv, TypeOK
<1>1. CASE FindAbsent(t) \/ FindPresent(t)
  <2>1. /\ UNCHANGED <<shuttingDown, os, waitThread, readerThread, abandoned, toStop>>
        /\ \A u \in Threads \ {t} : pc'[u] = pc[u] /\ todo'[u] = todo[u]
        /\ pc[t] = "find"
    BY <1>1 DEF FindAbsent, FindPresent
  <2>. QED  BY <2>1, TargetsKept
<1>2. CASE EndScan(t)
  BY <1>2, TargetsKept DEF EndScan
<1>3. CASE EndKill(t)
  BY <1>3, TargetsKept DEF EndKill
<1>4. CASE \E p \in Procs : ScanInactive(t, p) \/ ScanActive(t, p)
  <2>1. /\ UNCHANGED <<shuttingDown, os, waitThread, readerThread, abandoned>>
        /\ \A u \in Threads \ {t} : /\ pc'[u] = pc[u] /\ todo'[u] = todo[u]
                                    /\ toStop'[u] = toStop[u]
        /\ pc'[t] \in ScanSteps /\ toStop[t] \subseteq toStop'[t]
    BY <1>4 DEF ScanInactive, ScanActive
  <2>. QED  BY <2>1, TargetsKept
<1>5. CASE \E p \in Procs : Kill(t, p)
  <2>. PICK p \in Procs : Kill(t, p)
    BY <1>5
  <2>1. os[p] = "alive" => waiter[p] = "waitpid"
    BY DEF ChildInv
  <2>2. /\ UNCHANGED <<shuttingDown, toStop, abandoned, waitThread, readerThread, pc>>
        /\ \A q \in Procs : os'[q] = "alive" => os[q] = "alive" /\ q # p
        /\ \A q \in Procs : os'[q] = "unborn" => os[q] = "unborn"
        /\ \A u \in Threads : \A q \in Procs \ {p} : q \in todo[u] => q \in todo'[u]
    BY <2>1 DEF Kill
  <2>. HIDE DEF Threads, IInv, TypeOK
  <2>3. AskedAreStopped'
    BY <2>2 DEF TargetsInv, AskedAreStopped
  <2>4. MarkInv'
    BY <2>2 DEF TargetsInv, MarkInv
  <2>. QED  BY <2>3, <2>4 DEF TargetsInv
<1>6. CASE MarkStopping(t)
  BY <1>6, TargetsKept DEF MarkStopping
<1>7. CASE MarkShutdown(t)
  <2>1. cur[t] \in toStop[t] /\ os[cur[t]] # "unborn"
    BY <1>7 DEF MarkShutdown, ThreadInv
  <2>2. /\ UNCHANGED <<waitThread, readerThread, toStop, todo, abandoned, os>>
        /\ \A p \in Procs : shuttingDown'[p] => shuttingDown[p] \/ p = cur[t]
        /\ \A u \in Threads : pc'[u] = pc[u] \/ (u = t /\ pc[u] \in ScanSteps)
        /\ pc'[t] \in ScanSteps
    BY <1>7 DEF MarkShutdown
  <2>. HIDE DEF Threads, IInv, TypeOK
  <2>3. AskedAreStopped'
    BY <2>1, <2>2 DEF TargetsInv, AskedAreStopped
  <2>4. MarkInv'
    BY <2>1, <2>2 DEF TargetsInv, MarkInv
  <2>. QED  BY <2>3, <2>4 DEF TargetsInv
<1>8. CASE \E p \in Procs : JoinWaitThread(t, p)
  BY <1>8, TargetsKept DEF JoinWaitThread
<1>9. CASE WaitThreadJoined(t) \/ ReaderJoined(t)
  BY <1>9, TargetsKept DEF WaitThreadJoined, ReaderJoined
<1>10. CASE JoinReader(t)
  BY <1>10, TargetsKept DEF JoinReader
<1>11. CASE JoinThrows(t)
  <2>1. /\ UNCHANGED <<waitThread, readerThread, shuttingDown, os>>
        /\ abandoned' = abandoned \union toStop[t]
        /\ \A u \in Threads \ {t} : /\ toStop'[u] = toStop[u] /\ pc'[u] = pc[u]
                                    /\ todo'[u] = todo[u]
        /\ pc[t] \in {"join", "joinReader"}
    BY <1>11 DEF JoinThrows
  <2>. HIDE DEF Threads, IInv, TypeOK
  <2>2. AskedAreStopped'
    BY <2>1 DEF TargetsInv, AskedAreStopped
  <2>3. MarkInv'
    BY <2>1 DEF TargetsInv, MarkInv
  <2>. QED  BY <2>2, <2>3 DEF TargetsInv
<1>12. CASE EndStop(t)
  <2>1. \A p \in toStop[t] : waitThread[p] = "joined" /\ readerThread[p] = "joined"
    <3>1. todo[t] = {} /\ cur[t] = NoProc /\ toStop[t] \subseteq Procs /\ pc[t] = "join"
      BY <1>12 DEF EndStop, ThreadInv
    <3>2. JoinInv
      OBVIOUS
    <3>. HIDE DEF IInv, TypeOK
    <3>. QED  BY <3>1, <3>2 DEF JoinInv
  <2>2. /\ UNCHANGED <<waitThread, readerThread, shuttingDown, os, todo, abandoned>>
        /\ \A u \in Threads \ {t} : toStop'[u] = toStop[u] /\ pc'[u] = pc[u]
        /\ pc[t] = "join"
    BY <1>12 DEF EndStop
  <2>. HIDE DEF Threads, IInv, TypeOK
  <2>3. AskedAreStopped'
    BY <2>2 DEF TargetsInv, AskedAreStopped
  <2>4. MarkInv'
    BY <2>1, <2>2 DEF TargetsInv, MarkInv
  <2>. QED  BY <2>3, <2>4 DEF TargetsInv
<1>. QED  BY <1>1, <1>2, <1>3, <1>4, <1>5, <1>6, <1>7, <1>8, <1>9, <1>10, <1>11, <1>12
             DEF StopStep

\* A call begins with nothing in hand; a child and its own threads touch none of it.
LEMMA OthersTargets ==
  ASSUME IInv, TargetsInv,
         \/ \E u \in Callers :
              \/ \E ns \in SUBSET Names : CallStart(u, ns)
              \/ \E n \in Names, w \in SUBSET Names : BeginStop(u, n, w)
              \/ CallStopAll(u)
         \/ \E p \in Procs : WaiterStep(p) \/ LetGo(p) \/ ReaderEnds(p)
         \/ \E p \in Procs, e \in {"clean", "failure"} : ChildExits(p, e)
         \/ UNCHANGED vars
  PROVE  TargetsInv'
<1>. USE DEF IInv, TypeOK
<1>1. CASE \E u \in Callers :
              \/ \E ns \in SUBSET Names : CallStart(u, ns)
              \/ \E n \in Names, w \in SUBSET Names : BeginStop(u, n, w)
              \/ CallStopAll(u)
  BY <1>1, TargetsKept DEF CallStart, BeginStop, CallStopAll, Free
<1>2. CASE \E p \in Procs : PushRestart(p)
  <2>1. \A p \in Procs : pc[p] \notin StopSteps
    BY DEF ThreadInv
  <2>. QED  BY <1>2, <2>1, TargetsKept DEF PushRestart
<1>3. CASE \E p \in Procs : WaiterStep(p) /\ ~PushRestart(p)
  BY <1>3, TargetsKept DEF WaiterStep, WaitPid, Deactivate, LoadState, StoreState,
     ReadShutdown, ApplyPolicy, WaiterGoes
<1>4. CASE \E p \in Procs : \/ LetGo(p) \/ ReaderEnds(p)
                           \/ \E e \in {"clean", "failure"} : ChildExits(p, e)
  BY <1>4, TargetsKept DEF LetGo, ReaderEnds, ChildExits
<1>5. CASE UNCHANGED vars
  BY <1>5, TargetsKept DEF vars
<1>. QED  BY <1>1, <1>2, <1>3, <1>4, <1>5

\* Whatever moves of its own accord.
LEMMA StepsKeepTargets == ASSUME IInv, TargetsInv, Steps PROVE TargetsInv'
  BY StartStepTargets, StopStepTargets, OthersTargets DEF Steps

LEMMA InitTargets == Init => TargetsInv
  BY DEF Init, TargetsInv, AskedAreStopped, MarkInv

LEMMA TargetsJoined == ASSUME TargetsInv PROVE StoppedIsJoined
  BY DEF TargetsInv, MarkInv, StoppedIsJoined, Referenced

LEMMA TargetsInvariance == Spec => []TargetsInv
<1>1. IInv /\ TargetsInv /\ [Next]_vars => TargetsInv'
  <2>. SUFFICES ASSUME IInv, TargetsInv, [Next]_vars PROVE TargetsInv'
    OBVIOUS
  <2>1. CASE Steps
    BY <2>1, StepsKeepTargets
  <2>. QED  BY <2>1, OthersTargets DEF Next, Dead, Call, CallStop, CallRestart
<1>. QED  BY InitTargets, <1>1, Invariance, PTL DEF Spec

\* Whatever the callers, however their operations overlap and whichever of them
\* throw: a child that was asked to stop is dead or killed, or the call that asked
\* has yet to look whether it must kill it.
THEOREM NoStopIsLost == Spec => []AskedAreStopped
<1>1. TargetsInv => AskedAreStopped
  BY DEF TargetsInv
<1>. QED  BY <1>1, TargetsInvariance, PTL

\* Whatever the callers: an object that was stopped is dropped only with both its
\* std::threads joined, unless a call that had it in hand threw.
THEOREM StoppedAreJoined == Spec => []StoppedIsJoined
<1>1. TargetsInv => StoppedIsJoined
  BY TargetsJoined
<1>. QED  BY <1>1, TargetsInvariance, PTL

\* procs_ changes where a start registers what it forked, nowhere else.
LEMMA OnlyPublish ==
  ASSUME [Next]_vars, NEW n \in Names, procs'[n] # procs[n]
  PROVE  \E t \in Threads : Publish(t)
<1>1. CASE \E t \in Threads : StartStep(t)
  BY <1>1 DEF StartStep, RefuseStart, AcceptStart, Fork, ForkFails
<1>2. CASE \E t \in Threads : StopStep(t)
  BY <1>2 DEF StopStep, FindAbsent, FindPresent, ScanInactive, ScanActive,
     MarkShutdown, MarkStopping, EndScan, Kill, EndKill, JoinWaitThread,
     WaitThreadJoined, JoinReader, ReaderJoined, JoinThrows, EndStop
<1>3. CASE \E p \in Procs :
             \/ WaiterStep(p) \/ LetGo(p) \/ ReaderEnds(p)
             \/ \E e \in {"clean", "failure"} : ChildExits(p, e)
  BY <1>3 DEF WaiterStep, WaitPid, Deactivate, LoadState, StoreState, ReadShutdown,
     ApplyPolicy, PushRestart, WaiterGoes, LetGo, ReaderEnds, ChildExits
<1>4. CASE \E t \in Callers : Call(t)
  BY <1>4 DEF Call, CallStart, CallStop, CallRestart, BeginStop, CallStopAll
<1>. QED  BY <1>1, <1>2, <1>3, <1>4 DEF Next, Dead, Steps, vars

\* Between start's two critical sections nothing keeps another start of the entry
\* out, and nothing else takes a living child's place: what the check found was not
\* active and never is again (ThreadInv), so a child that is displaced was
\* registered since.
THEOREM DisplacedByOverlap == Spec => LiveKeepsItsPlace
<1>1. ASSUME IInv, [Next]_vars, NEW n \in Names, NEW p \in Procs,
             procs[n] = p, Alive(p), procs'[n] # p
      PROVE  \E t \in Threads : pc[t] = "publish" /\ entry[t] = n /\ seen[t] # p
  <2>. PICK t \in Threads : Publish(t)
    BY <1>1, OnlyPublish
  <2>1. pc[t] = "publish" /\ entry[t] = n
    BY <1>1 DEF Publish, IInv, TypeOK
  <2>2. Active(p)
    BY <1>1 DEF IInv, TypeOK, ChildInv, Alive
  <2>3. seen[t] # NoProc => ~Active(seen[t])
    <3>1. ThreadInv
      BY <1>1 DEF IInv
    <3>. HIDE DEF Active
    <3>. QED  BY <2>1, <3>1 DEF ThreadInv
  <2>4. seen[t] # p
    BY <2>2, <2>3
  <2>. QED  BY <2>1, <2>4
<1>2. IInv /\ [Next]_vars =>
        \A n \in Names, p \in Procs :
            procs[n] = p /\ Alive(p) /\ procs'[n] # p =>
                \E t \in Threads : pc[t] = "publish" /\ entry[t] = n /\ seen[t] # p
  BY <1>1
<1>. QED  BY <1>2, Invariance, PTL DEF Spec, LiveKeepsItsPlace

-----------------------------------------------------------------------------
(* ProcessManager implements Supervision. *)

\* A step that leaves the life, the marks and the tasks of every child alone is
\* none of Supervision's business.
LEMMA Unsupervised ==
  ASSUME name' = name, exit' = exit, shuttingDown' = shuttingDown, waiter' = waiter,
         \A p \in Procs : os[p] = "zombie" <=> os'[p] = "zombie",
         \A p \in Procs : pc[p] = "idle" <=> pc'[p] = "idle"
  PROVE  UNCHANGED Promise!vars
<1>1. Life' = Life
  BY DEF Life, LifeOf, RestartDue
<1>2. Tasks' = Tasks
  BY DEF Tasks
<1>. QED  BY <1>1, <1>2 DEF Promise!vars

\* One child's life goes on, the others' do not.
LEMMA LifeGoesOn ==
  ASSUME NEW p \in Procs, NEW l, LifeOf(p)' = l,
         \A q \in Procs \ {p} :
             name'[q] = name[q] /\ exit'[q] = exit[q] /\ waiter'[q] = waiter[q] /\ os'[q] = os[q]
  PROVE  Life' = [Life EXCEPT ![p] = l]
<1>1. \A q \in Procs \ {p} : LifeOf(q)' = LifeOf(q)
  BY DEF LifeOf, RestartDue
<1>. QED  BY <1>1 DEF Life

\* Inside start: fork brings a child to life, and what a restart task does last
\* ends the task.
LEMMA StartStepSupervised ==
  ASSUME IInv, NEW t \in Threads, StartStep(t)
  PROVE  [Promise!Next]_(Promise!vars)
<1>. USE DEF IInv, TypeOK
<1>1. CASE \E n \in Names : AcceptStart(t, n)
  BY <1>1, Unsupervised DEF AcceptStart, childVars, objectVars
<1>2. CASE \E p \in Procs : Fork(t, p)
  <2>. PICK p \in Procs : Fork(t, p)
    BY <1>2
  <2>1. entry[t] \in Names /\ waiter[p] = "none"
    BY DEF Fork, ChildInv, ThreadInv
  <2>2. Life[p] = "unborn" /\ Life' = [Life EXCEPT ![p] = "running"]
    <3>1. LifeOf(p) = "unborn" /\ LifeOf(p)' = "running"
      BY <2>1 DEF Fork, LifeOf, RestartDue
    <3>2. \A q \in Procs \ {p} :
              name'[q] = name[q] /\ exit'[q] = exit[q] /\ waiter'[q] = waiter[q] /\ os'[q] = os[q]
      BY <2>1 DEF Fork
    <3>. QED  BY <3>1, <3>2, LifeGoesOn DEF Life
  <2>3. Tasks' = Tasks
    BY DEF Fork, Tasks
  <2>4. Promise!Start(p, entry[t])
    BY <2>2, <2>3 DEF Fork, Promise!Start
  <2>. QED  BY <2>1, <2>4 DEF Promise!Next
<1>3. CASE ForkFails(t) \/ Publish(t) \/ \E n \in Names : RefuseStart(t, n)
  <2>1. /\ name' = name /\ exit' = exit /\ os' = os
        /\ waiter' = waiter /\ shuttingDown' = shuttingDown
        /\ pc[t] # "idle"
        /\ pc' = [pc EXCEPT ![t] = "idle"] \/ pc' = [pc EXCEPT ![t] = "check"]
    BY <1>3 DEF ForkFails, Publish, RefuseStart, AfterStop, childVars, objectVars
  <2>2. CASE t \in Procs /\ pc'[t] = "idle"
    <3>1. Life' = Life
      BY <2>1 DEF Life, LifeOf, RestartDue
    <3>2. Tasks[t] /\ Tasks' = [Tasks EXCEPT ![t] = FALSE]
      <4>1. \A q \in Procs : pc'[q] = IF q = t THEN "idle" ELSE pc[q]
        BY <2>1, <2>2
      <4>2. \A q \in Procs : (pc'[q] # "idle") = IF q = t THEN FALSE ELSE pc[q] # "idle"
        BY <4>1
      <4>3. Tasks' = [q \in Procs |-> IF q = t THEN FALSE ELSE Tasks[q]]
        BY <4>2, Zenon DEF Tasks
      <4>4. [Tasks EXCEPT ![t] = FALSE] = [q \in Procs |-> IF q = t THEN FALSE ELSE Tasks[q]]
        BY Zenon DEF Tasks
      <4>. QED  BY <2>1, <2>2, <4>3, <4>4 DEF Tasks
    <3>3. Promise!TaskEnds(t)
      BY <2>1, <2>2, <3>1, <3>2 DEF Promise!TaskEnds
    <3>. QED  BY <2>2, <3>3 DEF Promise!Next
  <2>3. CASE t \notin Procs \/ pc'[t] # "idle"
    BY <2>1, <2>3, Unsupervised
  <2>. QED  BY <2>2, <2>3
<1>. QED  BY <1>1, <1>2, <1>3 DEF StartStep

\* Inside stop: only the mark counts.
LEMMA StopStepSupervised ==
  ASSUME IInv, NEW t \in Threads, StopStep(t)
  PROVE  [Promise!Next]_(Promise!vars)
<1>. USE DEF IInv, TypeOK
<1>1. CASE MarkShutdown(t)
  <2>1. cur[t] \in Procs /\ os[cur[t]] # "unborn"
    BY <1>1 DEF MarkShutdown, ThreadInv
  <2>2. Life' = Life
    BY <1>1 DEF MarkShutdown, childVars, Life, LifeOf, RestartDue
  <2>3. Tasks' = Tasks
    BY <1>1 DEF MarkShutdown, Tasks
  <2>4. Life[cur[t]] # "unborn"
    BY <2>1 DEF Life, LifeOf, ChildInv
  <2>5. Promise!Ask(cur[t])
    BY <1>1, <2>1, <2>2, <2>3, <2>4 DEF MarkShutdown, Promise!Ask
  <2>. QED  BY <2>1, <2>5 DEF Promise!Next
<1>2. t \in Callers \/ MarkShutdown(t)
  BY DEF StopStep, ThreadInv, FindAbsent, FindPresent, ScanInactive, ScanActive,
     MarkStopping, EndScan, Kill, EndKill, JoinWaitThread, WaitThreadJoined,
     JoinReader, ReaderJoined, JoinThrows, EndStop
<1>3. CASE t \in Callers /\ ~MarkShutdown(t)
  <2>1. /\ name' = name /\ exit' = exit /\ waiter' = waiter
        /\ shuttingDown' = shuttingDown
    BY <1>3 DEF StopStep, FindAbsent, FindPresent, ScanInactive, ScanActive,
       MarkStopping, EndScan, Kill, EndKill, JoinWaitThread, WaitThreadJoined,
       JoinReader, ReaderJoined, JoinThrows, EndStop, childVars, objectVars
  <2>2. \A p \in Procs : os[p] = "zombie" <=> os'[p] = "zombie"
    BY <1>3 DEF StopStep, FindAbsent, FindPresent, ScanInactive, ScanActive,
       MarkStopping, EndScan, Kill, EndKill, JoinWaitThread, WaitThreadJoined,
       JoinReader, ReaderJoined, JoinThrows, EndStop, childVars, objectVars
  <2>3. \A p \in Procs : pc'[p] = pc[p]
    BY <1>3 DEF StopStep, FindAbsent, FindPresent, ScanInactive, ScanActive,
       MarkStopping, EndScan, Kill, EndKill, JoinWaitThread, WaitThreadJoined,
       JoinReader, ReaderJoined, JoinThrows, EndStop
  <2>. QED  BY <2>1, <2>2, <2>3, Unsupervised
<1>. QED  BY <1>1, <1>2, <1>3

\* The wait thread: reading shutting_down settles the end or makes a restart
\* due, the policy may settle it after all, and the push relaunches.
LEMMA WaiterStepSupervised ==
  ASSUME IInv, NEW p \in Procs, WaiterStep(p)
  PROVE  [Promise!Next]_(Promise!vars)
<1>. USE DEF IInv, TypeOK
<1>1. CASE WaitPid(p) \/ Deactivate(p) \/ LoadState(p) \/ StoreState(p)
  <2>1. Life' = Life
    BY <1>1 DEF WaitPid, Deactivate, LoadState, StoreState, WaiterGoes, Life,
       LifeOf, RestartDue, childVars
  <2>. QED  BY <1>1, <2>1 DEF WaitPid, Deactivate, LoadState, StoreState,
                WaiterGoes, childVars, localVars, Tasks,
                Promise!vars
<1>2. CASE ReadShutdown(p) \/ ApplyPolicy(p)
  <2>1. /\ name' = name /\ exit' = exit /\ os' = os /\ pc' = pc
        /\ shuttingDown' = shuttingDown
    BY <1>2 DEF ReadShutdown, ApplyPolicy, WaiterGoes, childVars, localVars
  <2>2. CASE ReadShutdown(p) /\ (shuttingDown[p] \/ ~RestartDue(p))
    <3>1. Life[p] = "ended" /\ Life' = [Life EXCEPT ![p] = "settled"]
      <4>1. LifeOf(p) = "ended" /\ LifeOf(p)' = "settled"
        BY <2>1, <2>2 DEF ReadShutdown, WaiterGoes, LifeOf, RestartDue
      <4>2. \A q \in Procs \ {p} :
                name'[q] = name[q] /\ exit'[q] = exit[q] /\ waiter'[q] = waiter[q] /\ os'[q] = os[q]
        BY <2>1, <2>2 DEF ReadShutdown, WaiterGoes
      <4>. QED  BY <4>1, <4>2, LifeGoesOn DEF Life
    <3>2. Promise!Settle(p)
      BY <2>1, <3>1 DEF Tasks, Promise!Settle
    <3>. QED  BY <3>2 DEF Promise!Next
  <2>3. CASE ReadShutdown(p) /\ ~shuttingDown[p] /\ RestartDue(p)
    <3>1. Life[p] = "ended" /\ Life' = [Life EXCEPT ![p] = "due"]
      <4>1. LifeOf(p) = "ended" /\ LifeOf(p)' = "due"
        BY <2>1, <2>3 DEF ReadShutdown, WaiterGoes, LifeOf, RestartDue
      <4>2. \A q \in Procs \ {p} :
                name'[q] = name[q] /\ exit'[q] = exit[q] /\ waiter'[q] = waiter[q] /\ os'[q] = os[q]
        BY <2>1, <2>3 DEF ReadShutdown, WaiterGoes
      <4>. QED  BY <4>1, <4>2, LifeGoesOn DEF Life
    <3>2. Promise!ComeDue(p)
      BY <2>1, <2>3, <3>1 DEF RestartDue, Tasks, Promise!ComeDue, Promise!Wants
    <3>. QED  BY <3>2 DEF Promise!Next
  <2>4. CASE ApplyPolicy(p) /\ RestartDue(p) /\ ~ShouldRestart(p)
    <3>1. Life[p] = "due" /\ Life' = [Life EXCEPT ![p] = "settled"]
      <4>1. LifeOf(p) = "due" /\ LifeOf(p)' = "settled"
        BY <2>1, <2>4 DEF ApplyPolicy, WaiterGoes, LifeOf, RestartDue
      <4>2. \A q \in Procs \ {p} :
                name'[q] = name[q] /\ exit'[q] = exit[q] /\ waiter'[q] = waiter[q] /\ os'[q] = os[q]
        BY <2>1, <2>4 DEF ApplyPolicy, WaiterGoes
      <4>. QED  BY <4>1, <4>2, LifeGoesOn DEF Life
    <3>2. Promise!Settle(p)
      BY <2>1, <3>1 DEF Tasks, Promise!Settle
    <3>. QED  BY <3>2 DEF Promise!Next
  <2>5. CASE ApplyPolicy(p) /\ ~(RestartDue(p) /\ ~ShouldRestart(p))
    <3>1. ShouldRestart(p) => RestartDue(p)
      BY DEF RestartInv, RestartDue, ShouldRestart
    <3>2. Life' = Life
      BY <2>1, <2>5, <3>1 DEF ApplyPolicy, WaiterGoes, Life, LifeOf, RestartDue
    <3>. QED  BY <2>1, <3>2 DEF Tasks, Promise!vars
  <2>. QED  BY <1>2, <2>2, <2>3, <2>4, <2>5
<1>3. CASE PushRestart(p)
  <2>1. RestartDue(p) /\ pc[p] = "idle"
    BY <1>3 DEF PushRestart, RestartInv
  <2>2. Life[p] = "due" /\ Life' = [Life EXCEPT ![p] = "settled"]
    <3>1. LifeOf(p) = "due" /\ LifeOf(p)' = "settled"
      BY <1>3, <2>1 DEF PushRestart, childVars, LifeOf, RestartDue
    <3>2. \A q \in Procs \ {p} :
              name'[q] = name[q] /\ exit'[q] = exit[q] /\ waiter'[q] = waiter[q] /\ os'[q] = os[q]
      BY <1>3, <2>1 DEF PushRestart, childVars
    <3>. QED  BY <3>1, <3>2, LifeGoesOn DEF Life
  <2>3. Tasks' = [Tasks EXCEPT ![p] = TRUE]
    BY <1>3 DEF PushRestart, Tasks
  <2>4. Promise!Relaunch(p)
    BY <1>3, <2>2, <2>3 DEF PushRestart, Promise!Relaunch, childVars
  <2>. QED  BY <2>4 DEF Promise!Next
<1>. QED  BY <1>1, <1>2, <1>3 DEF WaiterStep

\* The child's end is Supervision's, its pipe's and its reader's are not.
LEMMA ChildSupervised ==
  ASSUME IInv, NEW p \in Procs,
         LetGo(p) \/ ReaderEnds(p) \/ \E e \in {"clean", "failure"} : ChildExits(p, e)
  PROVE  [Promise!Next]_(Promise!vars)
<1>. USE DEF IInv, TypeOK
<1>1. CASE LetGo(p) \/ ReaderEnds(p)
  BY <1>1, Unsupervised DEF LetGo, ReaderEnds, childVars, objectVars, localVars
<1>2. ASSUME NEW e \in {"clean", "failure"}, ChildExits(p, e)
      PROVE  Promise!Next
  <2>1. waiter[p] = "waitpid" /\ os[p] # "zombie"
    BY <1>2 DEF ChildExits, ChildInv
  <2>2. Life[p] = "running" /\ Life' = [Life EXCEPT ![p] = "ended"]
    <3>1. LifeOf(p) = "running" /\ LifeOf(p)' = "ended"
      BY <1>2, <2>1 DEF ChildExits, objectVars, LifeOf, RestartDue
    <3>2. \A q \in Procs \ {p} :
              name'[q] = name[q] /\ exit'[q] = exit[q] /\ waiter'[q] = waiter[q] /\ os'[q] = os[q]
      BY <1>2, <2>1 DEF ChildExits, objectVars
    <3>. QED  BY <3>1, <3>2, LifeGoesOn DEF Life
  <2>3. Promise!End(p, e)
    BY <1>2, <2>2 DEF ChildExits, Tasks, Promise!End, objectVars, localVars
  <2>. QED  BY <2>3 DEF Promise!Next
<1>. QED  BY <1>1, <1>2

\* start, stop, restart, stopAll and the threads beside them keep the promise of
\* the restart policies: a child is restarted at most once, as its policy asks,
\* and not after it was asked to stop.
THEOREM Implementation == Spec => Supervised
<1>1. Init => Promise!Init
  <2>1. Init => Life = [p \in Procs |-> "unborn"]
    BY DEF Init, Life, LifeOf
  <2>2. Init => Tasks = [p \in Procs |-> FALSE]
    <3>1. Init => \A p \in Procs : (pc[p] # "idle") = FALSE
      BY DEF Init
    <3>. QED  BY <3>1, Zenon DEF Tasks
  <2>. QED  BY <2>1, <2>2 DEF Init, Promise!Init
<1>2. IInv /\ [Next]_vars => [Promise!Next]_(Promise!vars)
  <2>. SUFFICES ASSUME IInv, [Next]_vars PROVE [Promise!Next]_(Promise!vars)
    OBVIOUS
  <2>1. CASE Steps
    BY <2>1, StartStepSupervised, StopStepSupervised, WaiterStepSupervised,
       ChildSupervised DEF Steps
  <2>2. CASE \E t \in Callers : Call(t)
    <3>1. /\ name' = name /\ exit' = exit /\ waiter' = waiter /\ os' = os
          /\ shuttingDown' = shuttingDown
          /\ \A p \in Procs : pc'[p] = pc[p]
      BY <2>2 DEF Call, CallStart, CallStop, CallRestart, BeginStop, CallStopAll,
         Free, IInv, TypeOK, childVars, objectVars
    <3>. QED  BY <3>1, Unsupervised
  <2>3. CASE UNCHANGED vars
    BY <2>3, Unsupervised DEF vars, childVars, objectVars, localVars
  <2>. QED  BY <2>1, <2>2, <2>3 DEF Next, Dead
<1>. QED  BY <1>1, <1>2, Invariance, PTL DEF Spec, Supervised, Promise!Spec
=============================================================================
