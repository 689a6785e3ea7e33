------------------------- MODULE SyncCountersProofs -------------------------
(***************************************************************************)
(* Proofs about SyncCounters for any number of threads, iterations and     *)
(* phases.                                                                 *)
(***************************************************************************)
EXTENDS SyncCounters, FiniteSetTheorems, TLAPS

LEMMA KindOfPhase == ASSUME ControlTypeOK PROVE Kind \in Kinds
<1>1. main.phase \in 1..Len(Phases) BY DEF ControlTypeOK
<1> QED BY <1>1, PhasesAssumption DEF Kind

LEMMA InitLockInv == Init => LockInv
<1> USE CountAssumption, PhasesAssumption, NobodyAssumption DEF Init, NotStarted
<1>1. Init => ControlTypeOK BY DEF ControlTypeOK
<1>2. Init => DataTypeOK BY DEF DataTypeOK
<1>3. ASSUME Init PROVE \A t \in Threads : thread[t].pc = "none"
  BY <1>3
<1>4. ASSUME Init PROVE main.pc = "create" BY <1>4
<1>5. Init => AllReturned /\ LockTaken /\ MutualExclusion /\ FreshRead
  <2> HIDE DEF Init
  <2> QED BY <1>3, <1>4 DEF AllReturned, LockTaken, MutualExclusion, FreshRead, Inside
<1> QED BY <1>1, <1>2, <1>5 DEF LockInv, TypeOK

LEMMA ControlTypeStep == LockInv /\ [Next]_vars => ControlTypeOK'
<1> SUFFICES ASSUME ControlTypeOK, DataTypeOK, [Next]_vars PROVE ControlTypeOK'
  BY DEF LockInv, TypeOK
<1> USE CountAssumption, PhasesAssumption, NobodyAssumption
    DEF ControlTypeOK, DataTypeOK, Threads, locks
<1>1. ASSUME CreateThread PROVE ControlTypeOK'
  <2>1. main' \in [pc : {"create", "reset", "failed", "exit"},
                   phase : 1..Len(Phases), i : 1..NUM_THREADS + 1]
    <3>1. main.i + 1 \in 1..NUM_THREADS + 1 BY <1>1 DEF CreateThread
    <3> QED BY <1>1, <3>1 DEF CreateThread
  <2>2. 0 \in 0..NUM_ITERATIONS BY CountAssumption
  <2>3. thread' \in [Threads -> [pc : {"none", "loop", "read", "write", "release", "done"},
                                 i : 0..NUM_ITERATIONS, tmp : Nat]]
    BY <1>1, <2>2 DEF CreateThread
  <2> QED BY <2>1, <2>3
<1>2. ASSUME CreateThreadFails PROVE ControlTypeOK'
  BY <1>2 DEF CreateThreadFails
<1>3. ASSUME WaitAndDisplay PROVE ControlTypeOK'
  BY <1>3 DEF WaitAndDisplay
<1>4. ASSUME NextPhase PROVE ControlTypeOK'
  BY <1>4 DEF NextPhase, NotStarted
<1>5. ASSUME Cleanup PROVE ControlTypeOK'
  BY <1>5 DEF Cleanup
<1>6. ASSUME NEW t \in Threads, Acquire(t) PROVE ControlTypeOK'
  BY <1>6 DEF Acquire, At, Goto
<1>7. ASSUME NEW t \in Threads, Read(t) PROVE ControlTypeOK'
  BY <1>7 DEF Read, At
<1>8. ASSUME NEW t \in Threads, Write(t) PROVE ControlTypeOK'
  BY <1>8 DEF Write, At, Goto
<1>9. ASSUME NEW t \in Threads, Release(t) PROVE ControlTypeOK'
  BY <1>9 DEF Release, At, Advance
<1>10. ASSUME NEW t \in Threads, Return(t) PROVE ControlTypeOK'
  BY <1>10 DEF Return, At, Goto
<1>11. ASSUME UNCHANGED vars PROVE ControlTypeOK'
  BY <1>11 DEF vars
<1> QED
  BY <1>1, <1>2, <1>3, <1>4, <1>5, <1>6, <1>7, <1>8, <1>9, <1>10, <1>11
  DEF Next, Main, Thread, Finished

LEMMA DataTypeStep == LockInv /\ [Next]_vars => DataTypeOK'
<1> SUFFICES ASSUME ControlTypeOK, DataTypeOK, [Next]_vars PROVE DataTypeOK'
  BY DEF LockInv, TypeOK
<1> USE CountAssumption, PhasesAssumption, NobodyAssumption
    DEF ControlTypeOK, DataTypeOK, locks
<1>1. ASSUME CreateThread PROVE DataTypeOK'
  BY <1>1 DEF CreateThread
<1>2. ASSUME CreateThreadFails PROVE DataTypeOK'
  BY <1>2 DEF CreateThreadFails
<1>3. ASSUME WaitAndDisplay PROVE DataTypeOK'
  BY <1>3 DEF WaitAndDisplay
<1>4. ASSUME NextPhase PROVE DataTypeOK'
  BY <1>4 DEF NextPhase, NotStarted
<1>5. ASSUME Cleanup PROVE DataTypeOK'
  BY <1>5 DEF Cleanup
<1>6. ASSUME NEW t \in Threads, Acquire(t) PROVE DataTypeOK'
  BY <1>6 DEF Acquire, At, Goto
<1>7. ASSUME NEW t \in Threads, Read(t) PROVE DataTypeOK'
  BY <1>7 DEF Read, At
<1>8. ASSUME NEW t \in Threads, Write(t) PROVE DataTypeOK'
  BY <1>8 DEF Write, At, Goto
<1>9. ASSUME NEW t \in Threads, Release(t) PROVE DataTypeOK'
  BY <1>9 DEF Release, At, Advance
<1>10. ASSUME NEW t \in Threads, Return(t) PROVE DataTypeOK'
  BY <1>10 DEF Return, At, Goto
<1>11. ASSUME UNCHANGED vars PROVE DataTypeOK'
  BY <1>11 DEF vars
<1> QED
  BY <1>1, <1>2, <1>3, <1>4, <1>5, <1>6, <1>7, <1>8, <1>9, <1>10, <1>11
  DEF Next, Main, Thread, Finished

LEMMA AllReturnedStep == LockInv /\ [Next]_vars => AllReturned'
<1> SUFFICES ASSUME ControlTypeOK, AllReturned, [Next]_vars PROVE AllReturned'
  BY DEF LockInv, TypeOK
<1> USE CountAssumption, PhasesAssumption, NobodyAssumption
    DEF ControlTypeOK, AllReturned, locks
<1>1. ASSUME CreateThread PROVE AllReturned'
  BY <1>1 DEF CreateThread
<1>2. ASSUME CreateThreadFails PROVE AllReturned'
  BY <1>2 DEF CreateThreadFails
<1>3. ASSUME WaitAndDisplay PROVE AllReturned'
  BY <1>3 DEF WaitAndDisplay
<1>4. ASSUME NextPhase PROVE AllReturned'
  BY <1>4 DEF NextPhase, NotStarted
<1>5. ASSUME Cleanup PROVE AllReturned'
  BY <1>5 DEF Cleanup
<1>6. ASSUME NEW t \in Threads, Acquire(t) PROVE AllReturned'
  BY <1>6 DEF Acquire, At, Goto
<1>7. ASSUME NEW t \in Threads, Read(t) PROVE AllReturned'
  BY <1>7 DEF Read, At
<1>8. ASSUME NEW t \in Threads, Write(t) PROVE AllReturned'
  BY <1>8 DEF Write, At, Goto
<1>9. ASSUME NEW t \in Threads, Release(t) PROVE AllReturned'
  BY <1>9 DEF Release, At, Advance
<1>10. ASSUME NEW t \in Threads, Return(t) PROVE AllReturned'
  BY <1>10 DEF Return, At, Goto
<1>11. ASSUME UNCHANGED vars PROVE AllReturned'
  BY <1>11 DEF vars
<1> QED
  BY <1>1, <1>2, <1>3, <1>4, <1>5, <1>6, <1>7, <1>8, <1>9, <1>10, <1>11
  DEF Next, Main, Thread, Finished

LEMMA LockTakenStep == LockInv /\ [Next]_vars => LockTaken'
<1> SUFFICES ASSUME ControlTypeOK, DataTypeOK, AllReturned, LockTaken, MutualExclusion, [Next]_vars PROVE LockTaken'
  BY DEF LockInv, TypeOK
<1> USE CountAssumption, PhasesAssumption, NobodyAssumption
    DEF ControlTypeOK, DataTypeOK, AllReturned, LockTaken, MutualExclusion, Inside, Kind, locks
<1>1. ASSUME CreateThread PROVE LockTaken'
  BY <1>1 DEF CreateThread
<1>2. ASSUME CreateThreadFails PROVE LockTaken'
  BY <1>2 DEF CreateThreadFails
<1>3. ASSUME WaitAndDisplay PROVE LockTaken'
  BY <1>3 DEF WaitAndDisplay
<1>4. ASSUME NextPhase PROVE LockTaken'
  BY <1>4 DEF NextPhase, NotStarted
<1>5. ASSUME Cleanup PROVE LockTaken'
  BY <1>5 DEF Cleanup
<1>6. ASSUME NEW t \in Threads, Acquire(t) PROVE LockTaken'
  <2>1. /\ thread' = [thread EXCEPT ![t].pc = "read"] /\ main' = main
        /\ thread[t].pc = "loop"
    BY <1>6 DEF Acquire, At, Goto
  <2>2. \A u \in Threads : u # t => thread'[u] = thread[u] BY <2>1
  <2>3. thread'[t].pc = "read" BY <2>1
  <2>4. \A u \in Threads : ~Inside(u)
    <3>1. CASE Kind = "mutex" /\ hMutex = Nobody BY <3>1
    <3>2. CASE Kind = "cs" /\ cs = Nobody BY <3>2
    <3>3. CASE Kind = "semaphore" /\ hSemaphore > 0 BY <3>3
    <3> QED BY <1>6, <3>1, <3>2, <3>3 DEF Acquire
  <2>5. CASE Kind = "mutex" /\ hMutex' = t BY <2>1, <2>2, <2>4, <2>5
  <2>6. CASE Kind = "cs" /\ cs' = t BY <2>1, <2>2, <2>4, <2>6
  <2>7. CASE Kind = "semaphore" /\ hSemaphore > 0 /\ hSemaphore' = hSemaphore - 1
    BY <2>1, <2>2, <2>4, <2>7
  <2> QED BY <1>6, <2>5, <2>6, <2>7 DEF Acquire
<1>7. ASSUME NEW t \in Threads, Read(t) PROVE LockTaken'
  BY <1>7 DEF Read, At
<1>8. ASSUME NEW t \in Threads, Write(t) PROVE LockTaken'
  BY <1>8 DEF Write, At, Goto
<1>9. ASSUME NEW t \in Threads, Release(t) PROVE LockTaken'
  BY <1>9 DEF Release, At, Advance
<1>10. ASSUME NEW t \in Threads, Return(t) PROVE LockTaken'
  BY <1>10 DEF Return, At, Goto
<1>11. ASSUME UNCHANGED vars PROVE LockTaken'
  BY <1>11 DEF vars
<1> QED
  BY <1>1, <1>2, <1>3, <1>4, <1>5, <1>6, <1>7, <1>8, <1>9, <1>10, <1>11
  DEF Next, Main, Thread, Finished

LEMMA MutualExclusionStep == LockInv /\ [Next]_vars => MutualExclusion'
<1> SUFFICES ASSUME ControlTypeOK, DataTypeOK, AllReturned, LockTaken, MutualExclusion, [Next]_vars PROVE MutualExclusion'
  BY DEF LockInv, TypeOK
<1> USE CountAssumption, PhasesAssumption, NobodyAssumption
    DEF ControlTypeOK, DataTypeOK, AllReturned, LockTaken, MutualExclusion, Inside, locks
<1>1. ASSUME CreateThread PROVE MutualExclusion'
  BY <1>1 DEF CreateThread
<1>2. ASSUME CreateThreadFails PROVE MutualExclusion'
  BY <1>2 DEF CreateThreadFails
<1>3. ASSUME WaitAndDisplay PROVE MutualExclusion'
  BY <1>3 DEF WaitAndDisplay
<1>4. ASSUME NextPhase PROVE MutualExclusion'
  BY <1>4 DEF NextPhase, NotStarted
<1>5. ASSUME Cleanup PROVE MutualExclusion'
  BY <1>5 DEF Cleanup
<1>6. ASSUME NEW t \in Threads, Acquire(t) PROVE MutualExclusion'
  <2>1. /\ thread' = [thread EXCEPT ![t].pc = "read"] /\ main' = main
        /\ thread[t].pc = "loop"
    BY <1>6 DEF Acquire, At, Goto
  <2>2. \A u \in Threads : u # t => thread'[u] = thread[u] BY <2>1
  <2>3. thread'[t].pc = "read" BY <2>1
  <2>4. \A u \in Threads : ~Inside(u)
    <3>1. CASE Kind = "mutex" /\ hMutex = Nobody BY <3>1
    <3>2. CASE Kind = "cs" /\ cs = Nobody BY <3>2
    <3>3. CASE Kind = "semaphore" /\ hSemaphore > 0 BY <3>3
    <3> QED BY <1>6, <3>1, <3>2, <3>3 DEF Acquire
  <2> QED BY <2>2, <2>4
<1>7. ASSUME NEW t \in Threads, Read(t) PROVE MutualExclusion'
  BY <1>7 DEF Read, At
<1>8. ASSUME NEW t \in Threads, Write(t) PROVE MutualExclusion'
  BY <1>8 DEF Write, At, Goto
<1>9. ASSUME NEW t \in Threads, Release(t) PROVE MutualExclusion'
  BY <1>9 DEF Release, At, Advance
<1>10. ASSUME NEW t \in Threads, Return(t) PROVE MutualExclusion'
  BY <1>10 DEF Return, At, Goto
<1>11. ASSUME UNCHANGED vars PROVE MutualExclusion'
  BY <1>11 DEF vars
<1> QED
  BY <1>1, <1>2, <1>3, <1>4, <1>5, <1>6, <1>7, <1>8, <1>9, <1>10, <1>11
  DEF Next, Main, Thread, Finished

LEMMA FreshReadStep == LockInv /\ [Next]_vars => FreshRead'
<1> SUFFICES ASSUME ControlTypeOK, DataTypeOK, AllReturned, MutualExclusion, FreshRead, [Next]_vars PROVE FreshRead'
  BY DEF LockInv, TypeOK
<1> USE CountAssumption, PhasesAssumption, NobodyAssumption
    DEF ControlTypeOK, DataTypeOK, AllReturned, MutualExclusion, FreshRead, Inside, locks
<1>1. ASSUME CreateThread PROVE FreshRead'
  BY <1>1 DEF CreateThread
<1>2. ASSUME CreateThreadFails PROVE FreshRead'
  BY <1>2 DEF CreateThreadFails
<1>3. ASSUME WaitAndDisplay PROVE FreshRead'
  BY <1>3 DEF WaitAndDisplay
<1>4. ASSUME NextPhase PROVE FreshRead'
  BY <1>4 DEF NextPhase, NotStarted
<1>5. ASSUME Cleanup PROVE FreshRead'
  BY <1>5 DEF Cleanup
<1>6. ASSUME NEW t \in Threads, Acquire(t) PROVE FreshRead'
  BY <1>6 DEF Acquire, At, Goto
<1>7. ASSUME NEW t \in Threads, Read(t) PROVE FreshRead'
  BY <1>7 DEF Read, At
<1>8. ASSUME NEW t \in Threads, Write(t) PROVE FreshRead'
  BY <1>8 DEF Write, At, Goto
<1>9. ASSUME NEW t \in Threads, Release(t) PROVE FreshRead'
  BY <1>9 DEF Release, At, Advance
<1>10. ASSUME NEW t \in Threads, Return(t) PROVE FreshRead'
  BY <1>10 DEF Return, At, Goto
<1>11. ASSUME UNCHANGED vars PROVE FreshRead'
  BY <1>11 DEF vars
<1> QED
  BY <1>1, <1>2, <1>3, <1>4, <1>5, <1>6, <1>7, <1>8, <1>9, <1>10, <1>11
  DEF Next, Main, Thread, Finished

\* The lock of the phase is what keeps two threads apart.
LEMMA SpecLockInv == Spec => []LockInv
<1>1. LockInv /\ [Next]_vars => LockInv'
  BY ControlTypeStep, DataTypeStep, AllReturnedStep, LockTakenStep, MutualExclusionStep,
     FreshReadStep DEF LockInv, TypeOK
<1> QED BY <1>1, InitLockInv, PTL DEF Spec

\* All variables keep their types: in particular the semaphore never counts
\* beyond the maximum it was created with (line 75).
THEOREM TypeCorrect == Spec => []TypeOK
BY SpecLockInv, PTL DEF LockInv

\* Lines 21, 36, 51: at most one thread increments at a time, with each of
\* the three locks.
THEOREM OneThreadInside == Spec => []MutualExclusion
BY SpecLockInv, PTL DEF LockInv

\* No increment of sharedCounter is lost.
THEOREM IncrementsAreKept == Spec => NoLostUpdate
<1>1. LockInv /\ [Next]_vars
        => [\A t \in Threads : Write(t) => sharedCounter' = sharedCounter + 1]_vars
  BY DEF LockInv, FreshRead, Write, At
<1> QED BY <1>1, SpecLockInv, PTL DEF Spec, NoLostUpdate

(***************************************************************************)
(* What main finds when a phase is over.  Three more facts about threads   *)
(* and locks: main starts only threads that do not run yet, a thread ends  *)
(* after its last iteration and no earlier, and a lock that is taken is    *)
(* the lock of the phase and its holder is inside.                         *)
(***************************************************************************)
StartsFresh == main.pc = "create" => \A t \in Threads : t >= main.i => thread[t] = NotStarted

IterationsLeft == \A t \in Threads :
  /\ Inside(t) => thread[t].i < NUM_ITERATIONS
  /\ thread[t].pc = "done" => thread[t].i = NUM_ITERATIONS

HolderInside ==
  /\ hMutex # Nobody => Kind = "mutex" /\ Inside(hMutex)
  /\ cs # Nobody => Kind = "cs" /\ Inside(cs)
  /\ hSemaphore = 0 => Kind = "semaphore" /\ \E t \in Threads : Inside(t)

(***************************************************************************)
(* The increments of a phase so far, one pair of a thread and a number for *)
(* each: how many there are needs no sum over the threads.                 *)
(***************************************************************************)
Updates(t) == IF thread[t].pc = "release" THEN thread[t].i + 1 ELSE thread[t].i
Work == {w \in Threads \X (1..NUM_ITERATIONS) : w[2] <= Updates(w[1])}
CounterIsWork == sharedCounter = Cardinality(Work)

TotalInv == LockInv /\ StartsFresh /\ IterationsLeft /\ HolderInside

LEMMA InitTotalInv == Init => TotalInv
<1> SUFFICES ASSUME Init, LockInv PROVE TotalInv
  BY InitLockInv
<1> USE NobodyAssumption DEF Init, NotStarted
<1>1. StartsFresh
  BY DEF StartsFresh
<1>2. IterationsLeft
  BY DEF IterationsLeft, Inside
<1>3. HolderInside
  BY DEF HolderInside
<1> QED
  BY <1>1, <1>2, <1>3 DEF TotalInv

LEMMA StartsFreshStep == TotalInv /\ [Next]_vars => StartsFresh'
<1> SUFFICES ASSUME ControlTypeOK, StartsFresh, [Next]_vars PROVE StartsFresh'
  BY DEF TotalInv, LockInv, TypeOK
<1> USE CountAssumption DEF ControlTypeOK, StartsFresh, Threads, locks
<1>1. ASSUME CreateThread PROVE StartsFresh'
  BY <1>1 DEF CreateThread
<1>2. ASSUME CreateThreadFails PROVE StartsFresh'
  BY <1>2 DEF CreateThreadFails
<1>3. ASSUME WaitAndDisplay PROVE StartsFresh'
  BY <1>3 DEF WaitAndDisplay
<1>4. ASSUME NextPhase PROVE StartsFresh'
  BY <1>4 DEF NextPhase
<1>5. ASSUME Cleanup PROVE StartsFresh'
  BY <1>5 DEF Cleanup
<1>6. ASSUME NEW t \in Threads, Thread(t) PROVE StartsFresh'
  <2>1. thread[t].pc # "none" /\ main' = main /\ \A u \in Threads : u # t => thread'[u] = thread[u]
    BY <1>6 DEF Thread, Acquire, Read, Write, Release, Return, At, Goto, Advance
  <2>2. main.pc = "create" => t < main.i
    BY <2>1 DEF NotStarted
  <2> QED
    BY <2>1, <2>2
<1>7. ASSUME UNCHANGED vars PROVE StartsFresh'
  BY <1>7 DEF vars
<1> QED
  BY <1>1, <1>2, <1>3, <1>4, <1>5, <1>6, <1>7 DEF Next, Main, Finished

LEMMA IterationsLeftStep == TotalInv /\ [Next]_vars => IterationsLeft'
<1> SUFFICES ASSUME ControlTypeOK, IterationsLeft, [Next]_vars PROVE IterationsLeft'
  BY DEF TotalInv, LockInv, TypeOK
<1> USE CountAssumption DEF ControlTypeOK, IterationsLeft, Inside, locks
<1>1. ASSUME CreateThread PROVE IterationsLeft'
  BY <1>1 DEF CreateThread
<1>2. ASSUME CreateThreadFails PROVE IterationsLeft'
  BY <1>2 DEF CreateThreadFails
<1>3. ASSUME WaitAndDisplay PROVE IterationsLeft'
  BY <1>3 DEF WaitAndDisplay
<1>4. ASSUME NextPhase PROVE IterationsLeft'
  BY <1>4 DEF NextPhase, NotStarted
<1>5. ASSUME Cleanup PROVE IterationsLeft'
  BY <1>5 DEF Cleanup
<1>6. ASSUME NEW t \in Threads, Acquire(t) PROVE IterationsLeft'
  BY <1>6 DEF Acquire, At, Goto
<1>7. ASSUME NEW t \in Threads, Read(t) PROVE IterationsLeft'
  BY <1>7 DEF Read, At
<1>8. ASSUME NEW t \in Threads, Write(t) PROVE IterationsLeft'
  BY <1>8 DEF Write, At, Goto
<1>9. ASSUME NEW t \in Threads, Release(t) PROVE IterationsLeft'
  BY <1>9 DEF Release, At, Advance
<1>10. ASSUME NEW t \in Threads, Return(t) PROVE IterationsLeft'
  BY <1>10 DEF Return, At, Goto
<1>11. ASSUME UNCHANGED vars PROVE IterationsLeft'
  BY <1>11 DEF vars
<1> QED
  BY <1>1, <1>2, <1>3, <1>4, <1>5, <1>6, <1>7, <1>8, <1>9, <1>10, <1>11
  DEF Next, Main, Thread, Finished

LEMMA HolderInsideStep == TotalInv /\ [Next]_vars => HolderInside'
<1> SUFFICES ASSUME ControlTypeOK, DataTypeOK, AllReturned, LockTaken, MutualExclusion,
                    StartsFresh, HolderInside, [Next]_vars
             PROVE  HolderInside'
  BY DEF TotalInv, LockInv, TypeOK
<1> USE CountAssumption, NobodyAssumption DEF ControlTypeOK, DataTypeOK, HolderInside, Inside, locks
<1>1. ASSUME CreateThread PROVE HolderInside'
  <2>1. thread[main.i].pc = "none" /\ Kind' = Kind
    BY <1>1 DEF CreateThread, StartsFresh, Threads, NotStarted, Kind
  <2>2. \A t \in Threads : Inside(t) => Inside(t)'
    BY <1>1, <2>1 DEF CreateThread
  <2> QED
    BY <1>1, <2>1, <2>2 DEF CreateThread
<1>2. ASSUME CreateThreadFails PROVE HolderInside'
  BY <1>2 DEF CreateThreadFails, Kind
<1>3. ASSUME WaitAndDisplay PROVE HolderInside'
  BY <1>3 DEF WaitAndDisplay, Kind
<1>4. ASSUME NextPhase PROVE HolderInside'
  <2>1. hMutex = Nobody /\ cs = Nobody /\ hSemaphore # 0
    BY <1>4 DEF NextPhase, AllReturned
  <2> QED
    BY <1>4, <2>1 DEF NextPhase
<1>5. ASSUME Cleanup PROVE HolderInside'
  BY <1>5 DEF Cleanup, Kind
<1>6. ASSUME NEW t \in Threads, Acquire(t) PROVE HolderInside'
  <2>1. Kind' = Kind /\ Inside(t)' /\ \A u \in Threads : Inside(u) => Inside(u)'
    BY <1>6 DEF Acquire, At, Goto, Kind
  <2> QED
    BY <1>6, <2>1 DEF Acquire
<1>7. ASSUME NEW t \in Threads, Read(t) PROVE HolderInside'
  <2>1. Kind' = Kind /\ \A u \in Threads : Inside(u) => Inside(u)'
    BY <1>7 DEF Read, At, Kind
  <2> QED
    BY <1>7, <2>1 DEF Read
<1>8. ASSUME NEW t \in Threads, Write(t) PROVE HolderInside'
  <2>1. Kind' = Kind /\ \A u \in Threads : Inside(u) => Inside(u)'
    BY <1>8 DEF Write, At, Goto, Kind
  <2> QED
    BY <1>8, <2>1 DEF Write
<1>9. ASSUME NEW t \in Threads, Release(t) PROVE HolderInside'
  <2>1. Inside(t) /\ Kind' = Kind /\ Kind \in Kinds
    BY <1>9, KindOfPhase DEF Release, At, Kind
  <2>2. hMutex' = Nobody /\ cs' = Nobody
    BY <1>9, <2>1 DEF Release
  <2>3. hSemaphore' = 1
    BY <1>9, <2>1 DEF Release
  <2> QED
    BY <2>2, <2>3
<1>10. ASSUME NEW t \in Threads, Return(t) PROVE HolderInside'
  <2>1. Kind' = Kind /\ \A u \in Threads : Inside(u) => Inside(u)'
    BY <1>10 DEF Return, At, Goto, Kind
  <2> QED
    BY <1>10, <2>1 DEF Return
<1>11. ASSUME UNCHANGED vars PROVE HolderInside'
  BY <1>11 DEF vars, Kind
<1> QED
  BY <1>1, <1>2, <1>3, <1>4, <1>5, <1>6, <1>7, <1>8, <1>9, <1>10, <1>11
  DEF Next, Main, Thread, Finished

LEMMA SpecTotalInv == Spec => []TotalInv
<1>1. TotalInv /\ LockInv' /\ [Next]_vars => TotalInv'
  BY StartsFreshStep, IterationsLeftStep, HolderInsideStep DEF TotalInv
<1> QED
  BY <1>1, InitTotalInv, SpecLockInv, PTL DEF Spec

\* Between phases every lock is free, the ones of earlier phases included: no
\* phase starts with threads that wait for ever (lines 99, 130, 161).
THEOREM NoLockLeftTaken == Spec => []PhaseStartsUnlocked
<1>1. TotalInv => PhaseStartsUnlocked
  BY DEF TotalInv, LockInv, TypeOK, DataTypeOK, AllReturned, HolderInside, Inside,
         PhaseStartsUnlocked
<1> QED
  BY <1>1, SpecTotalInv, PTL

-----------------------------------------------------------------------------
LEMMA WorkIsFinite == IsFiniteSet(Work)
<1>1. IsFiniteSet(Threads) /\ IsFiniteSet(1..NUM_ITERATIONS)
  BY FS_Interval, CountAssumption DEF Threads
<1>2. IsFiniteSet(Threads \X (1..NUM_ITERATIONS))
  BY <1>1, FS_Product
<1>3. Work \in SUBSET (Threads \X (1..NUM_ITERATIONS))
  BY DEF Work
<1> QED
  BY <1>2, <1>3, FS_Subset

LEMMA AllPairs ==
  Cardinality(Threads \X (1..NUM_ITERATIONS)) = NUM_THREADS * NUM_ITERATIONS
<1>1. /\ IsFiniteSet(Threads) /\ Cardinality(Threads) = NUM_THREADS
      /\ IsFiniteSet(1..NUM_ITERATIONS) /\ Cardinality(1..NUM_ITERATIONS) = NUM_ITERATIONS
  BY FS_Interval, CountAssumption DEF Threads
<1> QED
  BY <1>1, FS_Product

\* A step that leaves every thread's updates alone leaves the work alone.
LEMMA SameWork ==
  ASSUME CounterIsWork, sharedCounter' = sharedCounter,
         \A t \in Threads : Updates(t)' = Updates(t)
  PROVE  CounterIsWork'
<1>1. Work' = Work
  BY DEF Work
<1> QED
  BY <1>1 DEF CounterIsWork

LEMMA CounterIsWorkStep == TotalInv /\ CounterIsWork /\ [Next]_vars => CounterIsWork'
<1> SUFFICES ASSUME ControlTypeOK, DataTypeOK, FreshRead, StartsFresh, IterationsLeft,
                    CounterIsWork, [Next]_vars
             PROVE  CounterIsWork'
  BY DEF TotalInv, LockInv, TypeOK
<1> USE CountAssumption DEF ControlTypeOK, locks
<1>1. ASSUME CreateThread PROVE CounterIsWork'
  <2>1. thread[main.i] = NotStarted /\ main.i \in Threads
    BY <1>1 DEF CreateThread, StartsFresh, Threads
  <2>2. \A t \in Threads : Updates(t)' = Updates(t)
    BY <1>1, <2>1 DEF CreateThread, NotStarted, Updates
  <2> QED
    BY <1>1, <2>2, SameWork DEF CreateThread
<1>2. ASSUME CreateThreadFails PROVE CounterIsWork'
  <2>1. \A t \in Threads : Updates(t)' = Updates(t)
    BY <1>2 DEF CreateThreadFails, Updates
  <2> QED
    BY <1>2, <2>1, SameWork DEF CreateThreadFails
<1>3. ASSUME WaitAndDisplay PROVE CounterIsWork'
  <2>1. \A t \in Threads : Updates(t)' = Updates(t)
    BY <1>3 DEF WaitAndDisplay, Updates
  <2> QED
    BY <1>3, <2>1, SameWork DEF WaitAndDisplay
<1>4. ASSUME NextPhase PROVE CounterIsWork'
  <2>1. \A t \in Threads : Updates(t)' = 0
    BY <1>4 DEF NextPhase, NotStarted, Updates
  <2>2. Work' = {}
    BY <2>1 DEF Work
  <2> QED
    BY <1>4, <2>2, FS_EmptySet DEF NextPhase, CounterIsWork
<1>5. ASSUME Cleanup PROVE CounterIsWork'
  <2>1. \A t \in Threads : Updates(t)' = Updates(t)
    BY <1>5 DEF Cleanup, Updates
  <2> QED
    BY <1>5, <2>1, SameWork DEF Cleanup
<1>6. ASSUME NEW t \in Threads, Acquire(t) PROVE CounterIsWork'
  <2>1. \A u \in Threads : Updates(u)' = Updates(u)
    BY <1>6 DEF Acquire, At, Goto, Updates
  <2> QED
    BY <1>6, <2>1, SameWork DEF Acquire
<1>7. ASSUME NEW t \in Threads, Read(t) PROVE CounterIsWork'
  <2>1. \A u \in Threads : Updates(u)' = Updates(u)
    BY <1>7 DEF Read, At, Updates
  <2> QED
    BY <1>7, <2>1, SameWork DEF Read
<1>8. ASSUME NEW t \in Threads, Write(t) PROVE CounterIsWork'
  <2> DEFINE w == <<t, thread[t].i + 1>>
  <2>1. thread[t].pc = "write" /\ thread[t].i \in 0..NUM_ITERATIONS /\ thread[t].i < NUM_ITERATIONS
    BY <1>8 DEF Write, At, IterationsLeft, Inside
  <2>2. \A u \in Threads : Updates(u)' = IF u = t THEN Updates(u) + 1 ELSE Updates(u)
    BY <1>8, <2>1 DEF Write, Goto, Updates
  <2>3. Updates(t) = thread[t].i
    BY <2>1 DEF Updates
  <2>4. w \in Threads \X (1..NUM_ITERATIONS) /\ w \notin Work
    BY <2>1, <2>3 DEF Work
  <2>5. \A u \in Threads : Updates(u) \in Nat
    BY DEF Updates
  <2>6. Work' = Work \cup {w}
    <3> SUFFICES ASSUME NEW u \in Threads, NEW k \in 1..NUM_ITERATIONS
                 PROVE  k <= Updates(u)' <=> k <= Updates(u) \/ (u = t /\ k = thread[t].i + 1)
      BY <2>4 DEF Work
    <3> QED
      BY <2>1, <2>2, <2>3, <2>5
  <2>7. Cardinality(Work') = Cardinality(Work) + 1
    BY <2>4, <2>6, WorkIsFinite, FS_AddElement
  <2>8. sharedCounter' = sharedCounter + 1
    BY <1>8, <2>1 DEF Write, FreshRead
  <2> QED
    BY <2>7, <2>8 DEF CounterIsWork
<1>9. ASSUME NEW t \in Threads, Release(t) PROVE CounterIsWork'
  <2>1. \A u \in Threads : Updates(u)' = Updates(u)
    BY <1>9 DEF Release, At, Advance, Updates
  <2> QED
    BY <1>9, <2>1, SameWork DEF Release
<1>10. ASSUME NEW t \in Threads, Return(t) PROVE CounterIsWork'
  <2>1. \A u \in Threads : Updates(u)' = Updates(u)
    BY <1>10 DEF Return, At, Goto, Updates
  <2> QED
    BY <1>10, <2>1, SameWork DEF Return
<1>11. ASSUME UNCHANGED vars PROVE CounterIsWork'
  <2>1. \A u \in Threads : Updates(u)' = Updates(u)
    BY <1>11 DEF vars, Updates
  <2> QED
    BY <1>11, <2>1, SameWork DEF vars
<1> QED
  BY <1>1, <1>2, <1>3, <1>4, <1>5, <1>6, <1>7, <1>8, <1>9, <1>10, <1>11
  DEF Next, Main, Thread, Finished

\* When all threads are done, all the work is.
LEMMA AllDone ==
  ASSUME TypeOK, IterationsLeft, CounterIsWork, \A t \in Threads : thread[t].pc = "done"
  PROVE  sharedCounter = NUM_THREADS * NUM_ITERATIONS
<1>1. \A t \in Threads : Updates(t) = NUM_ITERATIONS
  BY DEF IterationsLeft, Updates
<1>2. Work = Threads \X (1..NUM_ITERATIONS)
  BY <1>1, CountAssumption DEF Work
<1> QED
  BY <1>2, AllPairs DEF CounterIsWork

LEMMA DisplaysTotalStep ==
  TotalInv /\ CounterIsWork /\ DisplaysTotal /\ [Next]_vars => DisplaysTotal'
<1> SUFFICES ASSUME TypeOK, IterationsLeft, CounterIsWork, DisplaysTotal, [Next]_vars
             PROVE  DisplaysTotal'
  BY DEF TotalInv, LockInv
<1>1. ASSUME WaitAndDisplay PROVE DisplaysTotal'
  <2>1. sharedCounter = NUM_THREADS * NUM_ITERATIONS
    BY <1>1, AllDone DEF WaitAndDisplay
  <2>2. displayed' = [displayed EXCEPT ![main.phase] = NUM_THREADS * NUM_ITERATIONS]
    BY <1>1, <2>1 DEF WaitAndDisplay
  <2> QED
    BY <2>2 DEF DisplaysTotal, TypeOK, DataTypeOK
<1>2. ASSUME displayed' = displayed PROVE DisplaysTotal'
  BY <1>2 DEF DisplaysTotal
<1> QED
  BY <1>1, <1>2 DEF Next, Main, Finished, Thread, CreateThread, CreateThreadFails, NextPhase,
     Cleanup, Acquire, Read, Write, Release, Return, vars

\* Lines 107, 138, 169: what a phase displays is NUM_THREADS times
\* NUM_ITERATIONS, whatever the order the threads ran in.
THEOREM TotalIsExact == Spec => []DisplaysTotal
<1>1. Init => CounterIsWork /\ DisplaysTotal
  <2> SUFFICES ASSUME Init PROVE CounterIsWork /\ DisplaysTotal
    OBVIOUS
  <2>1. \A t \in Threads : Updates(t) = 0
    BY DEF Init, NotStarted, Updates
  <2>2. Work = {}
    BY <2>1 DEF Work
  <2> QED
    BY <2>2, FS_EmptySet DEF Init, CounterIsWork, DisplaysTotal
<1> QED
  BY <1>1, CounterIsWorkStep, DisplaysTotalStep, SpecTotalInv, PTL DEF Spec
=============================================================================
