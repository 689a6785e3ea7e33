---------------------------- MODULE SyncCounters ----------------------------
(***************************************************************************)
(* synchronized_all_thread.cpp and synchronized_thread.cpp: in each of a   *)
(* few phases main starts NUM_THREADS threads that add one to              *)
(* sharedCounter NUM_ITERATIONS times each under one kind of lock, waits   *)
(* for them, displays the counter and sets it back to 0.  The first        *)
(* program runs the phases mutex, critical section, semaphore; the second  *)
(* the first two of them.                                                  *)
(*                                                                         *)
(* sharedCounter++ is a read and a write, so two threads inside the lock   *)
(* at once would lose an update.                                           *)
(***************************************************************************)
EXTENDS Integers, Sequences, FiniteSets

CONSTANTS NUM_THREADS, NUM_ITERATIONS,
          Phases,     \* the locks in the order main tries them
          Nobody      \* the owner of a free mutex or critical section

Threads == 1..NUM_THREADS
Kinds == {"mutex", "cs", "semaphore"}

ASSUME CountAssumption == NUM_THREADS \in Nat /\ NUM_ITERATIONS \in Nat
ASSUME PhasesAssumption == Phases \in Seq(Kinds) /\ Len(Phases) > 0
ASSUME NobodyAssumption == Nobody \notin Threads

VARIABLES
  main,           \* [pc, phase, i]: where main is, in which phase, its loop index
  thread,         \* thread[t]: [pc, i, tmp]; tmp is the value sharedCounter++ read
  sharedCounter,
  hMutex, cs,     \* their owners
  hSemaphore,     \* its count, at most 1
  displayed       \* displayed[p]: what phase p printed, -1 before it did

locks == <<hMutex, cs, hSemaphore>>
vars == <<main, thread, sharedCounter, locks, displayed>>

NotStarted == [pc |-> "none", i |-> 0, tmp |-> 0]

Init ==
  /\ main = [pc |-> "create", phase |-> 1, i |-> 1]
  /\ thread = [t \in Threads |-> NotStarted]
  /\ sharedCounter = 0
  /\ hMutex = Nobody /\ cs = Nobody /\ hSemaphore = 1
  /\ displayed = [p \in 1..Len(Phases) |-> -1]

Kind == Phases[main.phase]

(***************************************************************************)
(* main, lines 81-174 of synchronized_all_thread.cpp.                      *)
(***************************************************************************)
CreateThreadOneMore ==
  /\ main.pc = "create" /\ main.i \in 1..NUM_THREADS + 1
  /\ thread' = [thread EXCEPT ![main.i] = [pc |-> "loop", i |-> 0, tmp |-> 0]]
  /\ main' = [main EXCEPT !.i = @ + 1]
  /\ UNCHANGED <<sharedCounter, locks, displayed>>
CreateThread ==
  /\ main.pc = "create" /\ main.i \in Threads
  /\ thread' = [thread EXCEPT ![main.i] = [pc |-> "loop", i |-> 0, tmp |-> 0]]
  /\ main' = [main EXCEPT !.i = @ + 1]
  /\ UNCHANGED <<sharedCounter, locks, displayed>>

\* return 1 ends the process, whatever its threads are doing.
CreateThreadFails ==
  /\ main.pc = "create" /\ main.i \in Threads
  /\ main' = [main EXCEPT !.pc = "failed"]
  /\ UNCHANGED <<thread, sharedCounter, locks, displayed>>

\* WaitForMultipleObjects(..., TRUE, INFINITE), then the line that displays.
\* WaitAny waits for one of them only.
WaitAny ==
  /\ main.pc = "create" /\ main.i = NUM_THREADS + 1
  /\ \E t \in Threads : thread[t].pc = "done"
  /\ main' = [main EXCEPT !.pc = "reset"]
  /\ displayed' = [displayed EXCEPT ![main.phase] = sharedCounter]
  /\ UNCHANGED <<thread, sharedCounter, locks>>
WaitAndDisplay ==
  /\ main.pc = "create" /\ main.i = NUM_THREADS + 1
  /\ \A t \in Threads : thread[t].pc = "done"
  /\ main' = [main EXCEPT !.pc = "reset"]
  /\ displayed' = [displayed EXCEPT ![main.phase] = sharedCounter]
  /\ UNCHANGED <<thread, sharedCounter, locks>>

NextPhaseNoReset ==
  /\ main.pc = "reset" /\ main.phase < Len(Phases)
  /\ main' = [pc |-> "create", phase |-> main.phase + 1, i |-> 1]
  /\ thread' = [t \in Threads |-> NotStarted]
  /\ UNCHANGED <<sharedCounter, locks, displayed>>
NextPhase ==
  /\ main.pc = "reset" /\ main.phase < Len(Phases)
  /\ sharedCounter' = 0
  /\ main' = [pc |-> "create", phase |-> main.phase + 1, i |-> 1]
  /\ thread' = [t \in Threads |-> NotStarted]
  /\ UNCHANGED <<locks, displayed>>

\* Lines 172-174 close the mutex, the critical section and the semaphore.
Cleanup ==
  /\ main.pc = "reset" /\ main.phase = Len(Phases)
  /\ main' = [main EXCEPT !.pc = "exit"]
  /\ UNCHANGED <<thread, sharedCounter, locks, displayed>>

(***************************************************************************)
(* The three thread functions, lines 16-58; they differ in the lock only.  *)
(***************************************************************************)
Running == main.pc \notin {"failed", "exit"}
At(t, pc) == Running /\ thread[t].pc = pc
Goto(t, pc) == thread' = [thread EXCEPT ![t].pc = pc]

AcquireNoWait(t) ==
  /\ At(t, "loop") /\ thread[t].i < NUM_ITERATIONS
  /\ Goto(t, "read")
  /\ UNCHANGED <<main, sharedCounter, locks, displayed>>
Acquire(t) ==
  /\ At(t, "loop") /\ thread[t].i < NUM_ITERATIONS
  /\ \/ /\ Kind = "mutex" /\ hMutex = Nobody
        /\ hMutex' = t /\ UNCHANGED <<cs, hSemaphore>>
     \/ /\ Kind = "cs" /\ cs = Nobody
        /\ cs' = t /\ UNCHANGED <<hMutex, hSemaphore>>
     \/ /\ Kind = "semaphore" /\ hSemaphore > 0
        /\ hSemaphore' = hSemaphore - 1 /\ UNCHANGED <<hMutex, cs>>
  /\ Goto(t, "read")
  /\ UNCHANGED <<main, sharedCounter, displayed>>

Read(t) ==
  /\ At(t, "read")
  /\ thread' = [thread EXCEPT ![t].tmp = sharedCounter, ![t].pc = "write"]
  /\ UNCHANGED <<main, sharedCounter, locks, displayed>>

Write(t) ==
  /\ At(t, "write")
  /\ sharedCounter' = thread[t].tmp + 1
  /\ Goto(t, "release")
  /\ UNCHANGED <<main, locks, displayed>>

Advance(t) == thread' = [thread EXCEPT ![t].pc = "loop", ![t].i = @ + 1]

ReleaseOnlyMutexes(t) ==
  /\ At(t, "release")
  /\ Advance(t)
  /\ hMutex' = IF Kind = "mutex" THEN Nobody ELSE hMutex
  /\ cs' = IF Kind = "cs" THEN Nobody ELSE cs
  /\ UNCHANGED <<main, sharedCounter, hSemaphore, displayed>>
\* A semaphore at its maximum count of 1 (line 75) refuses a further release.
Release(t) ==
  /\ At(t, "release")
  /\ Advance(t)
  /\ hMutex' = IF Kind = "mutex" THEN Nobody ELSE hMutex
  /\ cs' = IF Kind = "cs" THEN Nobody ELSE cs
  /\ hSemaphore' = IF Kind = "semaphore" /\ hSemaphore < 1 THEN hSemaphore + 1
                                                           ELSE hSemaphore
  /\ UNCHANGED <<main, sharedCounter, displayed>>

Return(t) ==
  /\ At(t, "loop") /\ thread[t].i = NUM_ITERATIONS
  /\ Goto(t, "done")
  /\ UNCHANGED <<main, sharedCounter, locks, displayed>>

Main == CreateThread \/ WaitAndDisplay \/ NextPhase \/ Cleanup
Thread(t) == Acquire(t) \/ Read(t) \/ Write(t) \/ Release(t) \/ Return(t)
Finished == main.pc \in {"failed", "exit"} /\ UNCHANGED vars

Next == Main \/ CreateThreadFails \/ Finished \/ \E t \in Threads : Thread(t)

Spec == Init /\ [][Next]_vars

\* A started thread keeps running and so does main; CreateThread need not fail.
FairSpec == Spec /\ WF_vars(Main) /\ \A t \in Threads : WF_vars(Thread(t))

-----------------------------------------------------------------------------
ControlTypeOK ==
  /\ main \in [pc : {"create", "reset", "failed", "exit"},
               phase : 1..Len(Phases), i : 1..NUM_THREADS + 1]
  /\ thread \in [Threads -> [pc : {"none", "loop", "read", "write", "release", "done"},
                             i : 0..NUM_ITERATIONS, tmp : Nat]]

DataTypeOK ==
  /\ sharedCounter \in Nat
  /\ hMutex \in Threads \cup {Nobody} /\ cs \in Threads \cup {Nobody}
  /\ hSemaphore \in 0..1
  /\ displayed \in [1..Len(Phases) -> Nat \cup {-1}]

TypeOK == ControlTypeOK /\ DataTypeOK

Inside(t) == thread[t].pc \in {"read", "write", "release"}

\* Lines 21, 36 and 51, "safely increment the counter": no two threads are
\* between taking and giving back the lock of the phase.
MutualExclusion == \A t, u \in Threads : Inside(t) /\ Inside(u) => t = u

\* No increment is lost: the write of sharedCounter++ adds one to what the
\* counter is at that moment, not to what it was when it was read.
NoLostUpdate ==
  [][\A t \in Threads : Write(t) => sharedCounter' = sharedCounter + 1]_vars

\* Lines 107, 138 and 169: what a phase displays is the work of all its
\* threads and of no other phase.
DisplaysTotal ==
  \A p \in 1..Len(Phases) : displayed[p] \in {-1, NUM_THREADS * NUM_ITERATIONS}

\* Whenever main can start a phase, no lock is left taken by an earlier one.
PhaseStartsUnlocked ==
  main.pc = "reset" => hMutex = Nobody /\ cs = Nobody /\ hSemaphore = 1

\* Every phase ends and displays its counter, unless a CreateThread fails: no
\* thread waits for ever for a lock (lines 99, 130, 161 wait with INFINITE).
AllDisplayed == <>(main.pc = "failed" \/ \A p \in 1..Len(Phases) : displayed[p] >= 0)

\* The lock of the phase is taken as long as a thread is inside.
LockTaken ==
  \A t \in Threads : Inside(t) => CASE Kind = "mutex" -> hMutex = t
                                    [] Kind = "cs" -> cs = t
                                    [] Kind = "semaphore" -> hSemaphore = 0

\* What a thread read is still what the counter holds when it writes.
FreshRead == \A t \in Threads : thread[t].pc = "write" => thread[t].tmp = sharedCounter

\* Between phases every thread has returned.
AllReturned == main.pc = "reset" => \A t \in Threads : thread[t].pc = "done"

LockInv == TypeOK /\ AllReturned /\ LockTaken /\ MutualExclusion /\ FreshRead
=============================================================================
