------------------------- MODULE IncrementDecrement -------------------------
(***************************************************************************)
(* increment_decrement_thread.cpp: one thread adds one to sharedNumber     *)
(* NUM_ITERATIONS times, another takes one away as often, both inside the  *)
(* critical section cs; main waits for both, deletes cs and prints the     *)
(* number.                                                                 *)
(*                                                                         *)
(* main does not look at what CreateThread returned: with a NULL handle    *)
(* the wait for it fails at once and main goes on.                         *)
(***************************************************************************)
EXTENDS Integers

CONSTANTS NUM_ITERATIONS, Nobody

Threads == {"increment", "decrement"}

ASSUME IterationsAssumption == NUM_ITERATIONS \in Nat
ASSUME NobodyAssumption == Nobody \notin Threads

VARIABLES
  main,          \* "create1", "create2", "wait1", "wait2", "delete", "print", "exit"
  thread,        \* thread[t]: [pc, i, tmp]
  hThread,       \* hThread[t]: whether CreateThread gave a handle
  sharedNumber,
  cs,            \* the owner of the critical section
  deleted,       \* DeleteCriticalSection(&cs) was called
  printed        \* what was printed, NUM_ITERATIONS + 1 before

vars == <<main, thread, hThread, sharedNumber, cs, deleted, printed>>

NotPrinted == NUM_ITERATIONS + 1

Init ==
  /\ main = "create1"
  /\ thread = [t \in Threads |-> [pc |-> "none", i |-> 0, tmp |-> 0]]
  /\ hThread = [t \in Threads |-> FALSE]
  /\ sharedNumber = 0 /\ cs = Nobody /\ deleted = FALSE
  /\ printed = NotPrinted

(***************************************************************************)
(* main, lines 29-52.                                                      *)
(***************************************************************************)
Create(t, here, next) ==
  /\ main = here /\ main' = next
  /\ \/ /\ hThread' = [hThread EXCEPT ![t] = TRUE]
        /\ thread' = [thread EXCEPT ![t].pc = "loop"]
     \/ UNCHANGED <<hThread, thread>>                        \* returned NULL
  /\ UNCHANGED <<sharedNumber, cs, deleted, printed>>

\* WaitForSingleObject(handle, INFINITE): fails at once on NULL.
Wait(t, here, next) ==
  /\ main = here /\ main' = next
  /\ hThread[t] => thread[t].pc = "done"
  /\ UNCHANGED <<thread, hThread, sharedNumber, cs, deleted, printed>>

Delete ==
  /\ main = "delete" /\ main' = "print"
  /\ deleted' = TRUE
  /\ UNCHANGED <<thread, hThread, sharedNumber, cs, printed>>

PrintNumber ==
  /\ main = "print" /\ main' = "exit"
  /\ printed' = sharedNumber
  /\ UNCHANGED <<thread, hThread, sharedNumber, cs, deleted>>

\* Faulty: the second thread is not waited for.
MainOneWait == \/ Create("increment", "create1", "create2")
               \/ Create("decrement", "create2", "wait1")
               \/ Wait("increment", "wait1", "delete")
               \/ Delete \/ PrintNumber
Main == \/ Create("increment", "create1", "create2")
        \/ Create("decrement", "create2", "wait1")
        \/ Wait("increment", "wait1", "wait2") \/ Wait("decrement", "wait2", "delete")
        \/ Delete \/ PrintNumber

(***************************************************************************)
(* IncrementThread and DecrementThread, lines 9-27.                        *)
(***************************************************************************)
At(t, pc) == main # "exit" /\ thread[t].pc = pc
Goto(t, pc) == thread' = [thread EXCEPT ![t].pc = pc]

EnterNoWait(t) ==
  /\ At(t, "loop") /\ thread[t].i < NUM_ITERATIONS
  /\ cs' = t /\ Goto(t, "read")
  /\ UNCHANGED <<main, hThread, sharedNumber, deleted, printed>>
Enter(t) ==
  /\ At(t, "loop") /\ thread[t].i < NUM_ITERATIONS
  /\ cs = Nobody
  /\ cs' = t /\ Goto(t, "read")
  /\ UNCHANGED <<main, hThread, sharedNumber, deleted, printed>>

Read(t) ==
  /\ At(t, "read")
  /\ thread' = [thread EXCEPT ![t].tmp = sharedNumber, ![t].pc = "write"]
  /\ UNCHANGED <<main, hThread, sharedNumber, cs, deleted, printed>>

Delta(t) == IF t = "increment" THEN 1 ELSE -1

Write(t) ==
  /\ At(t, "write")
  /\ sharedNumber' = thread[t].tmp + Delta(t)
  /\ Goto(t, "leave")
  /\ UNCHANGED <<main, hThread, cs, deleted, printed>>

LeaveForgotten(t) ==
  /\ At(t, "leave")
  /\ thread' = [thread EXCEPT ![t].pc = "loop", ![t].i = @ + 1]
  /\ UNCHANGED <<main, hThread, sharedNumber, cs, deleted, printed>>
LeaveEarly(t) ==
  /\ At(t, "leave")
  /\ thread' = [thread EXCEPT ![t].pc = "loop", ![t].i = @ + 2]
  /\ cs' = Nobody
  /\ UNCHANGED <<main, hThread, sharedNumber, deleted, printed>>
Leave(t) ==
  /\ At(t, "leave")
  /\ thread' = [thread EXCEPT ![t].pc = "loop", ![t].i = @ + 1]
  /\ cs' = Nobody
  /\ UNCHANGED <<main, hThread, sharedNumber, deleted, printed>>

Return(t) ==
  /\ At(t, "loop") /\ thread[t].i = NUM_ITERATIONS
  /\ Goto(t, "done")
  /\ UNCHANGED <<main, hThread, sharedNumber, cs, deleted, printed>>

Thread(t) == Enter(t) \/ Read(t) \/ Write(t) \/ Leave(t) \/ Return(t)
Exited == main = "exit" /\ UNCHANGED vars

Next == Main \/ Exited \/ \E t \in Threads : Thread(t)

Spec == Init /\ [][Next]_vars

\* main and every started thread keep running.
FairSpec == Spec /\ WF_vars(Main) /\ \A t \in Threads : WF_vars(Thread(t))

-----------------------------------------------------------------------------
ControlTypeOK ==
  /\ main \in {"create1", "create2", "wait1", "wait2", "delete", "print", "exit"}
  /\ thread \in [Threads -> [pc : {"none", "loop", "read", "write", "leave", "done"},
                             i : 0..NUM_ITERATIONS, tmp : Int]]
  /\ hThread \in [Threads -> BOOLEAN]

DataTypeOK ==
  /\ sharedNumber \in Int /\ printed \in Int
  /\ cs \in Threads \cup {Nobody} /\ deleted \in BOOLEAN

TypeOK == ControlTypeOK /\ DataTypeOK

\* Line 49 prints 0 when both threads ran; with one of them missing it prints
\* exactly the work of the other, never something in between.
FinalValue ==
  main = "exit" =>
    printed = (IF hThread["increment"] THEN NUM_ITERATIONS ELSE 0)
            - (IF hThread["decrement"] THEN NUM_ITERATIONS ELSE 0)

\* Line 44: the critical section is deleted only when no thread can use it
\* any more, also when one CreateThread failed unnoticed.
DeletedUnused == deleted => \A t \in Threads : thread[t].pc \in {"none", "done"}

\* The program ends.
Terminates == <>(main = "exit")

Inside(t) == thread[t].pc \in {"read", "write", "leave"}

\* How many updates thread t has made.
Updates(t) == thread[t].i + (IF thread[t].pc = "leave" THEN 1 ELSE 0)

InsideOwns == \A t \in Threads : Inside(t) => cs = t /\ thread[t].i < NUM_ITERATIONS
FreshRead == \A t \in Threads : thread[t].pc = "write" => thread[t].tmp = sharedNumber
Accounted == sharedNumber = Updates("increment") - Updates("decrement")
DoneIsAll == \A t \in Threads : /\ thread[t].pc = "done" => thread[t].i = NUM_ITERATIONS
                                /\ thread[t].pc = "none" => thread[t].i = 0

\* A thread exists exactly if its handle does, and main is past a wait only
\* when that thread has returned.
StartedRuns ==
  /\ \A t \in Threads : hThread[t] <=> thread[t].pc # "none"
  /\ main \in {"wait2", "delete", "print", "exit"} =>
       thread["increment"].pc \in {"none", "done"}
  /\ main \in {"delete", "print", "exit"} => thread["decrement"].pc \in {"none", "done"}
  /\ main \in {"create1"} => thread["increment"].pc = "none"
  /\ main \in {"create1", "create2"} => thread["decrement"].pc = "none"
  /\ deleted => main \in {"print", "exit"}
  /\ main = "exit" => printed = sharedNumber

\* The counter is always the difference of the updates made so far.
CountInv == /\ TypeOK /\ InsideOwns /\ FreshRead /\ Accounted
            /\ DoneIsAll /\ StartedRuns
=============================================================================
