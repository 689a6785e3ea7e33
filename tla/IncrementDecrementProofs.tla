---------------------- MODULE IncrementDecrementProofs ----------------------
(***************************************************************************)
(* Proofs about IncrementDecrement for any number of iterations.           *)
(***************************************************************************)
EXTENDS IncrementDecrement, TLAPS

LEMMA InitCountInv == Init => CountInv
<1> USE IterationsAssumption, NobodyAssumption DEF Init, Threads
<1>0. 0 \in 0..NUM_ITERATIONS /\ NUM_ITERATIONS + 1 \in Int OBVIOUS
<1>1. Init => ControlTypeOK BY <1>0 DEF ControlTypeOK
<1>4. ASSUME Init PROVE DataTypeOK
  <2>1. sharedNumber \in Int /\ printed \in Int BY <1>0, <1>4 DEF NotPrinted
  <2>2. cs \in Threads \cup {Nobody} BY <1>4
  <2>3. deleted \in BOOLEAN BY <1>4, Zenon
  <2> QED BY <2>1, <2>2, <2>3 DEF DataTypeOK
<1>2. Init => InsideOwns /\ FreshRead /\ Accounted
  BY DEF InsideOwns, FreshRead, Accounted, Inside, Updates
<1>3. Init => DoneIsAll /\ StartedRuns BY DEF DoneIsAll, StartedRuns
<1> QED BY <1>1, <1>2, <1>3, <1>4 DEF CountInv, TypeOK

LEMMA ControlTypeStep == CountInv /\ [Next]_vars => ControlTypeOK'
<1> SUFFICES ASSUME ControlTypeOK, DataTypeOK, [Next]_vars PROVE ControlTypeOK'
  BY DEF CountInv, TypeOK
<1> USE IterationsAssumption, NobodyAssumption
    DEF ControlTypeOK, DataTypeOK, Threads
<1>1. ASSUME Create("increment", "create1", "create2") PROVE ControlTypeOK'
  BY <1>1 DEF Create
<1>2. ASSUME Create("decrement", "create2", "wait1") PROVE ControlTypeOK'
  BY <1>2 DEF Create
<1>3. ASSUME Wait("increment", "wait1", "wait2") PROVE ControlTypeOK'
  BY <1>3 DEF Wait
<1>4. ASSUME Wait("decrement", "wait2", "delete") PROVE ControlTypeOK'
  BY <1>4 DEF Wait
<1>5. ASSUME Delete PROVE ControlTypeOK'
  BY <1>5 DEF Delete
<1>6. ASSUME PrintNumber PROVE ControlTypeOK'
  BY <1>6 DEF PrintNumber
<1>7. ASSUME NEW t \in Threads, Enter(t) PROVE ControlTypeOK'
  BY <1>7 DEF Enter, At, Goto
<1>8. ASSUME NEW t \in Threads, Read(t) PROVE ControlTypeOK'
  BY <1>8 DEF Read, At
<1>9. ASSUME NEW t \in Threads, Write(t) PROVE ControlTypeOK'
  BY <1>9 DEF Write, At, Goto, Delta
<1>10. ASSUME NEW t \in Threads, Leave(t) PROVE ControlTypeOK'
  BY <1>10 DEF Leave, At
<1>11. ASSUME NEW t \in Threads, Return(t) PROVE ControlTypeOK'
  BY <1>11 DEF Return, At, Goto
<1>12. ASSUME UNCHANGED vars PROVE ControlTypeOK'
  BY <1>12 DEF vars
<1> QED
  BY <1>1, <1>2, <1>3, <1>4, <1>5, <1>6, <1>7, <1>8, <1>9, <1>10, <1>11, <1>12
  DEF Next, Main, Thread, Exited

LEMMA DataTypeStep == CountInv /\ [Next]_vars => DataTypeOK'
<1> SUFFICES ASSUME ControlTypeOK, DataTypeOK, [Next]_vars PROVE DataTypeOK'
  BY DEF CountInv, TypeOK
<1> USE IterationsAssumption, NobodyAssumption
    DEF ControlTypeOK, DataTypeOK, Threads
<1>1. ASSUME Create("increment", "create1", "create2") PROVE DataTypeOK'
  BY <1>1 DEF Create
<1>2. ASSUME Create("decrement", "create2", "wait1") PROVE DataTypeOK'
  BY <1>2 DEF Create
<1>3. ASSUME Wait("increment", "wait1", "wait2") PROVE DataTypeOK'
  BY <1>3 DEF Wait
<1>4. ASSUME Wait("decrement", "wait2", "delete") PROVE DataTypeOK'
  BY <1>4 DEF Wait
<1>5. ASSUME Delete PROVE DataTypeOK'
  BY <1>5 DEF Delete
<1>6. ASSUME PrintNumber PROVE DataTypeOK'
  BY <1>6 DEF PrintNumber
<1>7. ASSUME NEW t \in Threads, Enter(t) PROVE DataTypeOK'
  BY <1>7 DEF Enter, At, Goto
<1>8. ASSUME NEW t \in Threads, Read(t) PROVE DataTypeOK'
  BY <1>8 DEF Read, At
<1>9. ASSUME NEW t \in Threads, Write(t) PROVE DataTypeOK'
  BY <1>9 DEF Write, At, Goto, Delta
<1>10. ASSUME NEW t \in Threads, Leave(t) PROVE DataTypeOK'
  BY <1>10 DEF Leave, At
<1>11. ASSUME NEW t \in Threads, Return(t) PROVE DataTypeOK'
  BY <1>11 DEF Return, At, Goto
<1>12. ASSUME UNCHANGED vars PROVE DataTypeOK'
  BY <1>12 DEF vars
<1> QED
  BY <1>1, <1>2, <1>3, <1>4, <1>5, <1>6, <1>7, <1>8, <1>9, <1>10, <1>11, <1>12
  DEF Next, Main, Thread, Exited

LEMMA InsideOwnsStep == CountInv /\ [Next]_vars => InsideOwns'
<1> SUFFICES ASSUME ControlTypeOK, DataTypeOK, InsideOwns, [Next]_vars PROVE InsideOwns'
  BY DEF CountInv, TypeOK
<1> USE IterationsAssumption, NobodyAssumption
    DEF ControlTypeOK, DataTypeOK, InsideOwns, Inside, Threads
<1>1. ASSUME Create("increment", "create1", "create2") PROVE InsideOwns'
  BY <1>1 DEF Create
<1>2. ASSUME Create("decrement", "create2", "wait1") PROVE InsideOwns'
  BY <1>2 DEF Create
<1>3. ASSUME Wait("increment", "wait1", "wait2") PROVE InsideOwns'
  BY <1>3 DEF Wait
<1>4. ASSUME Wait("decrement", "wait2", "delete") PROVE InsideOwns'
  BY <1>4 DEF Wait
<1>5. ASSUME Delete PROVE InsideOwns'
  BY <1>5 DEF Delete
<1>6. ASSUME PrintNumber PROVE InsideOwns'
  BY <1>6 DEF PrintNumber
<1>7. ASSUME NEW t \in Threads, Enter(t) PROVE InsideOwns'
  BY <1>7 DEF Enter, At, Goto
<1>8. ASSUME NEW t \in Threads, Read(t) PROVE InsideOwns'
  BY <1>8 DEF Read, At
<1>9. ASSUME NEW t \in Threads, Write(t) PROVE InsideOwns'
  BY <1>9 DEF Write, At, Goto, Delta
<1>10. ASSUME NEW t \in Threads, Leave(t) PROVE InsideOwns'
  BY <1>10 DEF Leave, At
<1>11. ASSUME NEW t \in Threads, Return(t) PROVE InsideOwns'
  BY <1>11 DEF Return, At, Goto
<1>12. ASSUME UNCHANGED vars PROVE InsideOwns'
  BY <1>12 DEF vars
<1> QED
  BY <1>1, <1>2, <1>3, <1>4, <1>5, <1>6, <1>7, <1>8, <1>9, <1>10, <1>11, <1>12
  DEF Next, Main, Thread, Exited

LEMMA FreshReadStep == CountInv /\ [Next]_vars => FreshRead'
<1> SUFFICES ASSUME ControlTypeOK, DataTypeOK, InsideOwns, FreshRead, [Next]_vars PROVE FreshRead'
  BY DEF CountInv, TypeOK
<1> USE IterationsAssumption, NobodyAssumption
    DEF ControlTypeOK, DataTypeOK, InsideOwns, FreshRead, Inside, Threads
<1>1. ASSUME Create("increment", "create1", "create2") PROVE FreshRead'
  BY <1>1 DEF Create
<1>2. ASSUME Create("decrement", "create2", "wait1") PROVE FreshRead'
  BY <1>2 DEF Create
<1>3. ASSUME Wait("increment", "wait1", "wait2") PROVE FreshRead'
  BY <1>3 DEF Wait
<1>4. ASSUME Wait("decrement", "wait2", "delete") PROVE FreshRead'
  BY <1>4 DEF Wait
<1>5. ASSUME Delete PROVE FreshRead'
  BY <1>5 DEF Delete
<1>6. ASSUME PrintNumber PROVE FreshRead'
  BY <1>6 DEF PrintNumber
<1>7. ASSUME NEW t \in Threads, Enter(t) PROVE FreshRead'
  BY <1>7 DEF Enter, At, Goto
<1>8. ASSUME NEW t \in Threads, Read(t) PROVE FreshRead'
  BY <1>8 DEF Read, At
<1>9. ASSUME NEW t \in Threads, Write(t) PROVE FreshRead'
  BY <1>9 DEF Write, At, Goto, Delta
<1>10. ASSUME NEW t \in Threads, Leave(t) PROVE FreshRead'
  BY <1>10 DEF Leave, At
<1>11. ASSUME NEW t \in Threads, Return(t) PROVE FreshRead'
  BY <1>11 DEF Return, At, Goto
<1>12. ASSUME UNCHANGED vars PROVE FreshRead'
  BY <1>12 DEF vars
<1> QED
  BY <1>1, <1>2, <1>3, <1>4, <1>5, <1>6, <1>7, <1>8, <1>9, <1>10, <1>11, <1>12
  DEF Next, Main, Thread, Exited

LEMMA AccountedStep == CountInv /\ [Next]_vars => Accounted'
<1> SUFFICES ASSUME ControlTypeOK, DataTypeOK, FreshRead, Accounted, StartedRuns, [Next]_vars PROVE Accounted'
  BY DEF CountInv, TypeOK
<1> USE IterationsAssumption, NobodyAssumption
    DEF ControlTypeOK, DataTypeOK, FreshRead, Accounted, Updates, Threads
<1>1. ASSUME Create("increment", "create1", "create2") PROVE Accounted'
  <2>1. CASE thread' = [thread EXCEPT !["increment"].pc = "loop"]
    <3>1. /\ thread'["increment"].i = thread["increment"].i /\ thread'["increment"].pc = "loop"
          /\ sharedNumber' = sharedNumber
          /\ \A t \in Threads \ {"increment"} : thread'[t] = thread[t]
      BY <1>1, <2>1 DEF Create
    <3>2. thread["increment"].pc = "none" BY <1>1 DEF Create, StartedRuns
    <3> QED BY <3>1, <3>2
  <2>2. CASE thread' = thread BY <1>1, <2>2 DEF Create
  <2> QED BY <1>1, <2>1, <2>2 DEF Create
<1>2. ASSUME Create("decrement", "create2", "wait1") PROVE Accounted'
  <2>1. CASE thread' = [thread EXCEPT !["decrement"].pc = "loop"]
    <3>1. /\ thread'["decrement"].i = thread["decrement"].i /\ thread'["decrement"].pc = "loop"
          /\ sharedNumber' = sharedNumber
          /\ \A t \in Threads \ {"decrement"} : thread'[t] = thread[t]
      BY <1>2, <2>1 DEF Create
    <3>2. thread["decrement"].pc = "none" BY <1>2 DEF Create, StartedRuns
    <3> QED BY <3>1, <3>2
  <2>2. CASE thread' = thread BY <1>2, <2>2 DEF Create
  <2> QED BY <1>2, <2>1, <2>2 DEF Create
<1>3. ASSUME Wait("increment", "wait1", "wait2") PROVE Accounted'
  BY <1>3 DEF Wait
<1>4. ASSUME Wait("decrement", "wait2", "delete") PROVE Accounted'
  BY <1>4 DEF Wait
<1>5. ASSUME Delete PROVE Accounted'
  BY <1>5 DEF Delete
<1>6. ASSUME PrintNumber PROVE Accounted'
  BY <1>6 DEF PrintNumber
<1>7. ASSUME NEW t \in Threads, Enter(t) PROVE Accounted'
  BY <1>7 DEF Enter, At, Goto
<1>8. ASSUME NEW t \in Threads, Read(t) PROVE Accounted'
  BY <1>8 DEF Read, At
<1>9. ASSUME NEW t \in Threads, Write(t) PROVE Accounted'
  BY <1>9 DEF Write, At, Goto, Delta
<1>10. ASSUME NEW t \in Threads, Leave(t) PROVE Accounted'
  BY <1>10 DEF Leave, At
<1>11. ASSUME NEW t \in Threads, Return(t) PROVE Accounted'
  BY <1>11 DEF Return, At, Goto
<1>12. ASSUME UNCHANGED vars PROVE Accounted'
  BY <1>12 DEF vars
<1> QED
  BY <1>1, <1>2, <1>3, <1>4, <1>5, <1>6, <1>7, <1>8, <1>9, <1>10, <1>11, <1>12
  DEF Next, Main, Thread, Exited

LEMMA DoneIsAllStep == CountInv /\ [Next]_vars => DoneIsAll'
<1> SUFFICES ASSUME ControlTypeOK, DataTypeOK, DoneIsAll, [Next]_vars PROVE DoneIsAll'
  BY DEF CountInv, TypeOK
<1> USE IterationsAssumption, NobodyAssumption
    DEF ControlTypeOK, DataTypeOK, DoneIsAll, Threads
<1>1. ASSUME Create("increment", "create1", "create2") PROVE DoneIsAll'
  BY <1>1 DEF Create
<1>2. ASSUME Create("decrement", "create2", "wait1") PROVE DoneIsAll'
  BY <1>2 DEF Create
<1>3. ASSUME Wait("increment", "wait1", "wait2") PROVE DoneIsAll'
  BY <1>3 DEF Wait
<1>4. ASSUME Wait("decrement", "wait2", "delete") PROVE DoneIsAll'
  BY <1>4 DEF Wait
<1>5. ASSUME Delete PROVE DoneIsAll'
  BY <1>5 DEF Delete
<1>6. ASSUME PrintNumber PROVE DoneIsAll'
  BY <1>6 DEF PrintNumber
<1>7. ASSUME NEW t \in Threads, Enter(t) PROVE DoneIsAll'
  BY <1>7 DEF Enter, At, Goto
<1>8. ASSUME NEW t \in Threads, Read(t) PROVE DoneIsAll'
  BY <1>8 DEF Read, At
<1>9. ASSUME NEW t \in Threads, Write(t) PROVE DoneIsAll'
  BY <1>9 DEF Write, At, Goto, Delta
<1>10. ASSUME NEW t \in Threads, Leave(t) PROVE DoneIsAll'
  BY <1>10 DEF Leave, At
<1>11. ASSUME NEW t \in Threads, Return(t) PROVE DoneIsAll'
  BY <1>11 DEF Return, At, Goto
<1>12. ASSUME UNCHANGED vars PROVE DoneIsAll'
  BY <1>12 DEF vars
<1> QED
  BY <1>1, <1>2, <1>3, <1>4, <1>5, <1>6, <1>7, <1>8, <1>9, <1>10, <1>11, <1>12
  DEF Next, Main, Thread, Exited

LEMMA StartedRunsStep == CountInv /\ [Next]_vars => StartedRuns'
<1> SUFFICES ASSUME ControlTypeOK, DataTypeOK, StartedRuns, [Next]_vars PROVE StartedRuns'
  BY DEF CountInv, TypeOK
<1> USE IterationsAssumption, NobodyAssumption
    DEF ControlTypeOK, DataTypeOK, StartedRuns, Threads
<1>1. ASSUME Create("increment", "create1", "create2") PROVE StartedRuns'
  BY <1>1 DEF Create
<1>2. ASSUME Create("decrement", "create2", "wait1") PROVE StartedRuns'
  BY <1>2 DEF Create
<1>3. ASSUME Wait("increment", "wait1", "wait2") PROVE StartedRuns'
  BY <1>3 DEF Wait
<1>4. ASSUME Wait("decrement", "wait2", "delete") PROVE StartedRuns'
  BY <1>4 DEF Wait
<1>5. ASSUME Delete PROVE StartedRuns'
  BY <1>5 DEF Delete
<1>6. ASSUME PrintNumber PROVE StartedRuns'
  BY <1>6 DEF PrintNumber
<1>7. ASSUME NEW t \in Threads, Enter(t) PROVE StartedRuns'
  BY <1>7 DEF Enter, At, Goto
<1>8. ASSUME NEW t \in Threads, Read(t) PROVE StartedRuns'
  BY <1>8 DEF Read, At
<1>9. ASSUME NEW t \in Threads, Write(t) PROVE StartedRuns'
  BY <1>9 DEF Write, At, Goto, Delta
<1>10. ASSUME NEW t \in Threads, Leave(t) PROVE StartedRuns'
  BY <1>10 DEF Leave, At
<1>11. ASSUME NEW t \in Threads, Return(t) PROVE StartedRuns'
  BY <1>11 DEF Return, At, Goto
<1>12. ASSUME UNCHANGED vars PROVE StartedRuns'
  BY <1>12 DEF vars
<1> QED
  BY <1>1, <1>2, <1>3, <1>4, <1>5, <1>6, <1>7, <1>8, <1>9, <1>10, <1>11, <1>12
  DEF Next, Main, Thread, Exited

\* The counter is the difference of the updates made, in every state.
LEMMA SpecCountInv == Spec => []CountInv
<1>1. CountInv /\ [Next]_vars => CountInv'
  BY ControlTypeStep, DataTypeStep, InsideOwnsStep, FreshReadStep, AccountedStep, DoneIsAllStep,
     StartedRunsStep DEF CountInv, TypeOK
<1> QED BY <1>1, InitCountInv, PTL DEF Spec

\* All variables keep their types.
THEOREM TypeCorrect == Spec => []TypeOK
BY SpecCountInv, PTL DEF CountInv

\* What line 49 prints: 0, or the work of the only thread that was created.
THEOREM PrintsDifference == Spec => []FinalValue
<1>1. CountInv => FinalValue
  <2> SUFFICES ASSUME CountInv, main = "exit"
               PROVE  printed = (IF hThread["increment"] THEN NUM_ITERATIONS ELSE 0)
                              - (IF hThread["decrement"] THEN NUM_ITERATIONS ELSE 0)
    BY DEF FinalValue
  <2>1. \A t \in Threads : Updates(t) = IF hThread[t] THEN NUM_ITERATIONS ELSE 0
    BY IterationsAssumption
    DEF CountInv, TypeOK, ControlTypeOK, StartedRuns, DoneIsAll, Updates, Threads
  <2> QED BY <2>1 DEF CountInv, StartedRuns, Accounted, Threads
<1> QED BY <1>1, SpecCountInv, PTL

\* Line 44 deletes a critical section nobody will enter any more.
THEOREM DeletesUnused == Spec => []DeletedUnused
<1>1. CountInv => DeletedUnused BY DEF CountInv, StartedRuns, DeletedUnused, Threads
<1> QED BY <1>1, SpecCountInv, PTL
=============================================================================
