---------------------------- MODULE ProgramProofs ----------------------------
(***************************************************************************)
(* For every set of the repository's pairs of programs, and any number of  *)
(* pieces the network holds: whatever fails and however the threads are    *)
(* interleaved, a program stays on its lines, main() returns with its      *)
(* sockets closed, no thread calls the system for a socket another has     *)
(* closed, and the file that is saved is the file that was sent.  Nor do   *)
(* both programs of a stream ever wait for each other.                     *)
(* The first three are read off the tables line by line (ProgramLines),    *)
(* the last one pair by pair (ProgramTurns).                               *)
(*                                                                         *)
(* The last part is about the checksum the ICMP programs put into their    *)
(* packets.                                                                *)
(***************************************************************************)
EXTENDS ProgramTurns, IcmpChecksum, SequenceTheorems, TLAPS

(***************************************************************************)
(* The invariants.                                                         *)
(***************************************************************************)
\* The texts a piece may be of: those of the tables, and what is made of them.
Arguments(P) == {P[i].arg : i \in DOMAIN P}
Tables == {Programs[q][p] : q \in DOMAIN Programs, p \in Procs}
TableTexts == UNION {Arguments(P) : P \in Tables}
Texts == {"no bytes", "line", "handshake", "xhandshake", "data", "xdata", "crc data", "crc xdata",
          "crc file", "crc of something else"} \cup TableTexts
Piece == Texts \X Nat

Shapes ==
  /\ pair \in Pairs
  /\ pc \in [Procs -> [Threads -> Nat]]
  /\ held \in [Procs -> SUBSET Resources]
  /\ running \in [Procs -> BOOLEAN]
  /\ wire \in [Procs -> Seq(Piece)] /\ got \in [Procs -> Seq(Piece)]
  /\ \A p \in Procs : Len(wire[p]) <= MaxPieces /\ Len(got[p]) <= MaxPieces
  /\ ended \in [Procs -> BOOLEAN]
  /\ link \in {"none", "listening", "pending", "up", "lost"}

\* main() stays on its lines and its threads on theirs.
OnLines ==
  \A p \in Procs :
    /\ pc[p]["main"] \in MainLines(Code(p)) \cup {Return, Crashed}
    /\ \A t \in Workers : pc[p][t] \in ThreadLines(Code(p)) \cup {Left, Unstarted}

\* A process holds what its tables say main() may hold where it stands.
HoldsLittle ==
  pair \notin LeftToTheSystem =>
    \A p \in Procs :
      /\ pc[p]["main"] \in MainLines(Code(p)) => held[p] \subseteq On(pc[p]["main"], MayHold(Code(p)))
      /\ pc[p]["main"] = Return => held[p] \subseteq {"addr"}

\* Where main() needs its connection it has it; a thread that runs has it too,
\* and main() is between starting and joining it.
OpenWhereNeeded ==
  pair # "polling" =>
    \A p \in Procs :
      /\ pc[p]["main"] \in OpenLines(Code(p)) => "conn" \in held[p]
      /\ \A t \in Workers : Alive(p) /\ pc[p][t] \in ThreadLines(Code(p)) =>
           "conn" \in held[p] /\ pc[p]["main"] \in Span(Code(p), t)

\* A server whose threads run takes no second connection.
TakesOne ==
  pair # "polling" =>
    (pc["server"]["main"] \in HasAccepted(Code("server")) => link \in {"up", "lost"})

\* The stream from the client of the file transfer to its server, once n
\* pieces have been sent and the server has taken k of them: what is on the way
\* are the pieces between, and what the server has in its buffer are the last it
\* took, of the header (line 7) or of the file (lines 9, 15 and 10).  The client
\* sends the header on line 5 and the file on line 6.  A server that found less
\* than the header went on to line 12, and the claim ends there.
Stream == Msg("header") \o Msg("file")
Reading == 1..9 \cup {15}
InOrder(n, k) ==
  LET c == pc["client"]["main"]
      s == pc["server"]["main"]
      read == got["server"]
  IN  /\ c \in 1..5 => n = 0
      /\ c = 6 => n = 2
      /\ s \in Reading => k <= n /\ wire["server"] = SubSeq(Stream, k + 1, n)
      /\ s \in 1..6 => k = 0
      /\ s = 7 => k \in 1..2 /\ read = SubSeq(Stream, 1, k)
      /\ s = 8 => k = 2
      /\ s = 9 => k \in 3..4 /\ read = SubSeq(Stream, 3, k)
      /\ s = 15 => k = 3 /\ read = SubSeq(Stream, 3, 3)
      /\ s = 10 => read = Msg("file")
StreamInOrder == pair = "file" => \E n \in {0, 2, 4}, k \in 0..4 : InOrder(n, k)

\* What is to be seen of the two main() of a stream is a view TLC has found.
OnView == pair \in Streams => View \in Views(pair)

\* The server of the validated exchange receives the data encrypted (line 14) and
\* decrypts them (line 15), so that it never has them encrypted where it computes
\* the CRC it answers with (line 16); the client then never meets theirs.
DataAreDecrypted ==
  LET s == pc["server"]["main"]
  IN  pair = "validation" =>
        /\ Without(wire["server"], {"data"})
        /\ s = 15 => Without(got["server"], {"data"})
        /\ s = 16 => Without(got["server"], {"xdata"})
        /\ Without(wire["client"], {"crc xdata"}) /\ Without(got["client"], {"crc xdata"})

IInv ==
  /\ Shapes /\ OnLines /\ HoldsLittle /\ OpenWhereNeeded /\ TakesOne /\ StreamInOrder
  /\ Unheard /\ OnView /\ DataAreDecrypted

-----------------------------------------------------------------------------
(***************************************************************************)
(* Every step of a thread is a way on from its line.                       *)
(***************************************************************************)
\* Thread t of p leaves its line by the way w; what the step does to the
\* connection, and what it waited for, as far as the invariants need it.
Takes(p, t, w) ==
  /\ w \in Ways(Code(p), pc[p][t])
  /\ Jump(p, t, w.to)
  /\ held' = [held EXCEPT ![p] = (@ \cup w.adds) \ w.rel]
  /\ Here(p, t).op = "accept" /\ w = Ahead(Code(p), pc[p][t]) => link = "pending" /\ link' = "up"
  /\ Here(p, t).op = "join" => pc[p][Here(p, t).arg] = Left
  /\ \/ link' = link
     \/ Here(p, t).op = "listen"
     \/ link = "listening"
     \/ Here(p, t).op = "accept" /\ link' = "up"

LEMMA AdvanceIsAhead ==
  ASSUME NEW p \in Procs, NEW t \in Threads, Advance(p, t),
         held \in [Procs -> SUBSET Resources],
         held' = [held EXCEPT ![p] = (@ \cup Gained(Here(p, t))) \ Dropped(Here(p, t))]
  PROVE  LET w == Ahead(Code(p), pc[p][t])
         IN  /\ w \in Ways(Code(p), pc[p][t]) /\ Jump(p, t, w.to)
             /\ held' = [held EXCEPT ![p] = (@ \cup w.adds) \ w.rel]
<1> DEFINE w == Ahead(Code(p), pc[p][t])
<1>1. w.adds = Gained(Here(p, t)) /\ w.rel = Dropped(Here(p, t))
  BY DEF Ahead, Here
<1>2. w.to = IF Here(p, t).ok # Thru THEN Here(p, t).ok ELSE Below(p, t)
  BY DEF Ahead, Here, Target, LineBelow, Below
<1>3. w \in Ways(Code(p), pc[p][t])
  BY DEF Ways
<1>4. Jump(p, t, w.to)
  BY <1>2 DEF Advance
<1> QED
  BY <1>1, <1>3, <1>4

LEMMA BranchIsAside ==
  ASSUME NEW p \in Procs, NEW t \in Threads, held \in [Procs -> SUBSET Resources],
         NEW b \in Branches(Here(p, t)), Branch(p, t, b)
  PROVE  \E w \in Aside(Code(p), pc[p][t]) :
           Jump(p, t, w.to) /\ held' = [held EXCEPT ![p] = (@ \cup w.adds) \ w.rel]
<1> DEFINE w == [adds |-> {}, rel |-> b.rel, to |-> Target(Code(p), pc[p][t], b.to)]
<1>1. w \in Aside(Code(p), pc[p][t])
  BY DEF Aside, Here
<1>2. w.to = IF b.to # Thru THEN b.to ELSE Below(p, t)
  BY DEF Target, LineBelow, Below
<1>3. Jump(p, t, w.to)
  BY <1>2 DEF Branch
<1>4. (held[p] \cup w.adds) \ w.rel = held[p] \ b.rel
  OBVIOUS
<1>5. held' = [held EXCEPT ![p] = (@ \cup w.adds) \ w.rel]
  BY <1>4 DEF Branch
<1> QED
  BY <1>1, <1>3, <1>5

\* A branch never makes the connection accept() makes.
LEMMA AsideIsNotAhead ==
  ASSUME NEW P, NEW i, P[i].op = "accept", NEW w \in Aside(P, i)
  PROVE  w # Ahead(P, i)
BY DEF Aside, Ahead, Gained

\* A step that goes ahead and leaves held alone.
LEMMA AdvanceTakes ==
  ASSUME NEW p \in Procs, NEW t \in Threads, Advance(p, t),
         held \in [Procs -> SUBSET Resources], UNCHANGED held,
         Here(p, t).op \notin {"acquire", "accept", "release"},
         Here(p, t).op = "join" => pc[p][Here(p, t).arg] = Left,
         link' = link \/ Here(p, t).op = "listen" \/ link = "listening"
  PROVE  \E w : Takes(p, t, w)
<1>1. Gained(Here(p, t)) = {} /\ Dropped(Here(p, t)) = {}
  BY DEF Gained, Dropped
<1>2. held' = [held EXCEPT ![p] = (@ \cup Gained(Here(p, t))) \ Dropped(Here(p, t))]
  BY <1>1
<1> QED
  BY <1>2, AdvanceIsAhead DEF Takes

\* A step that branches.
LEMMA BranchTakes ==
  ASSUME NEW p \in Procs, NEW t \in Threads, held \in [Procs -> SUBSET Resources],
         NEW b \in Branches(Here(p, t)), Branch(p, t, b), UNCHANGED link,
         Here(p, t).op # "join"
  PROVE  \E w : Takes(p, t, w)
<1>1. PICK w \in Aside(Code(p), pc[p][t]) :
        Jump(p, t, w.to) /\ held' = [held EXCEPT ![p] = (@ \cup w.adds) \ w.rel]
  BY BranchIsAside
<1>2. w \in Ways(Code(p), pc[p][t])
  BY <1>1 DEF Ways
<1>3. Here(p, t).op = "accept" => w # Ahead(Code(p), pc[p][t])
  BY AsideIsNotAhead DEF Here
<1> QED
  BY <1>1, <1>2, <1>3 DEF Takes

LEMMA EveryStepIsAWay ==
  ASSUME NEW p \in Procs, NEW t \in Threads, held \in [Procs -> SUBSET Resources],
         Goes(p, t) \/ Failed(p, t)
  PROVE  /\ Runs(p, t) /\ UNCHANGED pair
         /\ Spawned(p, t) \/ \E w : Takes(p, t, w)
<1> USE DEF At
<1>1. CASE Acquired(p, t)
  <2>1. Gained(Here(p, t)) = {Here(p, t).arg} /\ Dropped(Here(p, t)) = {}
    BY <1>1 DEF Acquired, Gained, Dropped
  <2>2. held' = [held EXCEPT ![p] = (@ \cup Gained(Here(p, t))) \ Dropped(Here(p, t))]
    BY <1>1, <2>1 DEF Acquired
  <2> QED
    BY <1>1, <2>2, AdvanceIsAhead DEF Acquired, Takes
<1>2. CASE Released(p, t)
  <2>1. Gained(Here(p, t)) = {} /\ Dropped(Here(p, t)) = Here(p, t).fail.rel
    BY <1>2 DEF Released, Gained, Dropped
  <2>2. held' = [held EXCEPT ![p] = (@ \cup Gained(Here(p, t))) \ Dropped(Here(p, t))]
    BY <1>2, <2>1 DEF Released
  <2> QED
    BY <1>2, <2>2, AdvanceIsAhead DEF Released, Takes
<1>3. CASE Accepted(p, t)
  <2>1. Gained(Here(p, t)) = {"conn"} /\ Dropped(Here(p, t)) = {}
    BY <1>3 DEF Accepted, Gained, Dropped
  <2>2. held' = [held EXCEPT ![p] = (@ \cup Gained(Here(p, t))) \ Dropped(Here(p, t))]
    BY <1>3, <2>1 DEF Accepted
  <2> QED
    BY <1>3, <2>2, AdvanceIsAhead DEF Accepted, Takes
<1>4. CASE Called(p, t) \/ ShutDown(p, t) \/ DidNothing(p, t) \/ Begun(p, t) \/ ClearedFlag(p, t)
  BY <1>4, AdvanceTakes DEF Called, ShutDown, DidNothing, Begun, ClearedFlag
<1>5. CASE Listening(p, t) \/ Connected(p, t) \/ ConnectStarted(p, t)
  BY <1>5, AdvanceTakes DEF Listening, Connected, ConnectStarted, Listens
<1>6. CASE Sent(p, t) \/ SentTo(p, t)
  BY <1>6, AdvanceTakes DEF Sent, SentTo
<1>7. CASE Received(p, t)
  BY <1>7, AdvanceTakes DEF Received
<1>8. CASE Decrypted(p, t)
  BY <1>8, AdvanceTakes DEF Decrypted
<1>9. CASE Joined(p, t)
  BY <1>9, AdvanceTakes DEF Joined
<1>10. CASE NoRoom(p, t) \/ NothingYet(p, t) \/ NotConnected(p, t)
  <2>1. Here(p, t).fail \in Branches(Here(p, t))
    BY <1>10 DEF NoRoom, NothingYet, NotConnected, Branches, Branching, Receiving
  <2> QED
    BY <1>10, <2>1, BranchTakes DEF NoRoom, NothingYet, NotConnected
<1>11. CASE ReceivedEnd(p, t) \/ ReadNoBytes(p, t)
  <2>1. Here(p, t).zero \in Branches(Here(p, t))
    BY <1>11 DEF ReceivedEnd, ReadNoBytes, Branches, Receiving
  <2> QED
    BY <1>11, <2>1, BranchTakes DEF ReceivedEnd, ReadNoBytes
<1>12. CASE Compared(p, t) \/ LookedAtFlag(p, t)
  <2>1. Here(p, t).fail \in Branches(Here(p, t))
    BY <1>12 DEF Compared, LookedAtFlag, Branches, Branching
  <2>2. (Advance(p, t) /\ UNCHANGED held) \/ Branch(p, t, Here(p, t).fail)
    BY <1>12 DEF Compared, LookedAtFlag
  <2> QED
    BY <1>12, <2>1, <2>2, AdvanceTakes, BranchTakes DEF Compared, LookedAtFlag
<1>13. CASE Failed(p, t)
  <2>1. Here(p, t).fail \in Branches(Here(p, t)) /\ Here(p, t).op # "join"
    BY <1>13 DEF Failed, Branches, Branching, Fallible
  <2> QED
    BY <1>13, <2>1, BranchTakes DEF Failed
<1>14. CASE Spawned(p, t)
  BY <1>14 DEF Spawned
<1> QED
  BY <1>1, <1>2, <1>3, <1>4, <1>5, <1>6, <1>7, <1>8, <1>9, <1>10, <1>11, <1>12, <1>13, <1>14
  DEF Goes

-----------------------------------------------------------------------------
(***************************************************************************)
(* Where a way leads.                                                      *)
(***************************************************************************)
LEMMA CodeConnects ==
  ASSUME pair \in Pairs, NEW p \in Procs
  PROVE  LinesConnect(Code(p))
BY PairsAssumption, TablesConnect DEF Code

LEMMA CodeStays ==
  ASSUME UNCHANGED pair
  PROVE  \A p \in Procs : Code(p)' = Code(p)
BY DEF Code

LEMMA LinesAreNatural ==
  ASSUME NEW P, LinesConnect(P)
  PROVE  DOMAIN P \subseteq Nat /\ Ends \subseteq Nat
BY DEF LinesConnect, Ends, Return, Crashed, Left, Unstarted

\* A way stays with its function, and a thread's way acquires nothing.
LEMMA WayStays ==
  ASSUME Shapes, OnLines, NEW p \in Procs, NEW t \in Threads, Runs(p, t),
         NEW w \in Ways(Code(p), pc[p][t])
  PROVE  /\ t = "main" => /\ pc[p][t] \in MainLines(Code(p))
                          /\ w.to \in MainLines(Code(p)) \cup {Return, Crashed}
         /\ t # "main" => /\ t \in Workers /\ pc[p][t] \in ThreadLines(Code(p))
                          /\ w.to \in ThreadLines(Code(p)) \cup {Left, Crashed}
                          /\ w.adds = {}
         /\ w.to \in Nat /\ w.adds \subseteq Resources
<1> DEFINE P == Code(p)
           i == pc[p][t]
<1> HIDE DEF P, i
<1>1. LinesConnect(P) /\ i \in DOMAIN P /\ w \in Ways(P, i)
  BY CodeConnects DEF Shapes, Runs, P, i
<1>2. w.adds \subseteq Gained(P[i])
  BY <1>1 DEF Ways, Ahead, Aside
<1>3. w.adds \subseteq Resources
  BY <1>1, <1>2 DEF LinesConnect
<1>4. Ends \cap DOMAIN P = {}
  BY <1>1 DEF LinesConnect
<1>5. MainLines(P) \subseteq DOMAIN P /\ ThreadLines(P) \subseteq DOMAIN P
  BY DEF MainLines, ThreadLines
<1>6. CASE t = "main"
  <2>1. i \in MainLines(P)
    BY <1>1, <1>4, <1>6 DEF OnLines, Ends, P, i
  <2>2. w.to \in MainLines(P) \cup {Return, Crashed}
    BY <1>1, <2>1 DEF LinesConnect
  <2>3. w.to \in Nat
    BY <1>1, <1>5, <2>2, LinesAreNatural DEF Ends
  <2> QED
    BY <1>3, <1>6, <2>1, <2>2, <2>3 DEF P, i
<1>7. CASE t # "main"
  <2>1. t \in Workers
    BY <1>7 DEF Workers
  <2>2. i \in ThreadLines(P)
    BY <1>1, <1>4, <2>1 DEF OnLines, Ends, P, i
  <2>3. w.to \in ThreadLines(P) \cup {Left, Crashed}
    BY <1>1, <2>2 DEF LinesConnect
  <2>4. w.adds = {}
    BY <1>1, <1>2, <2>2 DEF LinesConnect, ThreadLines
  <2>5. w.to \in Nat
    BY <1>1, <1>5, <2>3, LinesAreNatural DEF Ends
  <2> QED
    BY <1>3, <1>7, <2>1, <2>2, <2>3, <2>4, <2>5 DEF P, i
<1> QED
  BY <1>6, <1>7

\* What taking a way changes, and what it does not.
LEMMA WayMoves ==
  ASSUME Shapes, NEW p \in Procs, NEW t \in Threads, NEW w, Takes(p, t, w), w.to \in Nat
  PROVE  /\ pc' \in [Procs -> [Threads -> Nat]]
         /\ \A q \in Procs \ {p} : pc'[q] = pc[q] /\ held'[q] = held[q]
         /\ held'[p] = (held[p] \cup w.adds) \ w.rel
         /\ w.to = Crashed => pc'[p]["main"] = Crashed
         /\ w.to # Crashed => pc'[p][t] = w.to
         /\ \A u \in Workers : u # t \/ w.to = Crashed => pc'[p][u] = pc[p][u]
         /\ t # "main" /\ w.to # Crashed => pc'[p]["main"] = pc[p]["main"]
BY DEF Shapes, Takes, Jump, Threads, Workers, Crashed

\* Starting a thread is a way of main() too.
LEMMA SpawnMoves ==
  ASSUME Shapes, OnLines, NEW p \in Procs, NEW t \in Threads, Runs(p, t), Spawned(p, t)
  PROVE  LET i == pc[p][t]
             u == Here(p, t).arg[1]
             w == Ahead(Code(p), i)
         IN  /\ t = "main" /\ i \in MainLines(Code(p)) /\ i \in SpawnLines(Code(p), u)
             /\ u \in Workers /\ w \in Ways(Code(p), i)
             /\ w.to = i + 1 /\ w.adds = {} /\ w.rel = {}
             /\ w.to \in MainLines(Code(p))
             /\ pc' \in [Procs -> [Threads -> Nat]]
             /\ pc'[p]["main"] = w.to /\ pc'[p][u] \in ThreadLines(Code(p))
             /\ \A v \in Workers \ {u} : pc'[p][v] = pc[p][v]
             /\ \A q \in Procs \ {p} : pc'[q] = pc[q]
             /\ UNCHANGED <<held, link>>
<1> DEFINE P == Code(p)
           i == pc[p][t]
           u == P[i].arg[1]
           n == P[i].arg[2]
           w == Ahead(P, i)
<1>1. LinesConnect(P)
  BY CodeConnects DEF Shapes
<1>2. i \in DOMAIN P /\ P[i].op = "spawn"
  BY DEF Spawned, At, Runs, Here
<1>3. /\ i \in MainLines(P) /\ P[i].ok = Thru /\ i # Len(P)
      /\ u \in Workers /\ n \in ThreadLines(P)
  BY <1>1, <1>2 DEF LinesConnect
<1>4. t = "main"
  <2>1. Ends \cap DOMAIN P = {}
    BY <1>1 DEF LinesConnect
  <2> QED
    BY <1>2, <1>3, <2>1 DEF OnLines, Workers, ThreadLines, Ends
<1>5. w \in Ways(P, i)
  BY DEF Ways
<1>6. w.to = i + 1 /\ w.adds = {} /\ w.rel = {}
  BY <1>2, <1>3 DEF Ahead, Target, LineBelow, Gained, Dropped, Thru
<1>7. i + 1 \in MainLines(P)
  <2>1. w.to \in MainLines(P) \cup {Return, Crashed}
    BY <1>1, <1>3, <1>5 DEF LinesConnect
  <2>2. i + 1 \in DOMAIN P
    BY <1>1, <1>2, <1>3 DEF LinesConnect
  <2>3. Ends \cap DOMAIN P = {}
    BY <1>1 DEF LinesConnect
  <2> QED
    BY <1>6, <2>1, <2>2, <2>3 DEF Ends
<1>8. n \in Nat /\ i + 1 \in Nat
  BY <1>1, <1>3, <1>7, LinesAreNatural DEF MainLines, ThreadLines
<1>9. pc' = [pc EXCEPT ![p]["main"] = i + 1, ![p][u] = n]
  BY <1>4 DEF Spawned, Here
<1>10. /\ pc' \in [Procs -> [Threads -> Nat]]
       /\ pc'[p]["main"] = i + 1 /\ pc'[p][u] = n
       /\ \A v \in Workers \ {u} : pc'[p][v] = pc[p][v]
       /\ \A q \in Procs \ {p} : pc'[q] = pc[q]
  BY <1>3, <1>8, <1>9 DEF Shapes, Threads, Workers
<1>11. i \in SpawnLines(P, u)
  BY <1>2 DEF SpawnLines
<1> QED
  BY <1>3, <1>4, <1>5, <1>6, <1>7, <1>10, <1>11 DEF Spawned, Here

-----------------------------------------------------------------------------
(***************************************************************************)
(* The lines, and what is held on them.                                    *)
(***************************************************************************)
\* What happens to the connection on its own.
Quiet == UNCHANGED <<pc, held>> /\ (link' = link \/ link' = "lost")

LEMMA StepCases ==
  ASSUME Shapes, [Next]_vars
  PROVE  /\ UNCHANGED pair
         /\ \/ Quiet
            \/ \E p \in Procs, t \in Threads :
                 Runs(p, t) /\ (Spawned(p, t) \/ \E w : Takes(p, t, w))
<1>1. CASE UNCHANGED vars
  BY <1>1 DEF vars, Quiet
<1>2. CASE Lose \/ \E p \in Procs : Reset(p)
  BY <1>2 DEF Lose, Reset, Quiet
<1>3. ASSUME NEW p \in Procs, NEW t \in Threads, Goes(p, t) \/ Failed(p, t)
      PROVE  /\ UNCHANGED pair
             /\ Runs(p, t) /\ (Spawned(p, t) \/ \E w : Takes(p, t, w))
  BY <1>3, EveryStepIsAWay DEF Shapes
<1> QED
  BY <1>1, <1>2, <1>3 DEF Next

LEMMA OnLinesStep ==
  ASSUME Shapes, OnLines, [Next]_vars
  PROVE  OnLines'
<1> SUFFICES ASSUME NEW q \in Procs
             PROVE  /\ pc'[q]["main"] \in MainLines(Code(q)) \cup {Return, Crashed}
                    /\ \A u \in Workers :
                         pc'[q][u] \in ThreadLines(Code(q)) \cup {Left, Unstarted}
  BY StepCases, CodeStays DEF OnLines
<1>1. CASE Quiet
  BY <1>1 DEF Quiet, OnLines
<1>2. ASSUME NEW p \in Procs, NEW t \in Threads, Runs(p, t), Spawned(p, t)
      PROVE  /\ pc'[q]["main"] \in MainLines(Code(q)) \cup {Return, Crashed}
             /\ \A u \in Workers : pc'[q][u] \in ThreadLines(Code(q)) \cup {Left, Unstarted}
  <2>1. CASE q # p
    BY <1>2, <2>1, SpawnMoves DEF OnLines
  <2>2. CASE q = p
    BY <1>2, <2>2, SpawnMoves DEF OnLines
  <2> QED
    BY <2>1, <2>2
<1>3. ASSUME NEW p \in Procs, NEW t \in Threads, Runs(p, t), NEW w, Takes(p, t, w)
      PROVE  /\ pc'[q]["main"] \in MainLines(Code(q)) \cup {Return, Crashed}
             /\ \A u \in Workers : pc'[q][u] \in ThreadLines(Code(q)) \cup {Left, Unstarted}
  <2>1. w \in Ways(Code(p), pc[p][t])
    BY <1>3 DEF Takes
  <2>2. CASE q # p
    BY <1>3, <2>1, <2>2, WayStays, WayMoves DEF OnLines
  <2>3. CASE q = p /\ t = "main"
    BY <1>3, <2>1, <2>3, WayStays, WayMoves DEF OnLines, Workers
  <2>4. CASE q = p /\ t # "main"
    BY <1>3, <2>1, <2>4, WayStays, WayMoves DEF OnLines
  <2> QED
    BY <2>2, <2>3, <2>4
<1> QED
  BY <1>1, <1>2, <1>3, StepCases

LEMMA HoldsLittleStep ==
  ASSUME Shapes, OnLines, HoldsLittle, [Next]_vars
  PROVE  HoldsLittle'
<1> SUFFICES ASSUME pair \notin LeftToTheSystem, NEW q \in Procs
             PROVE  /\ pc'[q]["main"] \in MainLines(Code(q))
                         => held'[q] \subseteq On(pc'[q]["main"], MayHold(Code(q)))
                    /\ pc'[q]["main"] = Return => held'[q] \subseteq {"addr"}
  BY StepCases, CodeStays DEF HoldsLittle
<1> DEFINE may == MayHold(Code(q))
           now == pc[q]["main"]
<1>1. /\ now \in MainLines(Code(q)) => held[q] \subseteq On(now, may)
      /\ now = Return => held[q] \subseteq {"addr"}
  BY DEF HoldsLittle
<1>2. \A i \in MainLines(Code(q)) : \A w \in Ways(Code(q), i) :
        /\ w.to \in MainLines(Code(q)) => (On(i, may) \cup w.adds) \ w.rel \subseteq On(w.to, may)
        /\ w.to = Return => (On(i, may) \cup w.adds) \ w.rel \subseteq {"addr"}
  <2>1. Tidy(Code(q))
    BY PairsAssumption, TablesTidy DEF Code, Shapes
  <2> QED
    BY <2>1 DEF Tidy
<1>3. Crashed \notin MainLines(Code(q)) /\ Crashed # Return
  BY CodeConnects DEF Shapes, LinesConnect, Ends, MainLines, Crashed, Return
<1> HIDE DEF may, now
<1>4. CASE Quiet
  BY <1>1, <1>4 DEF Quiet, may, now
<1>5. ASSUME NEW p \in Procs, NEW t \in Threads, Runs(p, t), Spawned(p, t)
      PROVE  /\ pc'[q]["main"] \in MainLines(Code(q)) => held'[q] \subseteq On(pc'[q]["main"], may)
             /\ pc'[q]["main"] = Return => held'[q] \subseteq {"addr"}
  <2>1. CASE q # p
    BY <1>1, <1>5, <2>1, SpawnMoves DEF now
  <2>2. CASE q = p
    <3> DEFINE w == Ahead(Code(q), now)
    <3>1. /\ now \in MainLines(Code(q)) /\ w \in Ways(Code(q), now)
          /\ w.adds = {} /\ w.rel = {} /\ pc'[q]["main"] = w.to /\ held'[q] = held[q]
      BY <1>5, <2>2, SpawnMoves DEF now
    <3>2. (On(now, may) \cup w.adds) \ w.rel = On(now, may)
      BY <3>1
    <3> QED
      BY <1>1, <1>2, <3>1, <3>2
  <2> QED
    BY <2>1, <2>2
<1>6. ASSUME NEW p \in Procs, NEW t \in Threads, Runs(p, t), NEW w, Takes(p, t, w)
      PROVE  /\ pc'[q]["main"] \in MainLines(Code(q)) => held'[q] \subseteq On(pc'[q]["main"], may)
             /\ pc'[q]["main"] = Return => held'[q] \subseteq {"addr"}
  <2>1. w \in Ways(Code(p), pc[p][t])
    BY <1>6 DEF Takes
  <2>2. w.to \in Nat
    BY <1>6, <2>1, WayStays
  <2>3. CASE q # p
    BY <1>1, <1>6, <2>2, <2>3, WayMoves DEF now
  <2>4. CASE w.to = Crashed
    BY <1>3, <1>6, <2>2, <2>3, <2>4, WayMoves
  <2>5. CASE q = p /\ t = "main" /\ w.to # Crashed
    <3>1. now \in MainLines(Code(q)) /\ w \in Ways(Code(q), now)
      BY <1>6, <2>1, <2>5, WayStays DEF now
    <3>2. pc'[q]["main"] = w.to /\ held'[q] = (held[q] \cup w.adds) \ w.rel
      BY <1>6, <2>2, <2>5, WayMoves
    <3>3. held'[q] \subseteq (On(now, may) \cup w.adds) \ w.rel
      BY <1>1, <3>1, <3>2
    <3> QED
      BY <1>2, <3>1, <3>2, <3>3
  <2>6. CASE q = p /\ t # "main" /\ w.to # Crashed
    <3>1. w.adds = {}
      BY <1>6, <2>1, <2>6, WayStays
    <3>2. pc'[q]["main"] = now /\ held'[q] \subseteq held[q]
      BY <1>6, <2>2, <2>6, <3>1, WayMoves DEF now
    <3> QED
      BY <1>1, <3>2
  <2> QED
    BY <2>3, <2>4, <2>5, <2>6
<1> QED
  BY <1>4, <1>5, <1>6, StepCases DEF may

-----------------------------------------------------------------------------
(***************************************************************************)
(* Connections stay open while they are needed.                            *)
(***************************************************************************)
LEMMA TablesOpen ==
  ASSUME Shapes, pair # "polling"
  PROVE  /\ \A p \in Procs : StaysOpen(Code(p))
         /\ AcceptsOne(Code("server"))
         /\ \A i \in DOMAIN Code("client") : Code("client")[i].op \notin {"listen", "accept"}
BY PairsAssumption, TablesStayOpen DEF Shapes, Code

LEMMA TakesOneStep ==
  ASSUME Shapes, OnLines, TakesOne, [Next]_vars
  PROVE  TakesOne'
<1> DEFINE P == Code("server")
<1> SUFFICES ASSUME pair # "polling", pc'["server"]["main"] \in HasAccepted(P)
             PROVE  link' \in {"up", "lost"}
  BY StepCases, CodeStays DEF TakesOne, Procs
<1>1. pc["server"]["main"] \in HasAccepted(P) => link \in {"up", "lost"}
  BY DEF TakesOne
<1>2. HasAccepted(P) \subseteq MainLines(P) /\ AcceptsOne(P)
  BY TablesOpen DEF HasAccepted
<1>3. Crashed \notin HasAccepted(P) /\ "server" \in Procs
  BY <1>2, CodeConnects DEF Shapes, LinesConnect, Ends, MainLines, Crashed, Procs
<1> HIDE DEF P
<1>4. CASE Quiet
  BY <1>1, <1>4 DEF Quiet
<1>5. ASSUME NEW p \in Procs, NEW t \in Threads, Runs(p, t), Spawned(p, t)
      PROVE  link' \in {"up", "lost"}
  <2>1. CASE p # "server"
    BY <1>1, <1>3, <1>5, <2>1, SpawnMoves
  <2>2. CASE p = "server"
    <3> DEFINE i == pc["server"]["main"]
               w == Ahead(P, i)
    <3>1. i \in MainLines(P) /\ w \in Ways(P, i) /\ pc'["server"]["main"] = w.to /\ UNCHANGED link
      BY <1>5, <2>2, SpawnMoves DEF P
    <3>2. P[i].op = "spawn"
      <4>1. t = "main"
        BY <1>5, SpawnMoves
      <4> QED
        BY <1>5, <2>2, <4>1 DEF Spawned, At, Here, P
    <3>3. i \in HasAccepted(P)
      BY <1>2, <3>1, <3>2 DEF AcceptsOne, AcceptLines
    <3> QED
      BY <1>1, <3>1, <3>3
  <2> QED
    BY <2>1, <2>2
<1>6. ASSUME NEW p \in Procs, NEW t \in Threads, Runs(p, t), NEW w, Takes(p, t, w)
      PROVE  link' \in {"up", "lost"}
  <2>1. w \in Ways(Code(p), pc[p][t]) /\ w.to \in Nat
    BY <1>6, WayStays DEF Takes
  <2>2. CASE p # "server"
    <3>1. p = "client" /\ pc'["server"] = pc["server"]
      BY <1>3, <1>6, <2>1, <2>2, WayMoves DEF Procs
    <3>2. link \in {"up", "lost"}
      BY <1>1, <3>1
    <3>3. Here(p, t).op \notin {"listen", "accept"}
      BY <1>6, <3>1, TablesOpen DEF Runs, Here
    <3> QED
      BY <1>6, <3>2, <3>3 DEF Takes
  <2>3. CASE p = "server" /\ t = "main"
    <3> DEFINE i == pc["server"]["main"]
    <3>1. i \in MainLines(P) /\ w \in Ways(P, i)
      BY <1>6, <2>1, <2>3, WayStays DEF P
    <3>2. w.to \in HasAccepted(P)
      BY <1>3, <1>6, <2>1, <2>3, WayMoves
    <3>3. CASE i \in HasAccepted(P)
      <4>1. P[i].op # "listen"
        BY <1>2, <3>3 DEF AcceptsOne
      <4> QED
        BY <1>1, <1>6, <2>3, <3>3, <4>1 DEF Takes, Here, P
    <3>4. CASE i \in AcceptLines(P) /\ w = Ahead(P, i)
      BY <1>6, <2>3, <3>4 DEF Takes, Here, AcceptLines, P
    <3> QED
      BY <1>2, <3>1, <3>2, <3>3, <3>4 DEF AcceptsOne
  <2>4. CASE p = "server" /\ t # "main"
    <3>1. pc["server"][t] \in ThreadLines(P)
      BY <1>6, <2>1, <2>4, WayStays DEF P
    <3>2. pc["server"]["main"] \in HasAccepted(P)
      BY <1>3, <1>6, <2>1, <2>4, WayMoves
    <3>3. P[pc["server"][t]].op # "listen"
      BY <1>2, <3>1 DEF AcceptsOne
    <3> QED
      BY <1>1, <1>6, <2>4, <3>2, <3>3 DEF Takes, Here, P
  <2> QED
    BY <2>2, <2>3, <2>4
<1> QED
  BY <1>4, <1>5, <1>6, StepCases

\* main() takes a way.
LEMMA OpenMain ==
  ASSUME Shapes, OnLines, OpenWhereNeeded, TakesOne, pair # "polling",
         NEW p \in Procs, Runs(p, "main"), NEW w, Takes(p, "main", w), w.to # Crashed
  PROVE  /\ w.to \in OpenLines(Code(p)) => "conn" \in held'[p]
         /\ \A u \in Workers : w.to # Return /\ pc[p][u] \in ThreadLines(Code(p)) =>
              "conn" \in held'[p] /\ w.to \in Span(Code(p), u)
<1> DEFINE P == Code(p)
           i == pc[p]["main"]
<1>1. StaysOpen(P)
  BY TablesOpen
<1>2. i \in MainLines(P) /\ w \in Ways(P, i) /\ w.to \in Nat
  BY WayStays DEF Takes, Threads
<1>3. held'[p] = (held[p] \cup w.adds) \ w.rel
  BY <1>2, WayMoves DEF Threads
<1>4. /\ i \in OpenLines(P) => "conn" \in held[p]
      /\ \A u \in Workers : pc[p][u] \in ThreadLines(P) =>
           "conn" \in held[p] /\ i \in Span(P, u)
  BY DEF OpenWhereNeeded, Runs
<1>5. Left \notin ThreadLines(P)
  BY CodeConnects DEF Shapes, LinesConnect, Ends, ThreadLines, Left
<1>6. w.adds \cap w.rel = {}
  BY <1>2 DEF Ways, Ahead, Aside, Gained, Dropped
<1>7. Takes(p, "main", w)
  OBVIOUS
<1>8. link \in {"up", "lost"} \/ i \notin HasAccepted(P) \/ p # "server"
  BY DEF TakesOne
<1>9. p # "server" => i \notin AcceptLines(P)
  BY TablesOpen DEF Procs, AcceptLines
<1>10. p = "server" => AcceptsOne(P)
  BY TablesOpen
<1> HIDE DEF P, i
<1>11. w.to \in OpenLines(P) => "conn" \in held'[p]
  BY <1>1, <1>2, <1>3, <1>4, <1>6 DEF StaysOpen
<1>12. ASSUME NEW u \in Workers, w.to # Return, pc[p][u] \in ThreadLines(P)
       PROVE  "conn" \in held'[p] /\ w.to \in Span(P, u)
  <2>1. "conn" \in held[p] /\ i \in Span(P, u)
    BY <1>4, <1>12
  <2>2. i \notin JoinLines(P, u)
    BY <1>5, <1>7, <1>12 DEF Takes, Here, JoinLines, P, i
  <2>3. ~ (i \in AcceptLines(P) /\ w = Ahead(P, i))
    <3> SUFFICES ASSUME i \in AcceptLines(P), w = Ahead(P, i) PROVE FALSE
      OBVIOUS
    <3>1. link = "pending"
      BY <1>7 DEF Takes, Here, AcceptLines, P, i
    <3>2. p = "server" /\ i \in HasAccepted(P)
      BY <1>9, <1>10, <1>12, <2>1 DEF AcceptsOne
    <3> QED
      BY <1>8, <3>1, <3>2
  <2>4. w.to \in Span(P, u) /\ "conn" \notin w.rel
    BY <1>1, <1>2, <1>12, <2>1, <2>2, <2>3 DEF StaysOpen
  <2> QED
    BY <1>3, <2>1, <2>4
<1> QED
  BY <1>11, <1>12 DEF P

\* A thread takes a way.
LEMMA OpenThread ==
  ASSUME Shapes, OnLines, OpenWhereNeeded, pair # "polling",
         NEW p \in Procs, NEW t \in Workers, Runs(p, t), NEW w, Takes(p, t, w), w.to # Crashed
  PROVE  /\ pc[p]["main"] \in OpenLines(Code(p)) => "conn" \in held'[p]
         /\ \A u \in Workers : pc'[p][u] \in ThreadLines(Code(p)) =>
              "conn" \in held'[p] /\ pc[p]["main"] \in Span(Code(p), u)
<1> DEFINE P == Code(p)
           i == pc[p][t]
           m == pc[p]["main"]
<1>1. StaysOpen(P)
  BY TablesOpen
<1>2. t \in Threads /\ t # "main"
  BY DEF Workers
<1>3. i \in ThreadLines(P) /\ w \in Ways(P, i) /\ w.to \in Nat
  BY <1>2, WayStays DEF Takes
<1>4. /\ held'[p] = (held[p] \cup w.adds) \ w.rel
      /\ pc'[p][t] = w.to /\ \A u \in Workers \ {t} : pc'[p][u] = pc[p][u]
  BY <1>2, <1>3, WayMoves
<1>5. /\ m \in OpenLines(P) => "conn" \in held[p]
      /\ \A u \in Workers : pc[p][u] \in ThreadLines(P) => "conn" \in held[p] /\ m \in Span(P, u)
  BY DEF OpenWhereNeeded, Runs
<1> HIDE DEF P, i, m
<1>6. "conn" \in held[p] /\ m \in Span(P, t)
  BY <1>3, <1>5 DEF i
<1>7. "conn" \in w.rel => Closes(P)
  BY <1>3 DEF Closes
<1>8. m \in OpenLines(P) => "conn" \notin w.rel
  BY <1>6, <1>7 DEF OpenLines
<1>9. ASSUME NEW u \in Workers, pc'[p][u] \in ThreadLines(P)
      PROVE  "conn" \in held'[p] /\ m \in Span(P, u)
  <2>1. CASE u = t
    BY <1>1, <1>3, <1>4, <1>6, <1>9, <2>1 DEF StaysOpen
  <2>2. CASE u # t
    <3>1. m \in Span(P, u)
      BY <1>4, <1>5, <1>9, <2>2
    <3>2. SpawnLines(P, t) # {} /\ SpawnLines(P, u) # {}
      BY <1>6, <3>1 DEF Span
    <3>3. t = "sender" \/ u = "sender"
      BY <2>2 DEF Workers, Threads
    <3>4. "conn" \notin w.rel
      BY <1>1, <1>7, <3>2, <3>3 DEF StaysOpen
    <3> QED
      BY <1>4, <1>6, <3>1, <3>4
  <2> QED
    BY <2>1, <2>2
<1> QED
  BY <1>4, <1>6, <1>8, <1>9 DEF P, m

\* main() starts a thread.
LEMMA OpenSpawn ==
  ASSUME Shapes, OnLines, OpenWhereNeeded, pair # "polling",
         NEW p \in Procs, NEW t \in Threads, Runs(p, t), Spawned(p, t)
  PROVE  /\ pc'[p]["main"] \in OpenLines(Code(p)) => "conn" \in held'[p]
         /\ \A u \in Workers : pc'[p][u] \in ThreadLines(Code(p)) =>
              "conn" \in held'[p] /\ pc'[p]["main"] \in Span(Code(p), u)
<1> DEFINE P == Code(p)
           i == pc[p]["main"]
           new == P[i].arg[1]
           w == Ahead(P, i)
<1>1. StaysOpen(P) /\ LinesConnect(P)
  BY TablesOpen, CodeConnects DEF Shapes
<1>2. /\ t = "main" /\ i \in MainLines(P) /\ i \in SpawnLines(P, new) /\ new \in Workers
      /\ w \in Ways(P, i) /\ w.to = i + 1 /\ w.to \in MainLines(P) /\ pc'[p]["main"] = w.to
      /\ w.rel = {} /\ UNCHANGED held
      /\ \A u \in Workers \ {new} : pc'[p][u] = pc[p][u]
  BY SpawnMoves DEF Here
<1>3. "conn" \in held[p]
  <2>1. P[i].op = "spawn"
    BY <1>2 DEF SpawnLines
  <2>2. i \in OpenLines(P)
    BY <1>1, <1>2, <2>1 DEF StaysOpen
  <2> QED
    BY <2>2 DEF OpenWhereNeeded
<1>4. \A u \in Workers : pc[p][u] \in ThreadLines(P) => i \in Span(P, u)
  BY <1>2 DEF OpenWhereNeeded, Runs
<1> HIDE DEF P, i, new, w
<1>5. w.to \in Span(P, new)
  BY <1>1, <1>2 DEF StaysOpen
<1>6. ASSUME NEW u \in Workers \ {new}, pc[p][u] \in ThreadLines(P)
      PROVE  w.to \in Span(P, u)
  <2>1. i \in Span(P, u)
    BY <1>4, <1>6
  <2>2. P[i].op = "spawn"
    BY <1>2 DEF SpawnLines
  <2>3. w.to \notin {Return, Crashed}
    BY <1>1, <1>2 DEF LinesConnect, Ends, MainLines
  <2> QED
    BY <1>1, <1>2, <1>6, <2>1, <2>2, <2>3 DEF StaysOpen, JoinLines, AcceptLines
<1> QED
  BY <1>2, <1>3, <1>5, <1>6 DEF P

LEMMA OpenStep ==
  ASSUME Shapes, OnLines, OpenWhereNeeded, TakesOne, [Next]_vars
  PROVE  OpenWhereNeeded'
<1> SUFFICES ASSUME pair # "polling", NEW q \in Procs
             PROVE  /\ pc'[q]["main"] \in OpenLines(Code(q)) => "conn" \in held'[q]
                    /\ \A u \in Workers : Alive(q)' /\ pc'[q][u] \in ThreadLines(Code(q)) =>
                         "conn" \in held'[q] /\ pc'[q]["main"] \in Span(Code(q), u)
  BY StepCases, CodeStays DEF OpenWhereNeeded
<1>1. /\ pc[q]["main"] \in OpenLines(Code(q)) => "conn" \in held[q]
      /\ \A u \in Workers : Alive(q) /\ pc[q][u] \in ThreadLines(Code(q)) =>
           "conn" \in held[q] /\ pc[q]["main"] \in Span(Code(q), u)
  BY DEF OpenWhereNeeded
<1>2. Crashed \notin OpenLines(Code(q)) /\ Return \notin OpenLines(Code(q))
  BY CodeConnects DEF Shapes, LinesConnect, Ends, MainLines, OpenLines
<1>3. CASE UNCHANGED <<pc[q], held[q]>>
  BY <1>1, <1>3 DEF Alive
<1>4. ASSUME NEW t \in Threads, Runs(q, t), Spawned(q, t)
      PROVE  /\ pc'[q]["main"] \in OpenLines(Code(q)) => "conn" \in held'[q]
             /\ \A u \in Workers : Alive(q)' /\ pc'[q][u] \in ThreadLines(Code(q)) =>
                  "conn" \in held'[q] /\ pc'[q]["main"] \in Span(Code(q), u)
  BY <1>4, OpenSpawn
<1>5. ASSUME NEW t \in Threads, Runs(q, t), NEW w, Takes(q, t, w)
      PROVE  /\ pc'[q]["main"] \in OpenLines(Code(q)) => "conn" \in held'[q]
             /\ \A u \in Workers : Alive(q)' /\ pc'[q][u] \in ThreadLines(Code(q)) =>
                  "conn" \in held'[q] /\ pc'[q]["main"] \in Span(Code(q), u)
  <2>1. w.to \in Nat
    BY <1>5, WayStays DEF Takes
  <2>2. CASE w.to = Crashed
    <3>1. pc'[q]["main"] = Crashed
      BY <1>5, <2>1, <2>2, WayMoves
    <3> QED
      BY <1>2, <3>1 DEF Alive
  <2>3. CASE w.to # Crashed /\ t = "main"
    <3>1. pc'[q]["main"] = w.to /\ \A u \in Workers : pc'[q][u] = pc[q][u]
      BY <1>5, <2>1, <2>3, WayMoves DEF Workers
    <3> QED
      BY <1>5, <2>3, <3>1, OpenMain DEF Alive
  <2>4. CASE w.to # Crashed /\ t # "main"
    <3>1. pc'[q]["main"] = pc[q]["main"] /\ t \in Workers
      BY <1>5, <2>1, <2>4, WayMoves DEF Workers
    <3> QED
      BY <1>5, <2>4, <3>1, OpenThread
  <2> QED
    BY <2>2, <2>3, <2>4
<1>6. ASSUME NEW p \in Procs, p # q, NEW t \in Threads, Runs(p, t),
             Spawned(p, t) \/ \E w : Takes(p, t, w)
      PROVE  UNCHANGED <<pc[q], held[q]>>
  <2>1. CASE Spawned(p, t)
    BY <1>6, <2>1, SpawnMoves
  <2>2. ASSUME NEW w, Takes(p, t, w)
        PROVE  UNCHANGED <<pc[q], held[q]>>
    <3>1. w.to \in Nat
      BY <1>6, <2>2, WayStays DEF Takes
    <3> QED
      BY <1>6, <2>2, <3>1, WayMoves
  <2> QED
    BY <1>6, <2>1, <2>2
<1>7. CASE Quiet
  BY <1>3, <1>7 DEF Quiet
<1> QED
  BY <1>3, <1>4, <1>5, <1>6, <1>7, StepCases

\* A thread that uses the connection runs where it is open.
LEMMA UsingIsOpen ==
  ASSUME Shapes, OnLines, OpenWhereNeeded, pair # "polling", NEW p \in Procs, NEW t \in Threads,
         Runs(p, t), Here(p, t).op \in Using
  PROVE  "conn" \in held[p]
<1>1. StaysOpen(Code(p)) /\ LinesConnect(Code(p))
  BY TablesOpen, CodeConnects DEF Shapes
<1>2. pc[p][t] \in DOMAIN Code(p) /\ Ends \cap DOMAIN Code(p) = {} /\ Alive(p)
  BY <1>1 DEF Runs, LinesConnect
<1>3. CASE t = "main"
  <2>1. pc[p]["main"] \in MainLines(Code(p))
    BY <1>2, <1>3 DEF OnLines, Ends
  <2>2. pc[p]["main"] \in OpenLines(Code(p))
    BY <1>1, <1>3, <2>1 DEF StaysOpen, Here
  <2> QED
    BY <2>2 DEF OpenWhereNeeded
<1>4. CASE t # "main"
  <2>1. t \in Workers /\ pc[p][t] \in ThreadLines(Code(p))
    BY <1>2, <1>4 DEF OnLines, Ends, Workers
  <2> QED
    BY <1>2, <2>1 DEF OpenWhereNeeded
<1> QED
  BY <1>3, <1>4

-----------------------------------------------------------------------------
(***************************************************************************)
(* What is on the wire and in the buffers.                                 *)
(***************************************************************************)
LEMMA MsgIsPieces ==
  ASSUME NEW m \in Texts
  PROVE  Msg(m) \in Seq(Piece) /\ Len(Msg(m)) = 2
BY DEF Msg, Piece

LEMMA ArgumentIsText ==
  ASSUME Shapes, NEW p \in Procs, NEW i \in DOMAIN Code(p)
  PROVE  Code(p)[i].arg \in Texts
<1>1. Code(p) \in Tables
  BY PairsAssumption DEF Shapes, Code, Tables
<1>2. Code(p)[i].arg \in Arguments(Code(p))
  BY DEF Arguments
<1> QED
  BY <1>1, <1>2 DEF Texts, TableTexts

LEMMA PayloadIsPieces ==
  ASSUME Shapes, NEW p \in Procs, NEW m \in Texts, NEW s \in Payloads(p, m)
  PROVE  s \in Seq(Piece)
<1>1. Crc(got[p]) \in Texts /\ "line" \in Texts /\ "no bytes" \in Texts
  <2>1. {"crc data", "crc xdata", "crc file", "crc of something else", "line", "no bytes"}
          \subseteq Texts
    BY DEF Texts
  <2>2. Crc(got[p]) \in {"crc data", "crc xdata", "crc file", "crc of something else"}
    BY DEF Crc
  <2> QED
    BY <2>1, <2>2
<1>2. /\ got[p] \in Seq(Piece) /\ Msg(Crc(got[p])) \in Seq(Piece)
      /\ Msg(m) \in Seq(Piece) /\ Msg("line") \in Seq(Piece)
  BY <1>1, MsgIsPieces DEF Shapes
<1>3. <<NoBytes>> \in Seq(Piece) /\ <<>> \in Seq(Piece)
  <2>1. NoBytes \in Piece
    BY <1>1 DEF NoBytes, Piece
  <2> QED
    BY <2>1
<1> QED
  BY <1>2, <1>3 DEF Payloads

\* The first n pieces are taken off.
LEMMA CutPieces ==
  ASSUME NEW s \in Seq(Piece), NEW n \in 1..Len(s)
  PROVE  /\ SubSeq(s, 1, n) \in Seq(Piece) /\ Len(SubSeq(s, 1, n)) = n
         /\ SubSeq(s, n + 1, Len(s)) \in Seq(Piece)
         /\ Len(SubSeq(s, n + 1, Len(s))) = Len(s) - n
<1>1. /\ \A i \in 1..n : s[i] \in Piece
      /\ \A i \in n + 1..Len(s) : s[i] \in Piece
  BY LenProperties
<1>2. Len(s) \in Nat
  BY LenProperties
<1> QED
  BY <1>1, <1>2, SubSeqProperties

\* What the wires and buffers of all processes are.
Buffered == \A p \in Procs : /\ wire[p] \in Seq(Piece) /\ Len(wire[p]) <= MaxPieces
                             /\ got[p] \in Seq(Piece) /\ Len(got[p]) <= MaxPieces

LEMMA WireHasRoom ==
  ASSUME Shapes, NEW p \in Procs, NEW s \in Seq(Piece), Room(p, s),
         wire' = [wire EXCEPT ![Other(p)] = @ \o s], UNCHANGED got
  PROVE  Buffered'
<1>1. Other(p) \in Procs
  BY DEF Other, Procs
<1>2. wire[Other(p)] \o s \in Seq(Piece) /\ Len(wire[Other(p)] \o s) = Len(wire[Other(p)]) + Len(s)
  BY <1>1, ConcatProperties DEF Shapes
<1> QED
  BY <1>1, <1>2 DEF Shapes, Room, Buffered

LEMMA ReceivedStays ==
  ASSUME Shapes, NEW p \in Procs, NEW t \in Threads, Received(p, t)
  PROVE  Buffered'
<1> DEFINE step == Here(p, t)
<1>1. PICK n \in 1..Len(wire[p]) :
        /\ n <= Size(p, step)
        /\ got' = [got EXCEPT ![p] = Kept(p, step, SubSeq(wire[p], 1, n))]
        /\ wire' = [wire EXCEPT ![p] = SubSeq(@, n + 1, Len(@))]
  BY DEF Received
<1>2. /\ wire[p] \in Seq(Piece) /\ Len(wire[p]) <= MaxPieces /\ Len(wire[p]) \in Nat
      /\ got[p] \in Seq(Piece) /\ Len(got[p]) <= MaxPieces /\ Len(got[p]) \in Nat
  BY LenProperties DEF Shapes
<1>3. /\ SubSeq(wire[p], 1, n) \in Seq(Piece) /\ Len(SubSeq(wire[p], 1, n)) = n
      /\ SubSeq(wire[p], n + 1, Len(wire[p])) \in Seq(Piece)
      /\ Len(SubSeq(wire[p], n + 1, Len(wire[p]))) = Len(wire[p]) - n
  BY <1>2, CutPieces
<1>4. step.op \in {"recvfrom", "read"} => step.arg # "rest"
  BY CodeConnects DEF Received, At, Runs, Here, Shapes, LinesConnect
<1> HIDE DEF step
<1>5. /\ Kept(p, step, SubSeq(wire[p], 1, n)) \in Seq(Piece)
      /\ Len(Kept(p, step, SubSeq(wire[p], 1, n))) <= MaxPieces
  <2>1. CASE step.arg = "shown"
    BY <1>2, <2>1 DEF Kept
  <2>2. CASE step.arg = "rest"
    <3>1. n <= 2 - Len(got[p])
      BY <1>1, <1>4, <2>2 DEF Size
    <3>2. /\ got[p] \o SubSeq(wire[p], 1, n) \in Seq(Piece)
          /\ Len(got[p] \o SubSeq(wire[p], 1, n)) = Len(got[p]) + n
      BY <1>2, <1>3, ConcatProperties
    <3> QED
      BY <1>1, <1>2, <2>2, <3>1, <3>2, PairsAssumption DEF Kept
  <2>3. CASE step.arg \notin {"shown", "rest"}
    BY <1>1, <1>2, <1>3, <2>3, PairsAssumption DEF Kept
  <2> QED
    BY <2>1, <2>2, <2>3
<1>6. Len(wire[p]) - n <= MaxPieces
  BY <1>1, <1>2, PairsAssumption
<1> QED
  BY <1>1, <1>3, <1>5, <1>6 DEF Buffered, Shapes

LEMMA DecryptedStays ==
  ASSUME Shapes, NEW p \in Procs, NEW t \in Threads, Decrypted(p, t)
  PROVE  Buffered' /\ \A q \in Procs : Len(got'[q]) = Len(got[q])
<1> DEFINE s == [i \in DOMAIN got[p] |-> <<Xored(got[p][i][1]), got[p][i][2]>>]
<1>1. got[p] \in Seq(Piece) /\ Len(got[p]) \in Nat /\ DOMAIN got[p] = 1..Len(got[p])
  BY LenProperties DEF Shapes
<1>2. ASSUME NEW i \in 1..Len(got[p])
      PROVE  s[i] \in Piece
  <2>1. got[p][i] \in Piece
    BY <1>1, <1>2, ElementOfSeq
  <2>2. Xored(got[p][i][1]) \in Texts
    <3>1. got[p][i][1] \in Texts
      BY <2>1 DEF Piece
    <3>2. {"handshake", "xhandshake", "data", "xdata"} \subseteq Texts
      BY DEF Texts
    <3> QED
      BY <3>1, <3>2 DEF Xored
  <2>3. got[p][i][2] \in Nat
    BY <2>1 DEF Piece
  <2> QED
    BY <1>1, <2>2, <2>3 DEF Piece
<1>3. s \in Seq(Piece) /\ Len(s) = Len(got[p])
  <2>1. s \in [1..Len(got[p]) -> Piece]
    BY <1>1, <1>2
  <2> HIDE DEF s
  <2> QED
    BY <1>1, <2>1
<1>4. got' = [got EXCEPT ![p] = s] /\ UNCHANGED wire
  BY DEF Decrypted
<1> HIDE DEF s
<1>5. Buffered'
  BY <1>3, <1>4 DEF Buffered, Shapes
<1>6. \A q \in Procs : Len(got'[q]) = Len(got[q])
  BY <1>3, <1>4 DEF Shapes
<1> QED
  BY <1>5, <1>6

LEMMA BufferedStep ==
  ASSUME Shapes, [Next]_vars
  PROVE  Buffered'
<1>1. CASE UNCHANGED <<wire, got>>
  BY <1>1 DEF Shapes, Buffered
<1>2. ASSUME NEW p \in Procs, NEW t \in Threads, Goes(p, t) \/ Failed(p, t)
      PROVE  Buffered'
  <2>1. CASE Sent(p, t)
    <3>1. Here(p, t).arg \in Texts
      BY <2>1, ArgumentIsText DEF Sent, At, Runs, Here
    <3>2. PICK s \in Payloads(p, Here(p, t).arg) :
            Room(p, s) /\ wire' = [wire EXCEPT ![Other(p)] = @ \o s]
      BY <2>1 DEF Sent
    <3> QED
      BY <2>1, <3>1, <3>2, PayloadIsPieces, WireHasRoom DEF Sent
  <2>2. CASE SentTo(p, t)
    <3>1. Here(p, t).arg \in Texts
      BY <2>2, ArgumentIsText DEF SentTo, At, Runs, Here
    <3>2. PICK s \in {<<>>, Msg(Here(p, t).arg)} :
            Room(p, s) /\ wire' = [wire EXCEPT ![Other(p)] = @ \o s]
      BY <2>2 DEF SentTo
    <3>3. s \in Seq(Piece)
      <4>1. <<>> \in Seq(Piece)
        BY EmptySeq
      <4> QED
        BY <3>1, <3>2, <4>1, MsgIsPieces
    <3> QED
      BY <2>2, <3>2, <3>3, WireHasRoom DEF SentTo
  <2>3. CASE ReadNoBytes(p, t)
    <3>1. wire[p] # <<>> /\ wire' = [wire EXCEPT ![p] = Tail(@)] /\ UNCHANGED got
      BY <2>3 DEF ReadNoBytes
    <3>2. wire[p] \in Seq(Piece) /\ Len(wire[p]) <= MaxPieces /\ Len(wire[p]) \in Nat
      BY LenProperties DEF Shapes
    <3>3. Tail(wire[p]) \in Seq(Piece) /\ Len(Tail(wire[p])) = Len(wire[p]) - 1
      BY <3>1, <3>2, HeadTailProperties
    <3>4. Len(wire[p]) - 1 <= MaxPieces
      BY <3>2, PairsAssumption
    <3> QED
      BY <3>1, <3>3, <3>4 DEF Shapes, Buffered
  <2>4. CASE Received(p, t)
    BY <2>4, ReceivedStays
  <2>5. CASE Decrypted(p, t)
    BY <2>5, DecryptedStays
  <2>6. CASE Acquired(p, t) \/ Called(p, t) \/ Released(p, t) \/ Listening(p, t)
               \/ Connected(p, t) \/ ConnectStarted(p, t) \/ Accepted(p, t) \/ ShutDown(p, t)
    BY <1>1, <2>6
    DEF Acquired, Called, Released, Listening, Connected, ConnectStarted, Accepted, ShutDown
  <2>7. CASE NoRoom(p, t) \/ ReceivedEnd(p, t) \/ NothingYet(p, t) \/ NotConnected(p, t)
               \/ Compared(p, t) \/ DidNothing(p, t) \/ Begun(p, t) \/ Spawned(p, t) \/ Joined(p, t)
               \/ LookedAtFlag(p, t) \/ ClearedFlag(p, t) \/ Failed(p, t)
    BY <1>1, <2>7
    DEF NoRoom, ReceivedEnd, NothingYet, NotConnected, Compared, DidNothing, Begun, Spawned, Joined,
        LookedAtFlag, ClearedFlag, Failed
  <2> QED
    BY <1>2, <2>1, <2>2, <2>3, <2>4, <2>5, <2>6, <2>7 DEF Goes
<1> QED
  BY <1>1, <1>2 DEF Next, Lose, Reset, vars

LEMMA ShapesStep ==
  ASSUME Shapes, OnLines, [Next]_vars
  PROVE  Shapes'
<1>1. Buffered'
  BY BufferedStep
<1>2. pair' \in Pairs
  BY StepCases DEF Shapes
<1>3. pc' \in [Procs -> [Threads -> Nat]] /\ held' \in [Procs -> SUBSET Resources]
  <2>1. CASE Quiet
    BY <2>1 DEF Quiet, Shapes
  <2>2. ASSUME NEW p \in Procs, NEW t \in Threads, Runs(p, t), Spawned(p, t)
        PROVE  pc' \in [Procs -> [Threads -> Nat]] /\ held' \in [Procs -> SUBSET Resources]
    BY <2>2, SpawnMoves DEF Shapes
  <2>3. ASSUME NEW p \in Procs, NEW t \in Threads, Runs(p, t), NEW w, Takes(p, t, w)
        PROVE  pc' \in [Procs -> [Threads -> Nat]] /\ held' \in [Procs -> SUBSET Resources]
    <3>1. w.to \in Nat /\ w.adds \subseteq Resources
      BY <2>3, WayStays DEF Takes
    <3>2. held' = [held EXCEPT ![p] = (@ \cup w.adds) \ w.rel]
      BY <2>3 DEF Takes
    <3> QED
      BY <2>3, <3>1, <3>2, WayMoves DEF Shapes
  <2> QED
    BY <2>1, <2>2, <2>3, StepCases
<1>4. /\ running' \in [Procs -> BOOLEAN] /\ ended' \in [Procs -> BOOLEAN]
      /\ link' \in {"none", "listening", "pending", "up", "lost"}
      /\ wire' = [q \in Procs |-> wire'[q]] /\ got' = [q \in Procs |-> got'[q]]
  <2>1. CASE UNCHANGED <<running, ended, link, wire, got>>
    BY <2>1 DEF Shapes
  <2>2. CASE Lose \/ \E p \in Procs : Reset(p)
    BY <2>2 DEF Lose, Reset, Shapes
  <2>3. ASSUME NEW p \in Procs, NEW t \in Threads, Goes(p, t) \/ Failed(p, t)
        PROVE  /\ running' \in [Procs -> BOOLEAN] /\ ended' \in [Procs -> BOOLEAN]
               /\ link' \in {"none", "listening", "pending", "up", "lost"}
               /\ wire' = [q \in Procs |-> wire'[q]] /\ got' = [q \in Procs |-> got'[q]]
    <3>1. CASE Acquired(p, t) \/ Called(p, t) \/ Released(p, t) \/ Listening(p, t)
               \/ Connected(p, t) \/ ConnectStarted(p, t) \/ Accepted(p, t) \/ ShutDown(p, t)
      BY <3>1
      DEF Acquired, Called, Released, Listening, Connected, ConnectStarted, Accepted, ShutDown,
          Shapes
    <3>2. CASE NoRoom(p, t) \/ ReceivedEnd(p, t) \/ NothingYet(p, t) \/ NotConnected(p, t)
               \/ Compared(p, t) \/ DidNothing(p, t) \/ Begun(p, t) \/ Spawned(p, t) \/ Joined(p, t)
               \/ LookedAtFlag(p, t) \/ ClearedFlag(p, t) \/ Failed(p, t)
      BY <3>2
      DEF NoRoom, ReceivedEnd, NothingYet, NotConnected, Compared, DidNothing, Begun, Spawned, Joined,
          LookedAtFlag, ClearedFlag, Failed, Shapes
    <3>3. CASE Sent(p, t) \/ SentTo(p, t) \/ Received(p, t) \/ ReadNoBytes(p, t) \/ Decrypted(p, t)
      BY <3>3 DEF Sent, SentTo, Received, ReadNoBytes, Decrypted, Shapes
    <3> QED
      BY <2>3, <3>1, <3>2, <3>3 DEF Goes
  <2> QED
    BY <2>1, <2>2, <2>3 DEF Next, vars
<1>5. wire' \in [Procs -> Seq(Piece)] /\ got' \in [Procs -> Seq(Piece)]
  BY <1>1, <1>4 DEF Buffered
<1> QED
  BY <1>1, <1>2, <1>3, <1>4, <1>5 DEF Shapes, Buffered

-----------------------------------------------------------------------------
(***************************************************************************)
(* The file transfer.  First its two tables, a few rows at a time.         *)
(***************************************************************************)
LEMMA FileServerRecv ==
  /\ DOMAIN FileServer = 1..16
  /\ FileServer[6].op = "recv" /\ FileServer[6].arg = "message" /\ FileServer[6].ok = Thru
  /\ FileServer[6].fail.to = Return /\ FileServer[6].zero.to = Return
  /\ FileServer[8].op = "recv" /\ FileServer[8].arg = "message" /\ FileServer[8].ok = Thru
  /\ FileServer[8].fail.to = Return /\ FileServer[8].zero.to = Return
BY DEF FileServer, Recv, Step, Quit

LEMMA FileServerRecv2 ==
  /\ FileServer[14].op = "recv" /\ FileServer[14].ok = 13
  /\ FileServer[14].fail.to = Return /\ FileServer[14].zero.to = Return
  /\ FileServer[15].op = "recv" /\ FileServer[15].arg = "rest" /\ FileServer[15].ok = 9
  /\ FileServer[15].fail.to = Return /\ FileServer[15].zero.to = Return
BY DEF FileServer, Recv, Step, Quit, Then

LEMMA FileServerFull ==
  /\ FileServer[7].op = "full" /\ FileServer[7].ok = Thru /\ FileServer[7].fail.to = 12
  /\ FileServer[9].op = "full" /\ FileServer[9].ok = Thru /\ FileServer[9].fail.to = 15
BY DEF FileServer, Full, Step, Goto

LEMMA FileServerOpens ==
  \A i \in 1..5 : /\ FileServer[i].op \in {"acquire", "call", "listen", "accept"}
                  /\ FileServer[i].ok = Thru /\ FileServer[i].fail.to = Return
<1>1. FileServer[1].op = "acquire" /\ FileServer[1].ok = Thru /\ FileServer[1].fail.to = Return
  BY DEF FileServer, Acquire, Step, Quit
<1>2. FileServer[2].op = "acquire" /\ FileServer[2].ok = Thru /\ FileServer[2].fail.to = Return
  BY DEF FileServer, Acquire, Step, Quit
<1>3. FileServer[3].op = "call" /\ FileServer[3].ok = Thru /\ FileServer[3].fail.to = Return
  BY DEF FileServer, Call, Step, Quit
<1>4. FileServer[4].op = "listen" /\ FileServer[4].ok = Thru /\ FileServer[4].fail.to = Return
  BY DEF FileServer, Listen, Step, Quit
<1>5. FileServer[5].op = "accept" /\ FileServer[5].ok = Thru /\ FileServer[5].fail.to = Return
  BY DEF FileServer, Accept, Step, Quit
<1> QED
  BY <1>1, <1>2, <1>3, <1>4, <1>5

LEMMA FileServerRest ==
  /\ FileServer[10].op = "call" /\ FileServer[10].ok = Thru /\ FileServer[10].fail.to = Return
  /\ FileServer[11].op = "release" /\ FileServer[11].ok = Return
  /\ FileServer[12].op = "undefined" /\ FileServer[12].ok = Thru /\ FileServer[12].fail.to = Crashed
  /\ FileServer[13].op = "undefined" /\ FileServer[13].ok = 16 /\ FileServer[13].fail.to = 14
  /\ FileServer[16].op = "call" /\ FileServer[16].ok = 11 /\ FileServer[16].fail.to = Return
<1>1. FileServer[10].op = "call" /\ FileServer[10].ok = Thru /\ FileServer[10].fail.to = Return
  BY DEF FileServer, Call, Step, Quit
<1>2. FileServer[11].op = "release" /\ FileServer[11].ok = Return
  BY DEF FileServer, Release, Step, Then
<1>3. FileServer[12].op = "undefined" /\ FileServer[12].ok = Thru /\ FileServer[12].fail.to = Crashed
  BY DEF FileServer, Undefined, Step, Crash, Die
<1>4. FileServer[13].op = "undefined" /\ FileServer[13].ok = 16 /\ FileServer[13].fail.to = 14
  BY DEF FileServer, Undefined, Step, Then, Goto
<1>5. FileServer[16].op = "call" /\ FileServer[16].ok = 11 /\ FileServer[16].fail.to = Return
  BY DEF FileServer, Call, Step, Then, Quit
<1> QED
  BY <1>1, <1>2, <1>3, <1>4, <1>5

LEMMA FileClientLines ==
  /\ DOMAIN FileClient = 1..7
  /\ \A i \in 1..4 : FileClient[i].op \in {"acquire", "connect", "call"}
  /\ \A i \in 1..7 : FileClient[i].ok = Thru /\ (i # 7 => FileClient[i].fail.to = Return)
  /\ FileClient[5].op = "send" /\ FileClient[5].arg = "header"
  /\ FileClient[6].op = "send" /\ FileClient[6].arg = "file"
  /\ FileClient[7].op = "release"
<1>1. DOMAIN FileClient = 1..7
  BY DEF FileClient
<1>2. FileClient[1].op = "acquire" /\ FileClient[1].ok = Thru /\ FileClient[1].fail.to = Return
  BY DEF FileClient, Acquire, Step, Quit
<1>3. FileClient[2].op = "acquire" /\ FileClient[2].ok = Thru /\ FileClient[2].fail.to = Return
  BY DEF FileClient, Acquire, Step, Quit
<1>4. FileClient[3].op = "connect" /\ FileClient[3].ok = Thru /\ FileClient[3].fail.to = Return
  BY DEF FileClient, Connect, Step, Quit
<1>5. FileClient[4].op = "call" /\ FileClient[4].ok = Thru /\ FileClient[4].fail.to = Return
  BY DEF FileClient, Call, Step, Quit
<1>6. /\ FileClient[5].op = "send" /\ FileClient[5].arg = "header"
      /\ FileClient[5].ok = Thru /\ FileClient[5].fail.to = Return
      /\ FileClient[6].op = "send" /\ FileClient[6].arg = "file"
      /\ FileClient[6].ok = Thru /\ FileClient[6].fail.to = Return
  BY DEF FileClient, Send, Step, Quit
<1>7. FileClient[7].op = "release" /\ FileClient[7].ok = Thru
  BY DEF FileClient, Release, Step
<1> QED
  BY <1>1, <1>2, <1>3, <1>4, <1>5, <1>6, <1>7

\* The lines on which the server receives the header and the file.
ReadsOn == {6, 8, 15}

LEMMA FileCode ==
  ASSUME pair = "file"
  PROVE  Code("server") = FileServer /\ Code("client") = FileClient
BY DEF Code, Programs

\* A call that is no send, receive or decryption leaves wires and buffers alone.
LEMMA NothingMoves ==
  ASSUME NEW p \in Procs, NEW t \in Threads, Goes(p, t) \/ Failed(p, t),
         Here(p, t).op \in {"acquire", "call", "listen", "accept", "connect", "release", "undefined"}
  PROVE  /\ UNCHANGED <<wire, got>>
         /\ Advance(p, t) \/ (Here(p, t).op \in Fallible /\ Branch(p, t, Here(p, t).fail))
<1> USE DEF At
<1>1. CASE Acquired(p, t) \/ Called(p, t) \/ Released(p, t) \/ Listening(p, t)
            \/ Connected(p, t) \/ ConnectStarted(p, t) \/ Accepted(p, t) \/ ShutDown(p, t)
            \/ DidNothing(p, t) \/ Begun(p, t)
  BY <1>1
  DEF Acquired, Called, Released, Listening, Connected, ConnectStarted, Accepted, ShutDown, DidNothing, Begun
<1>2. CASE Failed(p, t)
  BY <1>2 DEF Failed
<1>3. CASE Sent(p, t) \/ NoRoom(p, t) \/ SentTo(p, t) \/ Received(p, t) \/ ReceivedEnd(p, t)
            \/ ReadNoBytes(p, t) \/ NothingYet(p, t) \/ NotConnected(p, t) \/ Compared(p, t)
            \/ Decrypted(p, t) \/ Spawned(p, t) \/ Joined(p, t) \/ LookedAtFlag(p, t)
            \/ ClearedFlag(p, t)
  BY <1>3
  DEF Sent, NoRoom, SentTo, Received, ReceivedEnd, ReadNoBytes, NothingYet, NotConnected, Compared,
      Decrypted, Spawned, Joined, LookedAtFlag, ClearedFlag
<1> QED
  BY <1>1, <1>2, <1>3 DEF Goes

\* A recv() brings something, or takes one of its branches.
LEMMA RecvCases ==
  ASSUME NEW p \in Procs, NEW t \in Threads, Goes(p, t) \/ Failed(p, t), Here(p, t).op = "recv"
  PROVE  \/ Received(p, t)
         \/ Branch(p, t, Here(p, t).zero) \/ Branch(p, t, Here(p, t).fail)
BY DEF At, Goes, Failed, Fallible, Acquired, Called, Released, Listening, Connected, ConnectStarted,
       Accepted, ShutDown, Sent, NoRoom, SentTo, ReceivedEnd, ReadNoBytes, NothingYet, NotConnected,
       Compared, Decrypted, DidNothing, Begun, Spawned, Joined, LookedAtFlag, ClearedFlag

\* A send() puts its message on the wire, or takes its branch.
LEMMA SendCases ==
  ASSUME NEW p \in Procs, NEW t \in Threads, Goes(p, t) \/ Failed(p, t), Here(p, t).op = "send"
  PROVE  Sent(p, t) \/ (Branch(p, t, Here(p, t).fail) /\ UNCHANGED <<wire, got>>)
BY DEF At, Goes, Failed, Fallible, Acquired, Called, Released, Listening, Connected, ConnectStarted,
       Accepted, ShutDown, NoRoom, SentTo, Received, ReceivedEnd, ReadNoBytes, NothingYet, NotConnected,
       Compared, Decrypted, DidNothing, Begun, Spawned, Joined, LookedAtFlag, ClearedFlag

\* The comparison of two lengths.
LEMMA FullCases ==
  ASSUME NEW p \in Procs, NEW t \in Threads, Goes(p, t) \/ Failed(p, t), Here(p, t).op = "full"
  PROVE  /\ UNCHANGED <<wire, got>>
         /\ IF Len(got[p]) >= 2 THEN Advance(p, t) ELSE Branch(p, t, Here(p, t).fail)
<1>1. Compared(p, t)
  BY DEF At, Goes, Failed, Fallible, Acquired, Called, Released, Listening, Connected, ConnectStarted,
       Accepted, ShutDown, Sent, NoRoom, SentTo, Received, ReceivedEnd, ReadNoBytes, NothingYet,
       NotConnected, Decrypted, DidNothing, Begun, Spawned, Joined, LookedAtFlag, ClearedFlag
<1> QED
  BY <1>1 DEF Compared

-----------------------------------------------------------------------------
LEMMA Halves ==
  ASSUME NEW S, NEW h \in Seq(S), NEW f \in Seq(S), Len(h) = 2, Len(f) = 2
  PROVE  SubSeq(h \o f, 1, 2) = h /\ SubSeq(h \o f, 3, 4) = f
<1>1. SubSeq(h \o f, 1, 2) = SubSeq(h, 1, 2)
  <2>1. 1 \in 1..Len(h) /\ 2 \in 1..Len(h)
    OBVIOUS
  <2> QED
    BY <2>1, SubSeqOfConcat1
<1>2. SubSeq(h \o f, 3, 4) = SubSeq(f, 3 - Len(h), 4 - Len(h))
  <2>1. 3 \in Len(h) + 1..Len(h) + Len(f) /\ 4 \in Len(h) + 1..Len(h) + Len(f)
    OBVIOUS
  <2> QED
    BY <2>1, SubSeqOfConcat2
<1>3. SubSeq(h, 1, Len(h)) = h /\ SubSeq(f, 1, Len(f)) = f
  BY SubSeqFull
<1>4. 3 - Len(h) = 1 /\ 4 - Len(h) = 2
  OBVIOUS
<1> QED
  BY <1>1, <1>2, <1>3, <1>4

LEMMA StreamIsFour ==
  /\ Stream \in Seq(Piece) /\ Len(Stream) = 4
  /\ SubSeq(Stream, 1, 2) = Msg("header") /\ SubSeq(Stream, 3, 4) = Msg("file")
<1> DEFINE h == Msg("header")
           f == Msg("file")
<1>1. "header" \in Texts /\ "file" \in Texts
  <2>1. FileClient \in Tables
    <3>1. "file" \in DOMAIN Programs /\ "client" \in Procs /\ Programs["file"]["client"] = FileClient
      BY DEF Programs, Procs
    <3> QED
      BY <3>1 DEF Tables
  <2>2. FileClient[5].arg \in Arguments(FileClient) /\ FileClient[6].arg \in Arguments(FileClient)
    BY FileClientLines DEF Arguments
  <2> QED
    BY <2>1, <2>2, FileClientLines DEF Texts, TableTexts
<1>2. h \in Seq(Piece) /\ Len(h) = 2 /\ f \in Seq(Piece) /\ Len(f) = 2
  BY <1>1, MsgIsPieces
<1> HIDE DEF h, f
<1>3. h \o f \in Seq(Piece) /\ Len(h \o f) = 4
  BY <1>2, ConcatProperties
<1>4. SubSeq(h \o f, 1, 2) = h /\ SubSeq(h \o f, 3, 4) = f
  BY <1>2, Halves
<1> QED
  BY <1>3, <1>4 DEF Stream, h, f

\* Taking r pieces off what is on its way leaves what follows them.
LEMMA StreamTaken ==
  ASSUME NEW n \in 0..4, NEW k \in 0..4, k <= n, NEW r \in 1..4, r <= Len(SubSeq(Stream, k + 1, n))
  PROVE  /\ k + r <= n
         /\ SubSeq(SubSeq(Stream, k + 1, n), 1, r) = SubSeq(Stream, k + 1, k + r)
         /\ SubSeq(SubSeq(Stream, k + 1, n), r + 1, Len(SubSeq(Stream, k + 1, n)))
              = SubSeq(Stream, k + r + 1, n)
<1>1. Len(SubSeq(Stream, k + 1, n)) = n - k
  BY StreamIsFour, SubSeqProperties
<1>2. k + r <= n /\ r + 1 \in 1..n - k + 1 /\ n - k \in 0..4
  BY <1>1
<1>3. SubSeq(SubSeq(Stream, k + 1, n), 1, r) = SubSeq(Stream, (k + 1) + 1 - 1, (k + 1) + r - 1)
  BY <1>1, <1>2, StreamIsFour, SubSeqOfSubSeq
<1>4. SubSeq(SubSeq(Stream, k + 1, n), r + 1, n - k)
        = SubSeq(Stream, (k + 1) + (r + 1) - 1, (k + 1) + (n - k) - 1)
  BY <1>1, <1>2, StreamIsFour, SubSeqOfSubSeq
<1>5. (k + 1) + 1 - 1 = k + 1 /\ (k + 1) + r - 1 = k + r /\ (k + 1) + (r + 1) - 1 = k + r + 1
      /\ (k + 1) + (n - k) - 1 = n
  OBVIOUS
<1> QED
  BY <1>1, <1>2, <1>3, <1>4, <1>5

\* Sending what comes next makes the stream longer.
LEMMA StreamSent ==
  ASSUME NEW k \in 0..4, NEW n \in {0, 2}, k <= n
  PROVE  SubSeq(Stream, k + 1, n) \o Msg(IF n = 0 THEN "header" ELSE "file")
           = SubSeq(Stream, k + 1, n + 2)
<1>1. SubSeq(Stream, k + 1, n) \o SubSeq(Stream, n + 1, n + 2) = SubSeq(Stream, k + 1, n + 2)
  BY StreamIsFour, ConcatAdjacentSubSeq
<1>2. SubSeq(Stream, n + 1, n + 2) = Msg(IF n = 0 THEN "header" ELSE "file")
  <2>1. CASE n = 0
    BY <2>1, StreamIsFour
  <2>2. CASE n = 2
    BY <2>2, StreamIsFour
  <2> QED
    BY <2>1, <2>2
<1> QED
  BY <1>1, <1>2

-----------------------------------------------------------------------------
\* Where main() stands after a step of its own.
LEMMA MainGoesOn ==
  ASSUME Shapes, NEW p \in Procs, NEW n, Jump(p, "main", n)
  PROVE  /\ n \in Nat => pc'[p]["main"] = n
         /\ \A q \in Procs \ {p} : pc'[q] = pc[q]
BY DEF Shapes, Jump, Procs, Threads, Crashed

LEMMA AdvanceGoesOn ==
  ASSUME Shapes, NEW p \in Procs, Advance(p, "main"), Here(p, "main").ok \in Nat,
         Here(p, "main").ok = Thru => pc[p]["main"] # Len(Code(p))
  PROVE  /\ pc'[p]["main"] = IF Here(p, "main").ok = Thru THEN pc[p]["main"] + 1
                                                         ELSE Here(p, "main").ok
         /\ \A q \in Procs \ {p} : pc'[q] = pc[q]
<1>1. pc[p]["main"] + 1 \in Nat
  BY DEF Shapes, Threads
<1>2. CASE Here(p, "main").ok = Thru
  <2>1. Jump(p, "main", pc[p]["main"] + 1)
    BY <1>2 DEF Advance, Below
  <2> QED
    BY <1>1, <1>2, <2>1, MainGoesOn
<1>3. CASE Here(p, "main").ok # Thru
  <2>1. Jump(p, "main", Here(p, "main").ok)
    BY <1>3 DEF Advance
  <2> QED
    BY <1>3, <2>1, MainGoesOn
<1> QED
  BY <1>2, <1>3

LEMMA BranchGoesOn ==
  ASSUME Shapes, NEW p \in Procs, NEW b, Branch(p, "main", b), b.to \in Nat \ {Thru}
  PROVE  pc'[p]["main"] = b.to /\ \A q \in Procs \ {p} : pc'[q] = pc[q]
<1>1. Jump(p, "main", b.to)
  BY DEF Branch
<1> QED
  BY <1>1, MainGoesOn

\* Nothing but main() runs in the file transfer.
LEMMA OnlyMainRuns ==
  ASSUME Shapes, OnLines, pair = "file", NEW p \in Procs, NEW t \in Threads, Runs(p, t)
  PROVE  t = "main" /\ pc[p]["main"] \in DOMAIN Code(p) /\ Here(p, "main") = Code(p)[pc[p]["main"]]
<1>1. \A i \in DOMAIN Code(p) : Code(p)[i].op # "spawn"
  <2>1. p = "server" \/ p = "client"
    BY DEF Procs
  <2>2. \A i \in DOMAIN FileServer : FileServer[i].op # "spawn"
    <3>1. DOMAIN FileServer = 1..16 /\ \A i \in 1..16 : i \in 1..5 \/ i \in 6..16
      BY FileServerRecv
    <3>2. \A i \in 6..16 : i \in {6, 7, 8, 9, 10, 11, 12, 13, 14, 15, 16}
      OBVIOUS
    <3> QED
      BY <3>1, <3>2, FileServerOpens, FileServerRecv, FileServerRecv2, FileServerFull, FileServerRest
  <2>3. \A i \in DOMAIN FileClient : FileClient[i].op # "spawn"
    BY FileClientLines
  <2> QED
    BY <2>1, <2>2, <2>3, FileCode
<1>2. ThreadLines(Code(p)) = {}
  BY <1>1 DEF ThreadLines, MainLines, SpawnLines
<1>3. Ends \cap DOMAIN Code(p) = {}
  BY CodeConnects DEF Shapes, LinesConnect
<1> QED
  BY <1>2, <1>3 DEF Runs, OnLines, Workers, Ends, Here

\* What a receive brings the server, and what it leaves.
LEMMA ServerReceives ==
  ASSUME Shapes, pair = "file", NEW n \in {0, 2, 4}, NEW k \in 0..4, InOrder(n, k),
         pc["server"]["main"] \in ReadsOn, Received("server", "main")
  PROVE  \E r \in 1..2 :
           /\ k + r <= n /\ wire'["server"] = SubSeq(Stream, k + r + 1, n)
           /\ pc["server"]["main"] # 15 => got'["server"] = SubSeq(Stream, k + 1, k + r)
           /\ pc["server"]["main"] = 15 => r = 1 /\ got'["server"] = SubSeq(Stream, 3, 4)
<1> DEFINE i == pc["server"]["main"]
           step == FileServer[i]
<1>1. Here("server", "main") = step /\ "server" \in Procs
  BY FileCode DEF Here, Procs
<1>2. step.op = "recv" /\ step.arg = (IF i = 15 THEN "rest" ELSE "message")
  BY FileServerRecv, FileServerRecv2 DEF ReadsOn
<1> HIDE DEF step
<1>3. PICK r \in 1..Len(wire["server"]) :
        /\ r <= Size("server", step)
        /\ got' = [got EXCEPT !["server"] = Kept("server", step, SubSeq(wire["server"], 1, r))]
        /\ wire' = [wire EXCEPT !["server"] = SubSeq(@, r + 1, Len(@))]
  BY <1>1 DEF Received
<1>4. k <= n /\ wire["server"] = SubSeq(Stream, k + 1, n) /\ n \in 0..4
  <2>1. i \in 1..9
    \/ i = 15
    BY DEF ReadsOn
  <2> QED
    BY <2>1 DEF InOrder, Reading
<1>5. r \in 1..2
  <2>1. Size("server", step) = IF i = 15 THEN 2 - Len(got["server"]) ELSE 2
    BY <1>2 DEF Size
  <2>2. i = 15 => Len(got["server"]) \in Nat
    BY LenProperties DEF Shapes, Procs
  <2>3. Len(wire["server"]) \in Nat
    BY LenProperties DEF Shapes, Procs
  <2> QED
    BY <1>3, <2>1, <2>2, <2>3
<1>6. /\ k + r <= n
      /\ SubSeq(wire["server"], 1, r) = SubSeq(Stream, k + 1, k + r)
      /\ SubSeq(wire["server"], r + 1, Len(wire["server"])) = SubSeq(Stream, k + r + 1, n)
  BY <1>3, <1>4, <1>5, StreamTaken
<1>7. wire'["server"] = SubSeq(Stream, k + r + 1, n)
  BY <1>1, <1>3, <1>6 DEF Shapes
<1>8. got'["server"] = Kept("server", step, SubSeq(Stream, k + 1, k + r))
  BY <1>1, <1>3, <1>6 DEF Shapes
<1>9. CASE i # 15
  BY <1>2, <1>5, <1>6, <1>7, <1>8, <1>9 DEF Kept
<1>10. CASE i = 15
  <2>1. k = 3 /\ got["server"] = SubSeq(Stream, 3, 3)
    BY <1>10 DEF InOrder
  <2>2. r = 1
    BY <1>4, <1>5, <1>6, <2>1
  <2>3. SubSeq(Stream, 3, 3) \o SubSeq(Stream, 3 + 1, 4) = SubSeq(Stream, 3, 4)
    BY StreamIsFour, ConcatAdjacentSubSeq
  <2>4. got'["server"] = got["server"] \o SubSeq(Stream, k + 1, k + r)
    BY <1>2, <1>8, <1>10 DEF Kept
  <2>5. k + 1 = 3 + 1 /\ k + r = 4
    BY <2>1, <2>2
  <2>6. got'["server"] = SubSeq(Stream, 3, 4)
    BY <2>1, <2>3, <2>4, <2>5
  <2> QED
    BY <1>6, <1>7, <1>10, <2>2, <2>6
<1> QED
  BY <1>9, <1>10

LEMMA ServerStep ==
  ASSUME Shapes, pair = "file", NEW n \in {0, 2, 4}, NEW k \in 0..4, InOrder(n, k),
         pc["server"]["main"] \in 1..16, Goes("server", "main") \/ Failed("server", "main")
  PROVE  \E j \in 0..4 : InOrder(n, j)'
<1> DEFINE i == pc["server"]["main"]
           P == FileServer
           now == pc'["server"]["main"]
<1> HIDE DEF P
<1>1. /\ "server" \in Procs /\ "main" \in Threads /\ Code("server") = P /\ Len(P) = 16
      /\ Here("server", "main") = P[i]
  BY FileCode, FileServerRecv DEF Here, Procs, Threads, P
<1>2. \A to \in {Return, Crashed, Thru} : to \in {99, 98, 0}
  BY DEF Return, Crashed, Thru
<1>3. /\ Branch("server", "main", P[i].fail) /\ P[i].fail.to \in Nat \ {0}
           => now = P[i].fail.to /\ pc'["client"] = pc["client"]
      /\ Branch("server", "main", P[i].zero) /\ P[i].zero.to \in Nat \ {0}
           => now = P[i].zero.to /\ pc'["client"] = pc["client"]
      /\ Advance("server", "main") /\ P[i].ok \in Nat /\ (P[i].ok = 0 => i # 16)
           => /\ now = IF P[i].ok = 0 THEN i + 1 ELSE P[i].ok
              /\ pc'["client"] = pc["client"]
  <2>1. "client" \in Procs \ {"server"}
    BY DEF Procs
  <2>2. Branch("server", "main", P[i].fail) /\ P[i].fail.to \in Nat \ {0}
           => now = P[i].fail.to /\ pc'["client"] = pc["client"]
    BY <1>1, <2>1, BranchGoesOn DEF Thru
  <2>3. Branch("server", "main", P[i].zero) /\ P[i].zero.to \in Nat \ {0}
           => now = P[i].zero.to /\ pc'["client"] = pc["client"]
    BY <1>1, <2>1, BranchGoesOn DEF Thru
  <2>4. Advance("server", "main") /\ P[i].ok \in Nat /\ (P[i].ok = 0 => i # 16)
           => /\ now = IF P[i].ok = 0 THEN i + 1 ELSE P[i].ok
              /\ pc'["client"] = pc["client"]
    BY <1>1, <2>1, AdvanceGoesOn DEF Thru
  <2> QED
    BY <2>2, <2>3, <2>4
<1>4. ASSUME NEW j \in 0..4, pc'["client"] = pc["client"],
             now \in Reading => j <= n /\ wire'["server"] = SubSeq(Stream, j + 1, n),
             now \in 1..6 => j = 0,
             now = 7 => j \in 1..2 /\ got'["server"] = SubSeq(Stream, 1, j),
             now = 8 => j = 2,
             now = 9 => j \in 3..4 /\ got'["server"] = SubSeq(Stream, 3, j),
             now = 15 => j = 3 /\ got'["server"] = SubSeq(Stream, 3, 3),
             now = 10 => got'["server"] = Msg("file")
      PROVE  InOrder(n, j)'
  BY <1>4 DEF InOrder, Reading
<1>5. ASSUME now \in Nat, now \notin Reading \cup {10}, pc'["client"] = pc["client"]
      PROVE  InOrder(n, 0)'
  BY <1>4, <1>5 DEF Reading
<1>6. CASE i \in 1..5
  <2>1. /\ P[i].op \in {"acquire", "call", "listen", "accept"}
        /\ P[i].ok = Thru /\ P[i].fail.to = Return
    BY <1>6, FileServerOpens DEF P
  <2>2. UNCHANGED <<wire, got>> /\ (now = i + 1 \/ now = Return) /\ pc'["client"] = pc["client"]
    BY <1>1, <1>2, <1>3, <1>6, <2>1, NothingMoves DEF Thru, Return
  <2>3. k = 0 /\ k <= n /\ wire["server"] = SubSeq(Stream, k + 1, n)
    BY <1>6 DEF InOrder, Reading
  <2>4. i + 1 \in 1..6
    BY <1>6
  <2> QED
    BY <1>4, <1>5, <2>2, <2>3, <2>4 DEF Return, Reading
<1>7. CASE i \in {6, 8, 15}
  <2>1. /\ P[i].op = "recv" /\ P[i].zero.to = Return /\ P[i].fail.to = Return
        /\ P[i].ok = (IF i = 15 THEN 9 ELSE Thru)
    BY <1>7, FileServerRecv, FileServerRecv2 DEF P
  <2>2. CASE ~Received("server", "main")
    <3>1. now = Return /\ pc'["client"] = pc["client"]
      BY <1>1, <1>3, <2>1, <2>2, RecvCases DEF Thru, Return
    <3> QED
      BY <1>5, <3>1 DEF Return, Reading
  <2>3. CASE Received("server", "main")
    <3>1. /\ now = (IF i = 15 THEN 9 ELSE i + 1)
          /\ pc'["client"] = pc["client"]
      <4>1. Advance("server", "main")
        BY <2>3 DEF Received
      <4> QED
        BY <1>1, <1>3, <1>7, <2>1, <4>1 DEF Thru
    <3>2. PICK r \in 1..2 :
            /\ k + r <= n /\ wire'["server"] = SubSeq(Stream, k + r + 1, n)
            /\ i # 15 => got'["server"] = SubSeq(Stream, k + 1, k + r)
            /\ i = 15 => r = 1 /\ got'["server"] = SubSeq(Stream, 3, 4)
      BY <1>7, <2>3, ServerReceives DEF ReadsOn
    <3>3. (i = 6 => k = 0) /\ (i = 8 => k = 2) /\ (i = 15 => k = 3)
      BY DEF InOrder
    <3>4. PICK m \in 0..4 : m = k + r
      BY <3>2
    <3>5. m <= n /\ wire'["server"] = SubSeq(Stream, m + 1, n)
      BY <3>2, <3>4
    <3>6. pc'["client"] = pc["client"]
      BY <3>1
    <3>7. CASE i = 6
      <4>1. now = 7 /\ m \in 1..2 /\ got'["server"] = SubSeq(Stream, 1, m)
        BY <3>1, <3>2, <3>3, <3>4, <3>7
      <4>2. InOrder(n, m)'
        BY <1>4, <3>5, <3>6, <4>1
      <4> QED
        BY <4>2
    <3>8. CASE i = 8
      <4>1. now = 9 /\ m \in 3..4 /\ got'["server"] = SubSeq(Stream, 3, m)
        BY <3>1, <3>2, <3>3, <3>4, <3>8
      <4>2. InOrder(n, m)'
        BY <1>4, <3>5, <3>6, <4>1
      <4> QED
        BY <4>2
    <3>9. CASE i = 15
      <4>1. now = 9 /\ m = 4 /\ got'["server"] = SubSeq(Stream, 3, m)
        BY <3>1, <3>2, <3>3, <3>4, <3>9
      <4>2. InOrder(n, m)'
        BY <1>4, <3>5, <3>6, <4>1
      <4> QED
        BY <4>2
    <3> QED
      BY <1>7, <3>7, <3>8, <3>9
  <2> QED
    BY <2>2, <2>3
<1>8. CASE i \in {7, 9}
  <2>1. P[i].op = "full" /\ P[i].ok = Thru /\ P[i].fail.to = (IF i = 7 THEN 12 ELSE 15)
    BY <1>8, FileServerFull DEF P
  <2>2. /\ k <= n /\ wire["server"] = SubSeq(Stream, k + 1, n)
        /\ i = 7 => k \in 1..2 /\ got["server"] = SubSeq(Stream, 1, k)
        /\ i = 9 => k \in 3..4 /\ got["server"] = SubSeq(Stream, 3, k)
    BY <1>8 DEF InOrder, Reading
  <2>3. Len(got["server"]) = IF i = 7 THEN k ELSE k - 2
    <3>1. i = 7 => Len(SubSeq(Stream, 1, k)) = k
      BY <2>2, StreamIsFour, SubSeqProperties
    <3>2. i = 9 => Len(SubSeq(Stream, 3, k)) = k - 2
      BY <2>2, StreamIsFour, SubSeqProperties
    <3> QED
      BY <1>8, <2>2, <3>1, <3>2
  <2>4. /\ UNCHANGED <<wire, got>>
        /\ IF Len(got["server"]) >= 2 THEN Advance("server", "main")
                                      ELSE Branch("server", "main", P[i].fail)
    BY <1>1, <2>1, FullCases
  <2>5. pc'["client"] = pc["client"]
    BY <1>1, <1>3, <1>8, <2>1, <2>4 DEF Thru
  <2>6. now = IF Len(got["server"]) >= 2 THEN i + 1 ELSE P[i].fail.to
    BY <1>3, <1>8, <2>1, <2>4 DEF Thru
  <2>7. CASE i = 7
    BY <1>4, <1>5, <2>1, <2>2, <2>3, <2>4, <2>5, <2>6, <2>7 DEF Reading
  <2>8. CASE i = 9
    <3>1. CASE k = 4
      <4>1. now = 10
        BY <2>3, <2>6, <2>8, <3>1
      <4>2. got'["server"] = Msg("file")
        BY <2>2, <2>4, <2>8, <3>1, StreamIsFour
      <4> QED
        BY <1>4, <2>5, <4>1, <4>2 DEF Reading
    <3>2. CASE k = 3
      BY <1>4, <2>1, <2>2, <2>3, <2>4, <2>5, <2>6, <2>8, <3>2 DEF Reading
    <3> QED
      BY <2>2, <2>8, <3>1, <3>2
  <2> QED
    BY <1>8, <2>7, <2>8
<1>9. CASE i \in {10, 11, 12, 13, 14, 16}
  <2>1. now \in {11, 12, 13, 14, 16, Return, Crashed} /\ pc'["client"] = pc["client"]
    <3>1. CASE i \in {10, 12, 13}
      <4>1. /\ P[i].op \in {"call", "undefined"} /\ P[i].ok \in {Thru, 16}
            /\ P[i].fail.to \in {Return, Crashed, 14}
        BY <3>1, FileServerRest DEF P
      <4> QED
        BY <1>1, <1>3, <3>1, <4>1, NothingMoves
        DEF Thru, Return, Crashed
    <3>2. CASE i = 11
      <4>1. P[i].op = "release" /\ P[i].ok = Return
        BY <3>2, FileServerRest DEF P
      <4> QED
        BY <1>1, <1>3, <3>2, <4>1, NothingMoves DEF Thru, Return, Fallible
    <3>3. CASE i = 14
      <4>1. /\ P[i].op = "recv" /\ P[i].ok = 13
            /\ P[i].fail.to = Return /\ P[i].zero.to = Return
        BY <3>3, FileServerRecv2 DEF P
      <4> QED
        BY <1>1, <1>3, <3>3, <4>1, RecvCases
        DEF Thru, Return, Received
    <3>4. CASE i = 16
      <4>1. P[i].op = "call" /\ P[i].ok = 11 /\ P[i].fail.to = Return
        BY <3>4, FileServerRest DEF P
      <4> QED
        BY <1>1, <1>3, <3>4, <4>1, NothingMoves DEF Thru, Return
    <3> QED
      BY <1>9, <3>1, <3>2, <3>3, <3>4
  <2> QED
    BY <1>5, <2>1 DEF Return, Crashed, Reading
<1> QED
  <2>1. i \in 1..5 \/ i \in {6, 8, 15} \/ i \in {7, 9} \/ i \in {10, 11, 12, 13, 14, 16}
    OBVIOUS
  <2> QED
    BY <1>6, <1>7, <1>8, <1>9, <2>1

LEMMA ClientStep ==
  ASSUME Shapes, pair = "file", NEW n \in {0, 2, 4}, NEW k \in 0..4, InOrder(n, k),
         pc["client"]["main"] \in 1..7, Goes("client", "main") \/ Failed("client", "main")
  PROVE  \E m \in {0, 2, 4} : InOrder(m, k)'
<1> DEFINE i == pc["client"]["main"]
           P == FileClient
           now == pc'["client"]["main"]
<1> HIDE DEF P
<1>1. /\ "client" \in Procs /\ "main" \in Threads /\ Code("client") = P /\ Len(P) = 7
      /\ Here("client", "main") = P[i] /\ "server" \in Procs \ {"client"}
  BY FileCode, FileClientLines DEF Here, Procs, Threads, P
<1>2. /\ P[i].ok = Thru /\ (i # 7 => P[i].fail.to = Return)
  BY <1>1, FileClientLines DEF P
<1>3. /\ Branch("client", "main", P[i].fail) /\ i # 7
           => now = Return /\ pc'["server"] = pc["server"]
      /\ Advance("client", "main")
           => now = (IF i = 7 THEN Return ELSE i + 1) /\ pc'["server"] = pc["server"]
  <2>1. Branch("client", "main", P[i].fail) /\ i # 7
           => now = Return /\ pc'["server"] = pc["server"]
    BY <1>1, <1>2, BranchGoesOn DEF Return, Thru
  <2>2. Advance("client", "main") /\ i # 7 => now = i + 1 /\ pc'["server"] = pc["server"]
    <3>1. Here("client", "main").ok = Thru /\ Here("client", "main").ok \in Nat
      BY <1>1, <1>2 DEF Thru
    <3> QED
      BY <1>1, <3>1, AdvanceGoesOn
  <2>3. Advance("client", "main") /\ i = 7 => now = Return /\ pc'["server"] = pc["server"]
    <3>1. Advance("client", "main") /\ i = 7 => Jump("client", "main", Return)
      BY <1>1, <1>2 DEF Advance, Below
    <3> QED
      BY <1>1, <3>1, MainGoesOn DEF Return
  <2> QED
    BY <2>1, <2>2, <2>3
<1>4. ASSUME NEW m \in {0, 2, 4}, pc'["server"] = pc["server"], got'["server"] = got["server"],
             now \in 1..5 => m = 0, now = 6 => m = 2, n <= m,
             pc["server"]["main"] \in Reading => wire'["server"] = SubSeq(Stream, k + 1, m)
      PROVE  InOrder(m, k)'
  BY <1>4 DEF InOrder, Reading
<1>5. CASE i \in 1..4 \cup {7}
  <2>1. P[i].op \in {"acquire", "connect", "call", "release"} /\ (i = 7 => P[i].op = "release")
    BY <1>5, FileClientLines DEF P
  <2>2. UNCHANGED <<wire, got>> /\ now \in {i + 1, Return} /\ pc'["server"] = pc["server"]
    <3>1. /\ UNCHANGED <<wire, got>>
          /\ Advance("client", "main") \/ (i # 7 /\ Branch("client", "main", P[i].fail))
      BY <1>1, <2>1, NothingMoves DEF Fallible
    <3> QED
      BY <1>3, <3>1
  <2>3. (i # 7 => n = 0) /\ (now \in 1..6 => i # 7)
    BY <1>5, <2>2 DEF InOrder, Return
  <2>4. pc["server"]["main"] \in Reading => wire["server"] = SubSeq(Stream, k + 1, n)
    BY DEF InOrder
  <2>5. now # 6
    BY <1>5, <2>2 DEF Return
  <2> QED
    BY <1>4, <2>2, <2>3, <2>4, <2>5
<1>6. CASE i \in {5, 6}
  <2>1. P[i].op = "send" /\ P[i].arg = (IF i = 5 THEN "header" ELSE "file")
    BY <1>6, FileClientLines DEF P
  <2>2. n = (IF i = 5 THEN 0 ELSE 2) /\ i # 7
    BY <1>6 DEF InOrder
  <2>3. pc["server"]["main"] \in Reading => k <= n /\ wire["server"] = SubSeq(Stream, k + 1, n)
    BY DEF InOrder
  <2>4. CASE Sent("client", "main")
    <3>1. now = i + 1 /\ pc'["server"] = pc["server"] /\ UNCHANGED got
      BY <1>3, <2>2, <2>4 DEF Sent
    <3>2. Payloads("client", P[i].arg) = {Msg(P[i].arg)}
      BY <1>6, <2>1 DEF Payloads
    <3>3. wire' = [wire EXCEPT !["server"] = @ \o Msg(P[i].arg)]
      BY <1>1, <2>4, <3>2 DEF Sent, Other
    <3>4. wire'["server"] = wire["server"] \o Msg(P[i].arg)
      BY <1>1, <3>3 DEF Shapes
    <3>5. pc["server"]["main"] \in Reading => wire'["server"] = SubSeq(Stream, k + 1, n + 2)
      <4>1. k <= n => SubSeq(Stream, k + 1, n) \o Msg(IF n = 0 THEN "header" ELSE "file")
                        = SubSeq(Stream, k + 1, n + 2)
        BY <1>6, <2>2, StreamSent
      <4>2. P[i].arg = IF n = 0 THEN "header" ELSE "file"
        BY <1>6, <2>1, <2>2
      <4> QED
        BY <2>3, <3>4, <4>1, <4>2
    <3>6. PICK m \in {0, 2, 4} : m = n + 2
      BY <2>2
    <3>7. InOrder(m, k)'
      <4>1. (now \in 1..5 => m = 0) /\ (now = 6 => m = 2) /\ n <= m
        BY <1>6, <2>2, <3>1, <3>6
      <4> QED
        BY <1>4, <3>1, <3>5, <3>6, <4>1
    <3> QED
      BY <3>7
  <2>5. CASE Branch("client", "main", P[i].fail) /\ UNCHANGED <<wire, got>>
    BY <1>3, <1>4, <2>2, <2>3, <2>5 DEF Return
  <2> QED
    BY <1>1, <2>1, <2>4, <2>5, SendCases
<1> QED
  BY <1>5, <1>6

LEMMA StreamStep ==
  ASSUME Shapes, OnLines, StreamInOrder, [Next]_vars
  PROVE  StreamInOrder'
<1>1. UNCHANGED pair
  BY StepCases
<1> SUFFICES ASSUME pair = "file"
             PROVE  \E n \in {0, 2, 4}, k \in 0..4 : InOrder(n, k)'
  BY <1>1 DEF StreamInOrder
<1>2. PICK n \in {0, 2, 4}, k \in 0..4 : InOrder(n, k)
  BY DEF StreamInOrder
<1>3. CASE UNCHANGED <<pc, wire, got>>
  BY <1>2, <1>3 DEF InOrder, Reading
<1>4. ASSUME NEW p \in Procs, NEW t \in Threads, Goes(p, t) \/ Failed(p, t)
      PROVE  \E m \in {0, 2, 4}, j \in 0..4 : InOrder(m, j)'
  <2>1. Runs(p, t)
    BY <1>4, EveryStepIsAWay DEF Shapes
  <2>2. t = "main" /\ pc[p]["main"] \in DOMAIN Code(p)
    BY <2>1, OnlyMainRuns
  <2>3. CASE p = "server"
    BY <1>2, <1>4, <2>2, <2>3, ServerStep, FileCode, FileServerRecv
  <2>4. CASE p = "client"
    BY <1>2, <1>4, <2>2, <2>4, ClientStep, FileCode, FileClientLines
  <2> QED
    BY <2>3, <2>4 DEF Procs
<1> QED
  BY <1>3, <1>4 DEF Next, Lose, Reset, vars

-----------------------------------------------------------------------------
(***************************************************************************)
(* Texts that have not been sent.                                          *)
(***************************************************************************)
\* Of what a sequence is without, its parts are without too.
LEMMA WithoutParts ==
  ASSUME NEW s \in Seq(Piece), NEW U, Without(s, U)
  PROVE  /\ \A n \in 1..Len(s) : /\ Without(SubSeq(s, 1, n), U)
                                 /\ Without(SubSeq(s, n + 1, Len(s)), U)
         /\ s # <<>> => Without(Tail(s), U)
<1>1. DOMAIN s = 1..Len(s) /\ Len(s) \in Nat
  BY LenProperties
<1>2. ASSUME NEW m \in 1..Len(s) + 1, NEW n \in m - 1..Len(s)
      PROVE  Without(SubSeq(s, m, n), U)
  <2>1. SubSeq(s, m, n) = [i \in 1..n - m + 1 |-> s[i + m - 1]]
    BY SubSeqProperties
  <2>2. \A i \in 1..n - m + 1 : i + m - 1 \in 1..Len(s)
    BY <1>1
  <2> QED
    BY <1>1, <2>1, <2>2 DEF Without
<1>3. ASSUME NEW n \in 1..Len(s)
      PROVE  Without(SubSeq(s, 1, n), U) /\ Without(SubSeq(s, n + 1, Len(s)), U)
  <2>1. 1 \in 1..Len(s) + 1 /\ n \in 1 - 1..Len(s)
    BY <1>1
  <2>2. n + 1 \in 1..Len(s) + 1 /\ Len(s) \in n + 1 - 1..Len(s)
    BY <1>1
  <2> QED
    BY <1>2, <2>1, <2>2
<1>4. ASSUME s # <<>>
      PROVE  Without(Tail(s), U)
  <2>1. /\ Tail(s) \in Seq(Piece) /\ Len(Tail(s)) = Len(s) - 1
        /\ \A n \in 1..Len(Tail(s)) : Tail(s)[n] = s[n + 1]
    BY <1>4, HeadTailProperties
  <2>2. DOMAIN Tail(s) = 1..Len(s) - 1
    BY <2>1, LenProperties
  <2>3. \A n \in 1..Len(s) - 1 : Tail(s)[n] = s[n + 1] /\ n + 1 \in 1..Len(s)
    BY <1>1, <2>1
  <2> QED
    BY <1>1, <2>2, <2>3 DEF Without
<1> QED
  BY <1>3, <1>4

LEMMA WithoutNothing ==
  ASSUME NEW U
  PROVE  <<>> \in Seq(Piece) /\ Without(<<>>, U)
<1>1. PICK s \in Seq(Piece) : s = <<>>
  BY EmptySeq
<1>2. DOMAIN s = 1..Len(s) /\ Len(s) = 0
  BY <1>1, EmptySeq, LenProperties
<1>3. Without(s, U)
  BY <1>2 DEF Without
<1> QED
  BY <1>1, <1>3

LEMMA WithoutBoth ==
  ASSUME NEW s \in Seq(Piece), NEW r \in Seq(Piece), NEW U, Without(s, U), Without(r, U)
  PROVE  Without(s \o r, U)
<1>1. \A i \in 1..Len(s) + Len(r) :
        (s \o r)[i] = (IF i <= Len(s) THEN s[i] ELSE r[i - Len(s)])
  BY ConcatProperties
<1>2. DOMAIN (s \o r) = 1..Len(s) + Len(r) /\ DOMAIN s = 1..Len(s) /\ DOMAIN r = 1..Len(r)
      /\ Len(s) \in Nat /\ Len(r) \in Nat
  BY ConcatProperties, LenProperties
<1> SUFFICES ASSUME NEW i \in 1..Len(s) + Len(r)
             PROVE  (s \o r)[i][1] \notin U
  BY <1>2 DEF Without
<1>3. CASE i <= Len(s)
  BY <1>1, <1>2, <1>3 DEF Without
<1>4. CASE i > Len(s)
  <2>1. i - Len(s) \in 1..Len(r)
    BY <1>2, <1>4
  <2> QED
    BY <1>1, <1>2, <1>4, <2>1 DEF Without
<1> QED
  BY <1>2, <1>3, <1>4

LEMMA TwoProcs ==
  ASSUME NEW p \in Procs
  PROVE  /\ Other(p) \in Procs /\ Other(p) # p /\ Other(Other(p)) = p
         /\ \A q \in Procs : q = p \/ q = Other(p)
<1>1. CASE p = "server"
  BY <1>1 DEF Other, Procs
<1>2. CASE p = "client"
  BY <1>2 DEF Other, Procs
<1> QED
  BY <1>1, <1>2 DEF Procs

LEMMA WithoutText ==
  ASSUME NEW m, NEW U, m \notin U
  PROVE  Without(Msg(m), U)
BY DEF Without, Msg

LEMMA WithIsNotWithout ==
  ASSUME NEW m, NEW U, m \in U
  PROVE  ~Without(Msg(m), U)
<1>1. 1 \in DOMAIN Msg(m) /\ Msg(m)[1][1] = m
  BY DEF Msg
<1> QED
  BY <1>1 DEF Without

\* Texts that decryption does not turn other texts into.
Closed(U) == \A m : Xored(m) \in U => m \in U

\* No text comes on its way to a process that nobody sends it.
LEMMA NothingNewIsSent ==
  ASSUME Shapes, NEW U, NEW q \in Procs, Without(wire[q], U),
         NEW p \in Procs, NEW t \in Threads, Goes(p, t) \/ Failed(p, t),
         p = Other(q) /\ Here(p, t).op \in {"send", "sendNow"} =>
           \A s \in Payloads(p, Here(p, t).arg) : Without(s, U),
         p = Other(q) /\ Here(p, t).op = "sendto" => Here(p, t).arg \notin U
  PROVE  Without(wire'[q], U)
<1> DEFINE m == Here(p, t).arg
<1>1. CASE UNCHANGED wire
  BY <1>1
<1>2. ASSUME NEW s, wire' = [wire EXCEPT ![Other(p)] = @ \o s], s \in Seq(Piece),
             p = Other(q) => Without(s, U)
      PROVE  Without(wire'[q], U)
  <2>1. CASE p = q
    <3>1. Other(p) # q
      BY <2>1, TwoProcs
    <3> QED
      BY <1>2, <3>1 DEF Shapes
  <2>2. CASE p # q
    <3>1. p = Other(q) /\ q = Other(p)
      BY <2>2, TwoProcs
    <3>2. wire'[q] = wire[q] \o s
      BY <1>2, <3>1 DEF Shapes
    <3> QED
      BY <1>2, <3>1, <3>2, WithoutBoth DEF Shapes
  <2> QED
    BY <2>1, <2>2
<1>3. CASE Sent(p, t)
  <2>1. Here(p, t).op \in {"send", "sendNow"} /\ m \in Texts
    BY <1>3, ArgumentIsText DEF Sent, At, Runs, Here
  <2>2. PICK s \in Payloads(p, m) : wire' = [wire EXCEPT ![Other(p)] = @ \o s]
    BY <1>3 DEF Sent
  <2>3. s \in Seq(Piece)
    BY <2>1, PayloadIsPieces
  <2> QED
    BY <1>2, <2>1, <2>2, <2>3
<1>4. CASE SentTo(p, t)
  <2>1. Here(p, t).op = "sendto" /\ m \in Texts
    BY <1>4, ArgumentIsText DEF SentTo, At, Runs, Here
  <2>2. PICK s \in {<<>>, Msg(m)} : wire' = [wire EXCEPT ![Other(p)] = @ \o s]
    BY <1>4 DEF SentTo
  <2>3. s \in Seq(Piece) /\ (p = Other(q) => Without(s, U))
    BY <2>1, <2>2, WithoutNothing, WithoutText, MsgIsPieces
  <2> QED
    BY <1>2, <2>2, <2>3
<1>5. ASSUME wire[p] # <<>>,
             \/ \E n \in 1..Len(wire[p]) : wire' = [wire EXCEPT ![p] = SubSeq(@, n + 1, Len(@))]
             \/ wire' = [wire EXCEPT ![p] = Tail(@)]
      PROVE  Without(wire'[q], U)
  <2>1. CASE p # q
    BY <1>5, <2>1 DEF Shapes
  <2>2. CASE p = q
    <3>1. /\ \A n \in 1..Len(wire[q]) : Without(SubSeq(wire[q], n + 1, Len(wire[q])), U)
          /\ wire[q] # <<>> => Without(Tail(wire[q]), U)
      BY WithoutParts DEF Shapes
    <3>2. CASE wire' = [wire EXCEPT ![p] = Tail(@)]
      <4>1. wire'[q] = Tail(wire[q])
        BY <2>2, <3>2 DEF Shapes
      <4> QED
        BY <1>5, <2>2, <3>1, <4>1
    <3>3. ASSUME NEW n \in 1..Len(wire[p]), wire' = [wire EXCEPT ![p] = SubSeq(@, n + 1, Len(@))]
          PROVE  Without(wire'[q], U)
      <4>1. wire'[q] = SubSeq(wire[q], n + 1, Len(wire[q]))
        BY <2>2, <3>3 DEF Shapes
      <4> QED
        BY <2>2, <3>1, <3>3, <4>1
    <3> QED
      BY <1>5, <3>2, <3>3
  <2> QED
    BY <2>1, <2>2
<1>6. CASE Received(p, t)
  <2>1. PICK n \in 1..Len(wire[p]) : wire' = [wire EXCEPT ![p] = SubSeq(@, n + 1, Len(@))]
    BY <1>6 DEF Received
  <2>2. wire[p] # <<>>
    BY <2>1, EmptySeq DEF Shapes
  <2> QED
    BY <1>5, <2>1, <2>2
<1>7. CASE ReadNoBytes(p, t)
  BY <1>5, <1>7 DEF ReadNoBytes
<1>8. CASE Acquired(p, t) \/ Called(p, t) \/ Released(p, t) \/ Listening(p, t)
             \/ Connected(p, t) \/ ConnectStarted(p, t) \/ Accepted(p, t) \/ ShutDown(p, t)
  BY <1>1, <1>8
  DEF Acquired, Called, Released, Listening, Connected, ConnectStarted, Accepted, ShutDown
<1>9. CASE NoRoom(p, t) \/ ReceivedEnd(p, t) \/ NothingYet(p, t) \/ NotConnected(p, t)
             \/ Compared(p, t) \/ Decrypted(p, t) \/ DidNothing(p, t) \/ Begun(p, t) \/ Spawned(p, t)
             \/ Joined(p, t) \/ LookedAtFlag(p, t) \/ ClearedFlag(p, t) \/ Failed(p, t)
  BY <1>1, <1>9
  DEF NoRoom, ReceivedEnd, NothingYet, NotConnected, Compared, Decrypted, DidNothing, Begun, Spawned,
      Joined, LookedAtFlag, ClearedFlag, Failed
<1> QED
  BY <1>3, <1>4, <1>6, <1>7, <1>8, <1>9, Zenon DEF Goes

\* What a process has in its buffer came over its wire, or was decrypted there.
LEMMA NothingNewIsRead ==
  ASSUME Shapes, NEW U, NEW q \in Procs, Without(wire[q], U), Without(got[q], U),
         NEW p \in Procs, NEW t \in Threads, Goes(p, t) \/ Failed(p, t),
         p = q /\ Here(p, t).op = "xor" => Closed(U)
  PROVE  Without(got'[q], U)
<1>1. CASE UNCHANGED got
  BY <1>1
<1>2. CASE Received(p, t)
  <2>1. PICK n \in 1..Len(wire[p]) :
          got' = [got EXCEPT ![p] = Kept(p, Here(p, t), SubSeq(wire[p], 1, n))]
    BY <1>2 DEF Received
  <2>2. CASE p # q
    BY <2>1, <2>2 DEF Shapes
  <2>3. CASE p = q
    <3>1. /\ wire[q] \in Seq(Piece) /\ Len(wire[q]) \in Nat /\ got[q] \in Seq(Piece)
          /\ n \in 1..Len(wire[q])
      BY <2>3, LenProperties DEF Shapes
    <3>2. Without(SubSeq(wire[q], 1, n), U) /\ SubSeq(wire[q], 1, n) \in Seq(Piece)
      BY <3>1, WithoutParts, CutPieces
    <3>3. Without(got[q] \o SubSeq(wire[q], 1, n), U)
      BY <3>1, <3>2, WithoutBoth
    <3>4. Without(Kept(q, Here(p, t), SubSeq(wire[q], 1, n)), U)
      BY <3>2, <3>3 DEF Kept
    <3> QED
      BY <2>1, <2>3, <3>4 DEF Shapes
  <2> QED
    BY <2>2, <2>3
<1>3. CASE Decrypted(p, t)
  <2>1. got' = [got EXCEPT ![p] = [i \in DOMAIN @ |-> <<Xored(@[i][1]), @[i][2]>>]]
    BY <1>3 DEF Decrypted
  <2>2. CASE p # q
    BY <2>1, <2>2 DEF Shapes
  <2>3. CASE p = q
    <3>1. got'[q] = [i \in DOMAIN got[q] |-> <<Xored(got[q][i][1]), got[q][i][2]>>]
      BY <2>1, <2>3 DEF Shapes
    <3>2. ASSUME NEW n \in DOMAIN got'[q]
          PROVE  got'[q][n][1] \notin U
      <4>1. n \in DOMAIN got[q]
        BY <3>1, <3>2
      <4>2. got'[q][n] = <<Xored(got[q][n][1]), got[q][n][2]>>
        BY <3>1, <4>1
      <4>3. \A a, b : <<a, b>>[1] = a
        OBVIOUS
      <4> DEFINE new == got'[q][n]
                 old == Xored(got[q][n][1])
      <4>5. new[1] = old
        <5>1. PICK b : new = <<old, b>>
          BY <4>2
        <5> QED
          BY <4>3, <5>1
      <4>4. got[q][n][1] \notin U
        BY <4>1 DEF Without
      <4> QED
        BY <1>3, <2>3, <4>4, <4>5 DEF Closed, Decrypted, At
    <3> QED
      BY <3>2 DEF Without
  <2> QED
    BY <2>2, <2>3
<1>4. CASE Acquired(p, t) \/ Called(p, t) \/ Released(p, t) \/ Listening(p, t)
             \/ Connected(p, t) \/ ConnectStarted(p, t) \/ Accepted(p, t) \/ ShutDown(p, t)
             \/ Sent(p, t) \/ SentTo(p, t) \/ ReadNoBytes(p, t)
  BY <1>1, <1>4
  DEF Acquired, Called, Released, Listening, Connected, ConnectStarted, Accepted, ShutDown,
      Sent, SentTo, ReadNoBytes
<1>5. CASE NoRoom(p, t) \/ ReceivedEnd(p, t) \/ NothingYet(p, t) \/ NotConnected(p, t)
             \/ Compared(p, t) \/ DidNothing(p, t) \/ Begun(p, t) \/ Spawned(p, t) \/ Joined(p, t)
             \/ LookedAtFlag(p, t) \/ ClearedFlag(p, t) \/ Failed(p, t)
  BY <1>1, <1>5
  DEF NoRoom, ReceivedEnd, NothingYet, NotConnected, Compared, DidNothing, Begun, Spawned, Joined,
      LookedAtFlag, ClearedFlag, Failed
<1> QED
  BY <1>2, <1>3, <1>4, <1>5, Zenon DEF Goes

\* A process meets no text it has not met before, unless it is sent one.
LEMMA NothingNewIsHeard ==
  ASSUME Shapes, NEW U, Closed(U), NEW q \in Procs, Without(wire[q], U), Without(got[q], U),
         NEW p \in Procs, NEW t \in Threads, Goes(p, t) \/ Failed(p, t),
         p = Other(q) /\ Here(p, t).op \in {"send", "sendNow", "sendto"} =>
           Here(p, t).arg \notin {"echo", "crc", "pipe line"} \cup U
  PROVE  Without(wire'[q], U) /\ Without(got'[q], U)
<1>1. ASSUME p = Other(q), Here(p, t).op \in {"send", "sendNow"},
             NEW s \in Payloads(p, Here(p, t).arg)
      PROVE  Without(s, U)
  <2>1. s = <<>> \/ s = Msg(Here(p, t).arg)
    BY <1>1 DEF Payloads
  <2> QED
    BY <1>1, <2>1, WithoutNothing, WithoutText
<1>2. Without(wire'[q], U)
  BY <1>1, NothingNewIsSent
<1>3. Without(got'[q], U)
  BY NothingNewIsRead
<1> QED
  BY <1>2, <1>3

LEMMA StreamsAreSighted ==
  ASSUME pair \in Streams, NEW p \in Procs
  PROVE  Sighted(pair, p)
BY TablesTakeTurns

LEMMA SpeaksNoUnsaid ==
  ASSUME pair \in Streams, OnView, NEW p \in Procs, pc[p]["main"] \in DOMAIN Programs[pair][p],
         NEW w \in Ways(Programs[pair][p], pc[p]["main"])
  PROVE  LET step == Programs[pair][p][pc[p]["main"]]
             unsaid(j) == Unsaid(pair, Other(p), j)
         IN  /\ unsaid(w.to) \subseteq unsaid(pc[p]["main"])
             /\ step.op \in {"send", "sendNow"} /\ unsaid(w.to) # {} =>
                  step.arg \notin {"echo", "crc", "pipe line"} \cup unsaid(w.to)
<1> DEFINE lines == {x.at[p] : x \in Views(pair)}
<1>1. SpeaksInTurn(pair, p, lines)
  BY TablesTakeTurns
<1>2. pc[p]["main"] \in lines
  <2>1. View.at[p] = pc[p]["main"]
    BY DEF View
  <2> QED
    BY <2>1 DEF OnView
<1> HIDE DEF lines
<1> QED
  BY <1>1, <1>2 DEF SpeaksInTurn

LEMMA UnsaidIsClosed ==
  ASSUME NEW q, NEW p \in Procs, NEW j
  PROVE  Closed(Unsaid(q, p, j)) /\ Unsaid(q, p, Crashed) \subseteq Unsaid(q, p, j)
<1>1. Unsaid(q, p, j) \in {{}, {"authenticated"}, {"secret"}, {"handshake", "xhandshake"}}
  BY DEF Unsaid
<1>2. Closed({}) /\ Closed({"authenticated"}) /\ Closed({"secret"}) /\ Closed({"handshake", "xhandshake"})
  BY DEF Closed, Xored
<1>3. Unsaid(q, p, Crashed) \subseteq Unsaid(q, p, j)
  BY DEF Unsaid, Crashed
<1> QED
  BY <1>1, <1>2, <1>3

\* Where main() of p goes in a step of t, if the step is not of p's main().
LEMMA MainMoves ==
  ASSUME Shapes, OnLines, NEW p \in Procs, NEW t \in Threads, Goes(p, t) \/ Failed(p, t)
  PROVE  /\ Runs(p, t) /\ UNCHANGED pair
         /\ \A q \in Procs \ {p} : pc'[q]["main"] = pc[q]["main"]
         /\ t = "main" => \E w \in Ways(Code(p), pc[p]["main"]) : pc'[p]["main"] = w.to
         /\ t # "main" => /\ pc[p][t] \in ThreadLines(Code(p))
                          /\ \/ pc'[p]["main"] = pc[p]["main"]
                             \/ pc'[p]["main"] = Crashed /\ \E w \in Ways(Code(p), pc[p][t]) : w.to = Crashed
<1>1. Runs(p, t) /\ UNCHANGED pair /\ (Spawned(p, t) \/ \E w : Takes(p, t, w))
  BY EveryStepIsAWay DEF Shapes
<1>2. CASE Spawned(p, t)
  BY <1>1, <1>2, SpawnMoves
<1>3. ASSUME NEW w, Takes(p, t, w)
      PROVE  /\ \A q \in Procs \ {p} : pc'[q]["main"] = pc[q]["main"]
             /\ t = "main" => \E v \in Ways(Code(p), pc[p]["main"]) : pc'[p]["main"] = v.to
             /\ t # "main" => /\ pc[p][t] \in ThreadLines(Code(p))
                              /\ \/ pc'[p]["main"] = pc[p]["main"]
                                 \/ pc'[p]["main"] = Crashed /\ \E v \in Ways(Code(p), pc[p][t]) : v.to = Crashed
  <2>1. w \in Ways(Code(p), pc[p][t])
    BY <1>3 DEF Takes
  <2>2. w.to \in Nat
    BY <1>1, <2>1, WayStays
  <2>3. t = "main" => pc'[p]["main"] = w.to
    BY <1>3, <2>2, WayMoves
  <2> QED
    BY <1>1, <1>3, <2>1, <2>2, <2>3, WayStays, WayMoves
<1> QED
  BY <1>1, <1>2, <1>3

\* Texts of two of the pairs only are unsaid.
LEMMA FewUnsaid ==
  ASSUME NEW q, NEW p, NEW j, Unsaid(q, p, j) # {}
  PROVE  q \in {"auth", "validation"}
BY DEF Unsaid

LEMMA UnheardStep ==
  ASSUME Shapes, OnLines, Unheard, OnView, [Next]_vars
  PROVE  Unheard'
<1>1. UNCHANGED pair
  BY StepCases
<1> SUFFICES ASSUME NEW q \in Procs
             PROVE  LET unsaid == Unsaid(pair, q, pc'[Other(q)]["main"])
                    IN  Without(wire'[q], unsaid) /\ Without(got'[q], unsaid)
  BY <1>1 DEF Unheard
<1> DEFINE o == Other(q)
           U == Unsaid(pair, q, pc[o]["main"])
           V == Unsaid(pair, q, pc'[o]["main"])
<1>2. Without(wire[q], U) /\ Without(got[q], U)
  BY DEF Unheard
<1>3. ASSUME V = {}
      PROVE  Without(wire'[q], V) /\ Without(got'[q], V)
  BY <1>3 DEF Without
<1>4. CASE UNCHANGED <<pc, wire, got>>
  BY <1>2, <1>4
<1>5. ASSUME V # {}, NEW p \in Procs, NEW t \in Threads, Goes(p, t) \/ Failed(p, t)
      PROVE  Without(wire'[q], V) /\ Without(got'[q], V)
  <2>1. pair \in {"auth", "validation"}
    BY <1>5, FewUnsaid
  <2>2. pair \in Streams /\ Counted(pair) # 0
    BY <2>1 DEF Streams, Exchanges, Counted
  <2>3. Sighted(pair, p)
    BY <2>2, StreamsAreSighted
  <2>4. t = "main"
    BY <1>5, <2>2, <2>3, MainMoves DEF Sighted, Code
  <2> DEFINE P == Programs[pair][p]
             i == pc[p]["main"]
  <2>5. i \in DOMAIN P /\ Here(p, t) = P[i]
    BY <1>5, <2>4, MainMoves DEF Runs, Here, Code
  <2>6. V \subseteq U /\ (p = o /\ P[i].op \in {"send", "sendNow"} => P[i].arg \notin {"echo", "crc", "pipe line"} \cup V)
    <3>1. CASE p # o
      BY <1>5, <3>1, TwoProcs, MainMoves
    <3>2. CASE p = o
      <4>1. PICK w \in Ways(P, i) : pc'[o]["main"] = w.to
        BY <1>5, <2>4, <3>2, MainMoves DEF Code
      <4>2. Other(p) = q
        BY <3>2, TwoProcs
      <4> QED
        BY <1>5, <2>2, <2>5, <3>2, <4>1, <4>2, SpeaksNoUnsaid
    <3> QED
      BY <3>1, <3>2
  <2>7. P[i].op # "sendto"
    BY <2>3, <2>5 DEF Sighted
  <2>8. Closed(V) /\ Without(wire[q], V) /\ Without(got[q], V)
    BY <1>2, <2>6, UnsaidIsClosed DEF Without
  <2> HIDE DEF V
  <2> QED
    BY <1>5, <2>5, <2>6, <2>7, <2>8, NothingNewIsHeard
<1> QED
  BY <1>3, <1>4, <1>5 DEF Next, Lose, Reset, vars

-----------------------------------------------------------------------------
(***************************************************************************)
(* The acknowledgment of the validated exchange.  First the two tables, a  *)
(* few rows at a time.                                                     *)
(***************************************************************************)
LEMMA ValidationServerOpens ==
  /\ ValidationServer[1].op = "acquire" /\ ValidationServer[1].ok = Thru
  /\ ValidationServer[1].fail.to = Return /\ ValidationServer[1].zero.to = Return
  /\ ValidationServer[2].op = "acquire" /\ ValidationServer[2].ok = Thru
  /\ ValidationServer[2].fail.to = Return /\ ValidationServer[2].zero.to = Return
  /\ ValidationServer[3].op = "call" /\ ValidationServer[3].ok = Thru
  /\ ValidationServer[3].fail.to = Return /\ ValidationServer[3].zero.to = Return
  /\ ValidationServer[4].op = "listen" /\ ValidationServer[4].ok = Thru
  /\ ValidationServer[4].fail.to = Return /\ ValidationServer[4].zero.to = Return
  /\ ValidationServer[5].op = "accept" /\ ValidationServer[5].ok = Thru
  /\ ValidationServer[5].fail.to = Return /\ ValidationServer[5].zero.to = Return
BY DEF ValidationServer, Acquire, Call, Listen, Accept, Step, Quit

LEMMA ValidationServerReceives ==
  /\ ValidationServer[6].op = "recv" /\ ValidationServer[6].ok = Thru
  /\ ValidationServer[6].fail.to = Return /\ ValidationServer[6].zero.to = Return
  /\ ValidationServer[10].op = "recv" /\ ValidationServer[10].ok = Thru
  /\ ValidationServer[10].fail.to = Crashed /\ ValidationServer[10].zero.to = Return
  /\ ValidationServer[14].op = "recv" /\ ValidationServer[14].ok = Thru
  /\ ValidationServer[14].fail.to = Crashed /\ ValidationServer[14].zero.to = Return
BY DEF ValidationServer, Recv, Step, Quit, Crash, Die

LEMMA ValidationServerSends ==
  /\ ValidationServer[7].op = "send" /\ ValidationServer[7].arg = "structure" /\ ValidationServer[7].ok = Thru
  /\ ValidationServer[7].fail.to = Return /\ ValidationServer[7].zero.to = Return
  /\ ValidationServer[9].op = "send" /\ ValidationServer[9].arg = "xhandshake" /\ ValidationServer[9].ok = Thru
  /\ ValidationServer[9].fail.to = Return /\ ValidationServer[9].zero.to = Return
BY DEF ValidationServer, Send, Step, Quit

LEMMA ValidationServerCompares ==
  /\ ValidationServer[8].op = "undefined" /\ ValidationServer[8].ok = Thru
  /\ ValidationServer[8].fail.to = Crashed /\ ValidationServer[8].zero.to = Crashed
  /\ ValidationServer[12].op = "undefined" /\ ValidationServer[12].ok = Thru
  /\ ValidationServer[12].fail.to = Return /\ ValidationServer[12].zero.to = Return
  /\ ValidationServer[13].op = "matchPrefix" /\ ValidationServer[13].ok = Thru
  /\ ValidationServer[13].fail.to = Return /\ ValidationServer[13].zero.to = Return
BY DEF ValidationServer, Undefined, MatchPrefix, Step, Quit, Crash, Die

LEMMA ValidationServerDecrypts ==
  /\ ValidationServer[11].op = "xor" /\ ValidationServer[11].ok = Thru
  /\ ValidationServer[15].op = "xor" /\ ValidationServer[15].ok = Thru
  /\ ValidationServer[17].op = "release" /\ ValidationServer[17].ok = Thru
BY DEF ValidationServer, Xor, Release, Step

LEMMA ValidationServerAcknowledges ==
  /\ ValidationServer[16].op = "send" /\ ValidationServer[16].arg = "crc" /\ ValidationServer[16].ok = Thru
  /\ ValidationServer[16].fail.to = 17 /\ ValidationServer[16].zero.to = 17
BY DEF ValidationServer, Send, Step, Goto

LEMMA ValidationServerLines ==
  /\ DOMAIN ValidationServer = 1..17 /\ Len(ValidationServer) = 17
  /\ ValidationServer[14].arg = "buffer"
<1>1. DOMAIN ValidationServer = 1..17 /\ Len(ValidationServer) = 17
  BY DEF ValidationServer
<1>2. ValidationServer[14].arg = "buffer"
  BY DEF ValidationServer, Recv, Step
<1> QED
  BY <1>1, <1>2

LEMMA SeventeenLines ==
  ASSUME NEW i \in 1..17
  PROVE  \/ i = 1 \/ i = 2 \/ i = 3 \/ i = 4 \/ i = 5 \/ i = 6 \/ i = 7 \/ i = 8 \/ i = 9
         \/ i = 10 \/ i = 11 \/ i = 12 \/ i = 13 \/ i = 14 \/ i = 15 \/ i = 16 \/ i = 17
OBVIOUS

\* What the server sends: no line but the sixteenth sends a CRC.
LEMMA ValidationServerSpeaks ==
  ASSUME NEW i \in 1..17
  PROVE  /\ ValidationServer[i].op \notin {"sendto", "sendNow"}
         /\ ValidationServer[i].op = "send" =>
              ValidationServer[i].arg \in {"structure", "xhandshake"} \/ i = 16
BY SeventeenLines, ValidationServerOpens, ValidationServerReceives, ValidationServerSends,
   ValidationServerCompares, ValidationServerDecrypts, ValidationServerAcknowledges

\* The server goes from line to line; a branch ends it, or goes to the last.
LEMMA ValidationServerGoesOn ==
  ASSUME NEW i \in 1..17
  PROVE  /\ ValidationServer[i].ok = Thru
         /\ \A b \in Branches(ValidationServer[i]) : b.to \in {Return, Crashed, 17}
<1>1. ValidationServer[i].ok = Thru
  BY SeventeenLines, ValidationServerOpens, ValidationServerReceives, ValidationServerSends,
     ValidationServerCompares, ValidationServerDecrypts, ValidationServerAcknowledges
<1>2. \/ ValidationServer[i].op \in {"xor", "release"}
      \/ /\ ValidationServer[i].fail.to \in {Return, Crashed, 17}
         /\ ValidationServer[i].zero.to \in {Return, Crashed, 17}
  BY SeventeenLines, ValidationServerOpens, ValidationServerReceives, ValidationServerSends,
     ValidationServerCompares, ValidationServerDecrypts, ValidationServerAcknowledges
<1>3. ValidationServer[i].op \in {"xor", "release"} => Branches(ValidationServer[i]) = {}
  BY DEF Branches, Branching, Receiving, Fallible
<1>4. \A b \in Branches(ValidationServer[i]) :
        b = ValidationServer[i].fail \/ b = ValidationServer[i].zero
  BY DEF Branches
<1> QED
  BY <1>1, <1>2, <1>3, <1>4

LEMMA ValidationClientOpens ==
  /\ ValidationClient[1].op = "acquire"
  /\ ValidationClient[2].op = "acquire"
  /\ ValidationClient[3].op = "call"
  /\ ValidationClient[4].op = "connect"
BY DEF ValidationClient, Acquire, Call, Connect, Step

LEMMA ValidationClientSends ==
  /\ ValidationClient[5].op = "send" /\ ValidationClient[5].arg = "structure"
  /\ ValidationClient[11].op = "send" /\ ValidationClient[11].arg = "xhandshake"
  /\ ValidationClient[12].op = "send" /\ ValidationClient[12].arg = "xdata"
BY DEF ValidationClient, Send, Step

LEMMA ValidationClientReceives ==
  /\ ValidationClient[6].op = "recv"
  /\ ValidationClient[7].op = "recv"
  /\ ValidationClient[13].op = "recv"
BY DEF ValidationClient, Recv, Step

LEMMA ValidationClientRest ==
  /\ ValidationClient[8].op = "xor"
  /\ ValidationClient[9].op = "matchPrefix"
  /\ ValidationClient[10].op = "undefined"
  /\ ValidationClient[15].op = "release"
BY DEF ValidationClient, Xor, MatchPrefix, Undefined, Release, Step

LEMMA ValidationClientCompares ==
  /\ ValidationClient[14].op = "match" /\ ValidationClient[14].arg = "crc xdata"
BY DEF ValidationClient, Match, Step

\* What the client sends, and what it waits for.
LEMMA ValidationClientSpeaks ==
  /\ DOMAIN ValidationClient = 1..15
  /\ \A i \in 1..15 :
       /\ ValidationClient[i].op \notin {"sendto", "sendNow"}
       /\ ValidationClient[i].op = "send" =>
            ValidationClient[i].arg \in {"structure", "xhandshake", "xdata"}
       /\ ValidationClient[i].op = "match" => ValidationClient[i].arg = "crc xdata"
<1>1. DOMAIN ValidationClient = 1..15
  BY DEF ValidationClient
<1>2. ASSUME NEW i \in 1..15
      PROVE  \/ i = 1 \/ i = 2 \/ i = 3 \/ i = 4 \/ i = 5 \/ i = 6 \/ i = 7 \/ i = 8 \/ i = 9
             \/ i = 10 \/ i = 11 \/ i = 12 \/ i = 13 \/ i = 14 \/ i = 15
  OBVIOUS
<1> QED
  BY <1>1, <1>2, ValidationClientOpens, ValidationClientSends, ValidationClientReceives,
     ValidationClientRest, ValidationClientCompares

LEMMA ValidationCode ==
  ASSUME pair = "validation"
  PROVE  Code("server") = ValidationServer /\ Code("client") = ValidationClient
BY DEF Code, Programs

\* A process writes to its own buffer only.
LEMMA OwnBuffer ==
  ASSUME Shapes, NEW p \in Procs, NEW t \in Threads, Goes(p, t) \/ Failed(p, t), NEW q \in Procs \ {p}
  PROVE  got'[q] = got[q]
<1>1. CASE Received(p, t) \/ Decrypted(p, t)
  BY <1>1 DEF Received, Decrypted, Shapes
<1>2. CASE Acquired(p, t) \/ Called(p, t) \/ Released(p, t) \/ Listening(p, t)
             \/ Connected(p, t) \/ ConnectStarted(p, t) \/ Accepted(p, t) \/ ShutDown(p, t)
             \/ Sent(p, t) \/ SentTo(p, t) \/ ReadNoBytes(p, t)
  BY <1>2
  DEF Acquired, Called, Released, Listening, Connected, ConnectStarted, Accepted, ShutDown,
      Sent, SentTo, ReadNoBytes
<1>3. CASE NoRoom(p, t) \/ ReceivedEnd(p, t) \/ NothingYet(p, t) \/ NotConnected(p, t)
             \/ Compared(p, t) \/ DidNothing(p, t) \/ Begun(p, t) \/ Spawned(p, t) \/ Joined(p, t)
             \/ LookedAtFlag(p, t) \/ ClearedFlag(p, t) \/ Failed(p, t)
  BY <1>3
  DEF NoRoom, ReceivedEnd, NothingYet, NotConnected, Compared, DidNothing, Begun, Spawned, Joined,
      LookedAtFlag, ClearedFlag, Failed
<1> QED
  BY <1>1, <1>2, <1>3, Zenon DEF Goes

\* A decryption decrypts.
LEMMA XorCases ==
  ASSUME NEW p \in Procs, NEW t \in Threads, Goes(p, t) \/ Failed(p, t), Here(p, t).op = "xor"
  PROVE  Decrypted(p, t)
BY DEF At, Goes, Failed, Fallible, Acquired, Called, Released, Listening, Connected, ConnectStarted,
       Accepted, ShutDown, Sent, NoRoom, SentTo, Received, ReceivedEnd, ReadNoBytes, NothingYet,
       NotConnected, Compared, DidNothing, Begun, Spawned, Joined, LookedAtFlag, ClearedFlag

\* The server comes to the lines 15 and 16 from the line above, by its way ahead.
LEMMA ValidationServerWays ==
  ASSUME NEW i \in 1..17, NEW w \in Ways(ValidationServer, i), w.to \in {15, 16}
  PROVE  w.to = i + 1
<1>1. CASE w = Ahead(ValidationServer, i)
  <2>1. w.to = LineBelow(ValidationServer, i)
    BY <1>1, ValidationServerGoesOn DEF Ahead, Target
  <2> QED
    BY <2>1 DEF LineBelow, Return
<1>2. CASE w \in Aside(ValidationServer, i)
  <2>1. PICK b \in Branches(ValidationServer[i]) : w.to = Target(ValidationServer, i, b.to)
    BY <1>2 DEF Aside
  <2>2. b.to \in {Return, Crashed, 17}
    BY <2>1, ValidationServerGoesOn
  <2> QED
    BY <2>1, <2>2 DEF Target, Return, Crashed, Thru
<1> QED
  BY <1>1, <1>2 DEF Ways

\* What the server received on line 14 was on its wire.
LEMMA ServerHasReceived ==
  ASSUME Shapes, pair = "validation", Without(wire["server"], {"data"}),
         pc["server"]["main"] = 14, pc'["server"]["main"] = 15,
         Goes("server", "main") \/ Failed("server", "main")
  PROVE  Without(got'["server"], {"data"})
<1>1. "server" \in Procs /\ "main" \in Threads
  BY DEF Procs, Threads
<1> DEFINE step == Here("server", "main")
<1>2. step = ValidationServer[14] /\ step.op = "recv" /\ step.arg = "buffer"
  BY ValidationCode, ValidationServerReceives, ValidationServerLines DEF Here
<1>3. ~Branch("server", "main", step.zero) /\ ~Branch("server", "main", step.fail)
  <2>1. step.zero.to \in Nat \ {Thru, 15} /\ step.fail.to \in Nat \ {Thru, 15}
    BY <1>2, ValidationServerReceives DEF Return, Crashed, Thru
  <2> QED
    BY <1>1, <2>1, BranchGoesOn
<1>4. Received("server", "main")
  BY <1>1, <1>2, <1>3, RecvCases
<1>5. PICK n \in 1..Len(wire["server"]) :
        got' = [got EXCEPT !["server"] = Kept("server", step, SubSeq(wire["server"], 1, n))]
  BY <1>4 DEF Received
<1>6. got'["server"] = SubSeq(wire["server"], 1, n)
  BY <1>1, <1>2, <1>5 DEF Kept, Shapes
<1>7. Without(SubSeq(wire["server"], 1, n), {"data"})
  BY <1>1, WithoutParts DEF Shapes
<1> QED
  BY <1>6, <1>7

\* Only the plain data are turned into the encrypted ones.
LEMMA ServerHasDecrypted ==
  ASSUME Shapes, pair = "validation", Without(got["server"], {"data"}),
         pc["server"]["main"] = 15, Goes("server", "main") \/ Failed("server", "main")
  PROVE  Without(got'["server"], {"xdata"})
<1>1. "server" \in Procs /\ "main" \in Threads
  BY DEF Procs, Threads
<1>2. Here("server", "main").op = "xor"
  BY ValidationCode, ValidationServerDecrypts DEF Here
<1>3. Decrypted("server", "main")
  BY <1>1, <1>2, XorCases
<1>4. got'["server"] = [i \in DOMAIN got["server"] |-> <<Xored(got["server"][i][1]), got["server"][i][2]>>]
  BY <1>1, <1>3 DEF Decrypted, Shapes
<1>5. ASSUME NEW n \in DOMAIN got'["server"]
      PROVE  got'["server"][n][1] # "xdata"
  <2>1. n \in DOMAIN got["server"]
    BY <1>4, <1>5
  <2> DEFINE old == Xored(got["server"][n][1])
             new == got'["server"][n]
  <2>2. \A a, b : <<a, b>>[1] = a
    OBVIOUS
  <2>3. PICK b : new = <<old, b>>
    BY <1>4, <2>1
  <2>4. new[1] = old
    BY <2>2, <2>3
  <2>5. got["server"][n][1] # "data"
    BY <2>1 DEF Without
  <2>6. old # "xdata"
    BY <2>5 DEF Xored
  <2> QED
    BY <2>4, <2>6
<1> QED
  BY <1>5 DEF Without

\* A CRC of something else than the encrypted data is another one.
LEMMA CrcOfPlain ==
  ASSUME NEW s, Without(s, {"xdata"})
  PROVE  Crc(s) # "crc xdata"
<1>1. s # Msg("xdata")
  BY WithIsNotWithout
<1> QED
  BY <1>1 DEF Crc

LEMMA DataStep ==
  ASSUME Shapes, OnLines, DataAreDecrypted, [Next]_vars
  PROVE  DataAreDecrypted'
<1>1. UNCHANGED pair
  BY StepCases
<1> SUFFICES ASSUME pair = "validation"
             PROVE  /\ Without(wire'["server"], {"data"})
                    /\ pc'["server"]["main"] = 15 => Without(got'["server"], {"data"})
                    /\ pc'["server"]["main"] = 16 => Without(got'["server"], {"xdata"})
                    /\ Without(wire'["client"], {"crc xdata"}) /\ Without(got'["client"], {"crc xdata"})
  BY <1>1 DEF DataAreDecrypted
<1>2. /\ Without(wire["server"], {"data"})
      /\ pc["server"]["main"] = 15 => Without(got["server"], {"data"})
      /\ pc["server"]["main"] = 16 => Without(got["server"], {"xdata"})
      /\ Without(wire["client"], {"crc xdata"}) /\ Without(got["client"], {"crc xdata"})
  BY DEF DataAreDecrypted
<1>3. CASE UNCHANGED <<pc, wire, got>>
  BY <1>2, <1>3
<1>4. ASSUME NEW p \in Procs, NEW t \in Threads, Goes(p, t) \/ Failed(p, t)
      PROVE  /\ Without(wire'["server"], {"data"})
             /\ pc'["server"]["main"] = 15 => Without(got'["server"], {"data"})
             /\ pc'["server"]["main"] = 16 => Without(got'["server"], {"xdata"})
             /\ Without(wire'["client"], {"crc xdata"}) /\ Without(got'["client"], {"crc xdata"})
  <2> DEFINE i == pc[p]["main"]
  <2>1. /\ "server" \in Procs /\ "client" \in Procs /\ p \in {"server", "client"}
        /\ Other("server") = "client" /\ Other("client") = "server"
    BY DEF Procs, Other
  <2>2. t = "main"
    <3>1. pair \in Streams /\ Counted(pair) # 0
      BY DEF Streams, Exchanges, Counted
    <3> QED
      BY <1>4, <2>1, <3>1, StreamsAreSighted, MainMoves DEF Sighted, Code
  <2>3. i \in DOMAIN Code(p) /\ Here(p, t) = Code(p)[i]
    BY <1>4, <2>2, MainMoves DEF Runs, Here
  <2>4. p = "server" => i \in 1..17 /\ Code(p) = ValidationServer
    BY <2>3, ValidationCode, ValidationServerLines
  <2>5. p = "client" => i \in 1..15 /\ Code(p) = ValidationClient
    BY <2>3, ValidationCode, ValidationClientSpeaks
  <2>6. Without(wire'["server"], {"data"})
    <3>1. ASSUME p = "client", Here(p, t).op \in {"send", "sendNow"},
                 NEW s \in Payloads(p, Here(p, t).arg)
          PROVE  Without(s, {"data"})
      <4>1. Here(p, t).arg \in {"structure", "xhandshake", "xdata"}
        BY <2>3, <2>5, <3>1, ValidationClientSpeaks
      <4>2. s = Msg(Here(p, t).arg)
        BY <3>1, <4>1 DEF Payloads
      <4>3. Here(p, t).arg \notin {"data"}
        BY <4>1
      <4> QED
        BY <4>2, <4>3, WithoutText
    <3>2. p = "client" => Here(p, t).op # "sendto"
      BY <2>3, <2>5, ValidationClientSpeaks
    <3> QED
      BY <1>2, <1>4, <2>1, <3>1, <3>2, NothingNewIsSent
  <2>7. Without(wire'["client"], {"crc xdata"})
    <3>1. ASSUME p = "server", Here(p, t).op \in {"send", "sendNow"},
                 NEW s \in Payloads(p, Here(p, t).arg)
          PROVE  Without(s, {"crc xdata"})
      <4>1. Here(p, t).arg \in {"structure", "xhandshake"} \/ i = 16
        BY <2>3, <2>4, <3>1, ValidationServerSpeaks
      <4>2. CASE Here(p, t).arg \in {"structure", "xhandshake"}
        <5>1. s = Msg(Here(p, t).arg)
          BY <3>1, <4>2 DEF Payloads
        <5>2. Here(p, t).arg \notin {"crc xdata"}
          BY <4>2
        <5> QED
          BY <5>1, <5>2, WithoutText
      <4>3. CASE i = 16
        <5>1. Here(p, t).arg = "crc"
          BY <2>3, <2>4, <3>1, <4>3, ValidationServerAcknowledges
        <5>2. s = Msg(Crc(got[p]))
          BY <3>1, <5>1 DEF Payloads
        <5>3. Crc(got[p]) \notin {"crc xdata"}
          BY <1>2, <3>1, <4>3, CrcOfPlain
        <5> QED
          BY <5>2, <5>3, WithoutText
      <4> QED
        BY <4>1, <4>2, <4>3
    <3>2. p = "server" => Here(p, t).op # "sendto"
      BY <2>3, <2>4, ValidationServerSpeaks
    <3> QED
      BY <1>2, <1>4, <2>1, <3>1, <3>2, NothingNewIsSent
  <2>8. Without(got'["client"], {"crc xdata"})
    <3>1. Closed({"crc xdata"})
      BY DEF Closed, Xored
    <3> QED
      BY <1>2, <1>4, <2>1, <3>1, NothingNewIsRead
  <2>9. CASE p = "client"
    <3>1. got'["server"] = got["server"] /\ pc'["server"]["main"] = pc["server"]["main"]
      BY <1>4, <2>1, <2>9, OwnBuffer, MainMoves
    <3> QED
      BY <1>2, <2>6, <2>7, <2>8, <3>1
  <2>10. CASE p = "server"
    <3>1. PICK w \in Ways(ValidationServer, i) : pc'["server"]["main"] = w.to
      BY <1>4, <2>2, <2>4, <2>10, MainMoves
    <3>2. pc'["server"]["main"] \in {15, 16} => pc'["server"]["main"] = i + 1
      BY <2>4, <2>10, <3>1, ValidationServerWays
    <3>3. /\ pc'["server"]["main"] = 15 => pc["server"]["main"] = 14
          /\ pc'["server"]["main"] = 16 => pc["server"]["main"] = 15
      BY <2>4, <2>10, <3>2
    <3>4. pc'["server"]["main"] = 15 => Without(got'["server"], {"data"})
      BY <1>2, <1>4, <2>2, <2>10, <3>2, <3>3, ServerHasReceived
    <3>5. pc'["server"]["main"] = 16 => Without(got'["server"], {"xdata"})
      BY <1>2, <1>4, <2>2, <2>10, <3>2, <3>3, ServerHasDecrypted
    <3> QED
      BY <2>6, <2>7, <2>8, <3>4, <3>5
  <2> QED
    BY <2>1, <2>9, <2>10
<1> QED
  BY <1>3, <1>4 DEF Next, Lose, Reset, vars

-----------------------------------------------------------------------------
(***************************************************************************)
(* Counting up to a small number.                                          *)
(***************************************************************************)
LEMMA CountsAreSmall ==
  ASSUME NEW q
  PROVE  Counted(q) \in {0, 1, 7} /\ Bulk(q) \in {0, 1, 3} /\ (Counted(q) = 0 => Bulk(q) = 0)
         /\ (Counted(q) = 1 => Bulk(q) = 1) /\ (Counted(q) = 7 => Bulk(q) = 3)
<1>1. Counted(q) \in {0, 1, 7}
  BY DEF Counted
<1> QED
  BY <1>1 DEF Bulk, AtMost

LEMMA CountAdds ==
  ASSUME NEW n \in Nat, NEW c \in {0, 1, 7}
  PROVE  AtMost(n + 2, c) = AtMost(AtMost(n, c) + 2, c) /\ AtMost(n, c) \in Nat /\ AtMost(n, c) \in 0..c
BY DEF AtMost

LEMMA CountTakes ==
  ASSUME NEW n \in Nat, NEW k \in 1..n, NEW c \in {0, 1, 7}
  PROVE  /\ AtMost(n - k, c) \in 0..c
         /\ AtMost(n, c) < c => /\ AtMost(n - k, c) < AtMost(n, c)
                                /\ k = AtMost(n, c) - AtMost(n - k, c)
         /\ k <= 2 => AtMost(n, c) - AtMost(n - k, c) <= 2
BY DEF AtMost

(***************************************************************************)
(* How a step changes the view.                                            *)
(***************************************************************************)
MovesTo(p, n) ==
  pc'[p]["main"] = n /\ pc'[Other(p)]["main"] = pc[Other(p)]["main"]

LEMMA JumpMoves ==
  ASSUME Shapes, NEW p \in Procs, NEW n, Jump(p, "main", n)
  PROVE  MovesTo(p, n)
<1>1. Other(p) \in Procs /\ Other(p) # p /\ "main" \in Threads
  BY TwoProcs DEF Threads
<1>2. pc' = [pc EXCEPT ![p]["main"] = n]
  BY DEF Jump
<1> QED
  BY <1>1, <1>2 DEF MovesTo, Shapes

LEMMA AdvanceMoves ==
  ASSUME Shapes, NEW p \in Procs, Advance(p, "main")
  PROVE  MovesTo(p, Ahead(Code(p), pc[p]["main"]).to)
<1> DEFINE w == Ahead(Code(p), pc[p]["main"])
<1>1. w.to = IF Here(p, "main").ok # Thru THEN Here(p, "main").ok ELSE Below(p, "main")
  BY DEF Ahead, Here, Target, LineBelow, Below
<1> QED
  BY <1>1, JumpMoves DEF Advance

LEMMA BranchMoves ==
  ASSUME Shapes, NEW p \in Procs, NEW b \in Branches(Here(p, "main")), Branch(p, "main", b)
  PROVE  \E w \in Aside(Code(p), pc[p]["main"]) : MovesTo(p, w.to)
<1>1. PICK w \in Aside(Code(p), pc[p]["main"]) : Jump(p, "main", w.to)
  BY BranchIsAside DEF Shapes, Threads
<1> QED
  BY <1>1, JumpMoves

\* A view, and what it is with one part of it replaced.
ViewOf(a, l, d, r) == [at |-> a, link |-> l, due |-> d, read |-> r]

Put(f, p, n) == [f EXCEPT ![p] = n]

LEMMA ViewFields ==
  ASSUME NEW a, NEW l, NEW d, NEW r
  PROVE  /\ ViewOf(a, l, d, r).at = a /\ ViewOf(a, l, d, r).link = l
         /\ ViewOf(a, l, d, r).due = d /\ ViewOf(a, l, d, r).read = r
BY DEF ViewOf

LEMMA ViewWithMain ==
  ASSUME NEW a, NEW l, NEW d, NEW r, NEW p, NEW n
  PROVE  WithMain(ViewOf(a, l, d, r), p, n) = ViewOf(Put(a, p, n), l, d, r)
BY DEF ViewOf, WithMain, Put

LEMMA ViewWithLink ==
  ASSUME NEW a, NEW l, NEW d, NEW r, NEW k
  PROVE  WithLink(ViewOf(a, l, d, r), k) = ViewOf(a, k, d, r)
BY DEF ViewOf, WithLink

LEMMA ViewWithDue ==
  ASSUME NEW a, NEW l, NEW d, NEW r, NEW p, NEW n
  PROVE  WithDue(ViewOf(a, l, d, r), p, n) = ViewOf(a, l, Put(d, p, n), r)
BY DEF ViewOf, WithDue, Put

LEMMA ViewWithRead ==
  ASSUME NEW a, NEW l, NEW d, NEW r, NEW k
  PROVE  WithRead(ViewOf(a, l, d, r), k) = ViewOf(a, l, d, k)
BY DEF ViewOf, WithRead

Lines == [p \in Procs |-> pc[p]["main"]]
Due(p) == AtMost(Len(wire[p]), Counted(pair))
Dues == [p \in Procs |-> Due(p)]
ReadSoFar == AtMost(Len(got["server"]), Bulk(pair))

LEMMA ViewIs ==
  /\ View = ViewOf(Lines, link, Dues, ReadSoFar)
  /\ View.at = Lines /\ View.link = link /\ View.due = Dues /\ View.read = ReadSoFar
<1>1. View = ViewOf(Lines, link, Dues, ReadSoFar)
  BY DEF View, ViewOf, Lines, Due, Dues, ReadSoFar
<1> QED
  <2>1. LET x == ViewOf(Lines, link, Dues, ReadSoFar)
        IN  x.at = Lines /\ x.link = link /\ x.due = Dues /\ x.read = ReadSoFar
    BY ViewFields
  <2> QED
    BY <1>1, <2>1

\* The view with main() of p on line n.
Standing(p, n) == WithMain(View, p, n)

LEMMA StandingIs ==
  ASSUME NEW p \in Procs, NEW n
  PROVE  /\ Standing(p, n) = ViewOf(Put(Lines, p, n), link, Dues, ReadSoFar)
         /\ Standing(p, n).at[Other(p)] = pc[Other(p)]["main"]
         /\ Standing(p, n).link = link
         /\ \A q \in Procs : Standing(p, n).due[q] = Due(q)
         /\ Standing(p, n).read = ReadSoFar
<1>1. Standing(p, n) = ViewOf(Put(Lines, p, n), link, Dues, ReadSoFar)
  BY ViewIs, ViewWithMain DEF Standing
<1>2. Put(Lines, p, n)[Other(p)] = pc[Other(p)]["main"]
  BY TwoProcs DEF Lines, Put
<1>3. \A q \in Procs : Dues[q] = Due(q)
  BY DEF Dues
<1> QED
  <2>1. LET x == ViewOf(Put(Lines, p, n), link, Dues, ReadSoFar)
        IN  x.at = Put(Lines, p, n) /\ x.link = link /\ x.due = Dues /\ x.read = ReadSoFar
    BY ViewFields
  <2> QED
    BY <1>1, <1>2, <1>3, <2>1

LEMMA ViewMoves ==
  ASSUME NEW p \in Procs, NEW n, MovesTo(p, n), UNCHANGED pair
  PROVE  View' = ViewOf(Put(Lines, p, n), link', Dues', ReadSoFar')
<1>1. [q \in Procs |-> pc'[q]["main"]] = Put(Lines, p, n)
  BY TwoProcs DEF MovesTo, Lines, Put
<1> QED
  BY <1>1 DEF View, ViewOf, Due, Dues, ReadSoFar

\* What is counted does not change.
SameCounts == UNCHANGED <<Dues, ReadSoFar>>

LEMMA StandsElsewhere ==
  ASSUME NEW p \in Procs, NEW n, MovesTo(p, n), UNCHANGED pair, SameCounts
  PROVE  /\ View' = WithLink(Standing(p, n), link')
         /\ UNCHANGED link => View' = Standing(p, n)
<1>1. View' = ViewOf(Put(Lines, p, n), link', Dues, ReadSoFar)
  BY ViewMoves DEF SameCounts
<1>2. Standing(p, n) = ViewOf(Put(Lines, p, n), link, Dues, ReadSoFar)
  BY StandingIs
<1> QED
  <2>1. WithLink(ViewOf(Put(Lines, p, n), link, Dues, ReadSoFar), link')
          = ViewOf(Put(Lines, p, n), link', Dues, ReadSoFar)
    BY ViewWithLink
  <2> QED
    BY <1>1, <1>2, <2>1

\* Pieces were sent to o, or taken by o.
LEMMA DueElsewhere ==
  ASSUME NEW p \in Procs, NEW n, MovesTo(p, n), UNCHANGED <<pair, link>>, NEW o \in Procs,
         wire \in [Procs -> Seq(Piece)], NEW s, wire' = [wire EXCEPT ![o] = s]
  PROVE  View' = WithRead(WithDue(Standing(p, n), o, Due(o)'), ReadSoFar')
<1>1. \A q \in Procs \ {o} : wire'[q] = wire[q]
  OBVIOUS
<1>2. Dues' = Put(Dues, o, Due(o)')
  BY <1>1 DEF Due, Dues, Put
<1>3. View' = ViewOf(Put(Lines, p, n), link, Put(Dues, o, Due(o)'), ReadSoFar')
  BY <1>2, ViewMoves
<1>4. Standing(p, n) = ViewOf(Put(Lines, p, n), link, Dues, ReadSoFar)
  BY StandingIs
<1>5. WithDue(Standing(p, n), o, Due(o)')
        = ViewOf(Put(Lines, p, n), link, Put(Dues, o, Due(o)'), ReadSoFar)
  BY <1>4, ViewWithDue
<1>6. WithRead(WithDue(Standing(p, n), o, Due(o)'), ReadSoFar')
        = ViewOf(Put(Lines, p, n), link, Put(Dues, o, Due(o)'), ReadSoFar')
  BY <1>5, ViewWithRead
<1> QED
  BY <1>3, <1>6

\* Nothing was read.
LEMMA ReadTheSame ==
  ASSUME NEW p \in Procs, NEW n, NEW o, NEW k
  PROVE  WithRead(WithDue(Standing(p, n), o, k), ReadSoFar) = WithDue(Standing(p, n), o, k)
<1>1. Standing(p, n) = ViewOf(Put(Lines, p, n), link, Dues, ReadSoFar)
  BY StandingIs
<1>2. WithDue(Standing(p, n), o, k) = ViewOf(Put(Lines, p, n), link, Put(Dues, o, k), ReadSoFar)
  BY <1>1, ViewWithDue
<1> QED
  <2>1. WithRead(ViewOf(Put(Lines, p, n), link, Put(Dues, o, k), ReadSoFar), ReadSoFar)
          = ViewOf(Put(Lines, p, n), link, Put(Dues, o, k), ReadSoFar)
    BY ViewWithRead
  <2> QED
    BY <1>2, <2>1

\* main() of p takes its line's way ahead, or a branch.
MainStep(p) ==
  LET i == pc[p]["main"]
      P == Programs[pair][p]
  IN  \/ View' \in Effects(pair, p, P[i], Standing(p, Ahead(P, i).to))
      \/ /\ P[i].op = "send" /\ pair # "polling" => link \notin Talking
         /\ \E w \in Aside(P, i) : View' = Standing(p, w.to)

LEMMA BranchSteps ==
  ASSUME Shapes, NEW p \in Procs, NEW b \in Branches(Here(p, "main")), Branch(p, "main", b),
         UNCHANGED <<pair, link>>, SameCounts,
         Here(p, "main").op = "send" /\ pair # "polling" => link \notin Talking
  PROVE  MainStep(p)
<1>1. PICK w \in Aside(Code(p), pc[p]["main"]) : MovesTo(p, w.to)
  BY BranchMoves
<1>2. View' = Standing(p, w.to)
  BY <1>1, StandsElsewhere
<1> QED
  BY <1>1, <1>2 DEF MainStep, Code, Here

\* Steps that only go on.
PlainSteps == {"acquire", "call", "release", "shutdown", "xor", "undefined", "spawn", "join", "while",
               "begin", "stop", "match", "matchPrefix", "full"}

LEMMA PlainStep ==
  ASSUME Shapes, NEW p \in Procs, MovesTo(p, Ahead(Code(p), pc[p]["main"]).to),
         UNCHANGED <<pair, link>>, SameCounts, Here(p, "main").op \in PlainSteps,
         MayAgree(pair, p, Here(p, "main"), Standing(p, Ahead(Code(p), pc[p]["main"]).to))
  PROVE  MainStep(p)
<1> DEFINE y == Standing(p, Ahead(Code(p), pc[p]["main"]).to)
<1>1. View' = y
  BY StandsElsewhere
<1>2. Effects(pair, p, Here(p, "main"), y) = {y}
  BY DEF Effects, PlainSteps, Receiving
<1> QED
  BY <1>1, <1>2 DEF MainStep, Code, Here

LEMMA LinkStep ==
  ASSUME Shapes, NEW p \in Procs, Advance(p, "main"), UNCHANGED pair, SameCounts,
         \/ Here(p, "main").op = "listen" /\ link' = "listening"
         \/ Here(p, "main").op = "connect" /\ link = "listening" /\ link' = "pending"
         \/ Here(p, "main").op = "accept" /\ link = "pending" /\ link' = "up"
  PROVE  MainStep(p)
<1> DEFINE y == Standing(p, Ahead(Code(p), pc[p]["main"]).to)
<1>1. View' = WithLink(y, link') /\ y.link = link
  BY AdvanceMoves, StandsElsewhere, StandingIs
<1> HIDE DEF y
<1>2. View' \in Effects(pair, p, Here(p, "main"), y)
  <2>1. CASE Here(p, "main").op = "listen" /\ link' = "listening"
    <3>1. WithLink(y, "listening") \in Effects(pair, p, Here(p, "main"), y)
      BY <2>1 DEF Effects, Receiving
    <3> QED
      BY <1>1, <2>1, <3>1, Zenon
  <2>2. CASE Here(p, "main").op = "connect" /\ link = "listening" /\ link' = "pending"
    <3>1. WithLink(y, "pending") \in Effects(pair, p, Here(p, "main"), y)
      BY <1>1, <2>2 DEF Effects, Receiving
    <3> QED
      BY <1>1, <2>2, <3>1, Zenon
  <2>3. CASE Here(p, "main").op = "accept" /\ link = "pending" /\ link' = "up"
    <3>1. WithLink(y, "up") \in Effects(pair, p, Here(p, "main"), y)
      BY <1>1, <2>3 DEF Effects, Receiving
    <3> QED
      BY <1>1, <2>3, <3>1, Zenon
  <2> QED
    BY <2>1, <2>2, <2>3
<1> QED
  BY <1>2 DEF MainStep, Code, Here, y

\* What is kept is counted the same, and nothing is counted of a pair that
\* counts nothing.
LEMMA KeptCounts ==
  ASSUME UNCHANGED pair, \A q \in Procs : Len(wire'[q]) = Len(wire[q]) /\ Len(got'[q]) = Len(got[q])
  PROVE  SameCounts
BY DEF SameCounts, Due, Dues, ReadSoFar, Procs

LEMMA LengthsAreNatural ==
  ASSUME Shapes
  PROVE  \A q \in Procs : Len(wire[q]) \in Nat /\ Len(got[q]) \in Nat
BY LenProperties DEF Shapes

LEMMA NothingCounts ==
  ASSUME Shapes, Counted(pair) = 0
  PROVE  Dues = [q \in Procs |-> 0] /\ ReadSoFar = 0
<1>1. \A q \in Procs : Len(wire[q]) \in Nat /\ Len(got[q]) \in Nat
  BY LengthsAreNatural
<1>2. \A q \in Procs : Due(q) = 0
  BY <1>1 DEF Due, AtMost
<1>3. ReadSoFar = 0
  BY <1>1, CountsAreSmall DEF ReadSoFar, AtMost, Procs
<1> QED
  BY <1>2, <1>3 DEF Dues

LEMMA NothingCountsNext ==
  ASSUME Shapes', Counted(pair) = 0, UNCHANGED pair
  PROVE  Dues' = [q \in Procs |-> 0] /\ ReadSoFar' = 0
<1>1. \A q \in Procs : Len(wire'[q]) \in Nat /\ Len(got'[q]) \in Nat
  BY LenProperties DEF Shapes
<1>2. \A q \in Procs : Due(q)' = 0
  BY <1>1 DEF Due, AtMost
<1>3. ReadSoFar' = 0
  BY <1>1, CountsAreSmall DEF ReadSoFar, AtMost, Procs
<1> QED
  BY <1>2, <1>3 DEF Dues

\* What main() sends is a message, or nothing where a message may be empty.
LEMMA SentIsMessage ==
  ASSUME Shapes, NEW p \in Procs, NEW m \in Texts, m \notin {"echo", "pipe line"},
         NEW s \in Payloads(p, m)
  PROVE  Len(s) = 2 \/ (Len(s) = 0 /\ m \in MayBeEmpty)
<1>1. Len(<<>>) = 0
  BY EmptySeq
<1>2. Len(Msg(m)) = 2 /\ Len(Msg(Crc(got[p]))) = 2
  <2>1. \A c : Len(Msg(c)) = 2
    BY DEF Msg
  <2> QED
    BY <2>1
<1>3. s = Msg(m) \/ s = Msg(Crc(got[p])) \/ (s = <<>> /\ m \in MayBeEmpty)
  BY DEF Payloads, MayBeEmpty
<1> QED
  BY <1>1, <1>2, <1>3

LEMMA SentStep ==
  ASSUME Shapes, Shapes', pair \in Streams, NEW p \in Procs, Sent(p, "main")
  PROVE  MainStep(p)
<1> DEFINE step == Here(p, "main")
           o == Other(p)
           c == Counted(pair)
           y == Standing(p, Ahead(Code(p), pc[p]["main"]).to)
<1>1. /\ step.op \in {"send", "sendNow"} /\ link \in Talking /\ step.arg \in Texts
      /\ pc[p]["main"] \in DOMAIN Code(p) /\ step = Code(p)[pc[p]["main"]]
      /\ Advance(p, "main") /\ UNCHANGED <<pair, link, got>>
  BY ArgumentIsText DEF Sent, At, Runs, Here, Linked, Talking
<1>2. PICK s \in Payloads(p, step.arg) : wire' = [wire EXCEPT ![o] = @ \o s]
  BY DEF Sent
<1>3. o \in Procs /\ c \in {0, 1, 7} /\ Len(wire[o]) \in Nat /\ Len(wire'[o]) \in Nat
  BY TwoProcs, CountsAreSmall, LengthsAreNatural
<1>4. Len(wire'[o]) = Len(wire[o]) + Len(s)
  <2>1. s \in Seq(Piece)
    BY <1>1, PayloadIsPieces
  <2>2. wire[o] \in Seq(Piece) /\ wire'[o] = wire[o] \o s
    BY <1>2, <1>3 DEF Shapes
  <2> QED
    BY <2>1, <2>2, ConcatProperties
<1>5. Due(o)' \in Sending(pair, Due(o), step.arg)
  <2>1. Due(o) = AtMost(Len(wire[o]), c) /\ Due(o)' = AtMost(Len(wire'[o]), c)
    BY <1>1 DEF Due
  <2>2. CASE c = 0
    <3>1. Due(o) = 0 /\ Due(o)' = 0 /\ AtMost(0 + 2, 0) = 0
      BY <1>3, <2>1, <2>2 DEF AtMost
    <3> QED
      BY <2>2, <3>1 DEF Sending
  <2>3. CASE c # 0
    <3>1. step.arg \notin {"echo", "pipe line"}
      BY <1>1, <2>3, StreamsAreSighted DEF Sighted, Code
    <3>2. Len(s) = 2 \/ (Len(s) = 0 /\ step.arg \in MayBeEmpty)
      BY <1>1, <3>1, SentIsMessage
    <3>3. AtMost(Len(wire[o]) + 2, c) = AtMost(Due(o) + 2, c)
      BY <1>3, <2>1, CountAdds
    <3>4. Len(wire[o]) + 0 = Len(wire[o])
      BY <1>3
    <3>5. CASE Len(s) = 2
      BY <1>4, <2>1, <3>3, <3>5 DEF Sending
    <3>6. CASE Len(s) = 0 /\ step.arg \in MayBeEmpty
      BY <1>4, <2>1, <3>4, <3>6 DEF Sending
    <3> QED
      BY <3>2, <3>5, <3>6
  <2> QED
    BY <2>2, <2>3
<1>6. View' = WithDue(y, o, Due(o)')
  <2>1. MovesTo(p, Ahead(Code(p), pc[p]["main"]).to)
    BY <1>1, AdvanceMoves
  <2>2. ReadSoFar' = ReadSoFar
    BY <1>1 DEF ReadSoFar
  <2>3. View' = WithRead(WithDue(y, o, Due(o)'), ReadSoFar')
    BY <1>1, <1>2, <1>3, <2>1, DueElsewhere DEF Shapes
  <2> QED
    BY <2>2, <2>3, ReadTheSame
<1>7. y.link = link /\ y.due[o] = Due(o)
  BY <1>3, StandingIs
<1> HIDE DEF y
<1>8. View' \in AfterSend(pair, p, step, y)
  BY <1>5, <1>6, <1>7 DEF AfterSend
<1>9. View' \in Effects(pair, p, step, y)
  BY <1>1, <1>7, <1>8 DEF Effects, Receiving
<1> QED
  BY <1>1, <1>9 DEF MainStep, Code, Here, y

LEMMA ReceivedStep ==
  ASSUME Shapes, Shapes', pair \in Streams, NEW p \in Procs, Received(p, "main")
  PROVE  MainStep(p)
<1> DEFINE step == Here(p, "main")
           c == Counted(pair)
           b == Bulk(pair)
           y == Standing(p, Ahead(Code(p), pc[p]["main"]).to)
<1>1. /\ step.op \in Receiving
      /\ pc[p]["main"] \in DOMAIN Code(p) /\ step = Code(p)[pc[p]["main"]]
      /\ Advance(p, "main") /\ UNCHANGED <<pair, link>>
  <2>1. /\ step.op \in {"recv", "recvNow", "recvfrom", "read"}
        /\ pc[p]["main"] \in DOMAIN Code(p) /\ step = Code(p)[pc[p]["main"]]
    BY DEF Received, At, Runs, Here
  <2>2. step.op # "recvfrom"
    BY <2>1, StreamsAreSighted DEF Sighted, Code
  <2> QED
    BY <2>1, <2>2 DEF Received, Receiving
<1>2. PICK n \in 1..Len(wire[p]) :
        /\ n <= Size(p, step)
        /\ got' = [got EXCEPT ![p] = Kept(p, step, SubSeq(wire[p], 1, n))]
        /\ wire' = [wire EXCEPT ![p] = SubSeq(@, n + 1, Len(@))]
  BY DEF Received
<1>3. /\ c \in {0, 1, 7} /\ b \in {0, 1, 3} /\ (c = 0 => b = 0)
      /\ Len(wire[p]) \in Nat /\ Len(wire'[p]) \in Nat
      /\ Len(got["server"]) \in Nat /\ Len(got'["server"]) \in Nat
  BY CountsAreSmall, LengthsAreNatural DEF Procs
<1>4. Len(wire'[p]) = Len(wire[p]) - n /\ Len(SubSeq(wire[p], 1, n)) = n
  BY <1>2, CutPieces DEF Shapes
<1>5. /\ Due(p) = AtMost(Len(wire[p]), c) /\ Due(p)' = AtMost(Len(wire'[p]), c)
      /\ ReadSoFar = AtMost(Len(got["server"]), b) /\ ReadSoFar' = AtMost(Len(got'["server"]), b)
  BY <1>1 DEF Due, ReadSoFar
<1>6. step.arg = "message" => n <= 2
  BY <1>2 DEF Size
<1>7. /\ Due(p)' \in 0..c
      /\ Due(p) < c => Due(p)' < Due(p) /\ n = Due(p) - Due(p)'
      /\ n <= 2 => Due(p) - Due(p)' <= 2
  <2>1. Due(p)' = AtMost(Len(wire[p]) - n, c)
    BY <1>4, <1>5
  <2>2. LET d == AtMost(Len(wire[p]), c)
            k == AtMost(Len(wire[p]) - n, c)
        IN  k \in 0..c /\ (d < c => k < d /\ n = d - k) /\ (n <= 2 => d - k <= 2)
    BY <1>3, CountTakes
  <2> QED
    BY <1>5, <2>1, <2>2
<1>8. Due(p)' \in Leaving(pair, Due(p), step.arg)
  BY <1>6, <1>7 DEF Leaving
<1>9. ReadSoFar' \in Taken(pair, p, Due(p), Due(p)', ReadSoFar)
  <2>1. ReadSoFar' \in 0..b
    BY <1>3, <1>5 DEF AtMost
  <2>2. CASE p # "server"
    <3>1. got'["server"] = got["server"]
      BY <1>2, <2>2 DEF Shapes, Procs
    <3> QED
      BY <1>5, <2>2, <3>1 DEF Taken
  <2>3. CASE p = "server" /\ Due(p) < c
    <3>1. c # 0
      BY <1>3, <1>5, <2>3 DEF AtMost
    <3>2. step.arg \notin {"shown", "rest"}
      BY <1>1, <3>1, StreamsAreSighted DEF Sighted, Code
    <3>3. got'["server"] = SubSeq(wire[p], 1, n)
      BY <1>2, <2>3, <3>2 DEF Kept, Shapes
    <3>4. ReadSoFar' = AtMost(n, b)
      BY <1>4, <1>5, <3>3
    <3> QED
      BY <1>7, <2>3, <3>4 DEF Taken
  <2>4. CASE p = "server" /\ ~(Due(p) < c)
    BY <2>1, <2>4 DEF Taken
  <2> QED
    BY <2>2, <2>3, <2>4
<1>10. View' = WithRead(WithDue(y, p, Due(p)'), ReadSoFar')
  <2>1. MovesTo(p, Ahead(Code(p), pc[p]["main"]).to)
    BY <1>1, AdvanceMoves
  <2> QED
    BY <1>1, <1>2, <2>1, DueElsewhere DEF Shapes
<1>11. y.due[p] = Due(p) /\ y.read = ReadSoFar
  BY StandingIs
<1> HIDE DEF y
<1>12. View' \in AfterReceive(pair, p, step, y)
  BY <1>8, <1>9, <1>10, <1>11 DEF AfterReceive
<1>13. View' \in Effects(pair, p, step, y)
  BY <1>1, <1>12 DEF Effects, Receiving
<1> QED
  BY <1>1, <1>13 DEF MainStep, Code, Here, y

LEMMA FirstOfMsg ==
  ASSUME NEW m, NEW n \in Nat, n # 0, n <= 2
  PROVE  SubSeq(Msg(m), 1, n)[1] = Msg(m)[1]
<1>1. Msg(m) \in Seq({m} \X Nat) /\ Len(Msg(m)) = 2
  BY DEF Msg
<1>2. 1 \in 1..Len(Msg(m)) + 1 /\ n \in 1 - 1..Len(Msg(m)) /\ 1 \in 1..n
  BY <1>1
<1>3. SubSeq(Msg(m), 1, n) = [i \in 1..n - 1 + 1 |-> Msg(m)[i + 1 - 1]]
  BY <1>1, <1>2, SubSeqProperties
<1> QED
  BY <1>2, <1>3

\* A comparison that succeeds is one that may.
LEMMA SameMayAgree ==
  ASSUME Shapes, Unheard, pair \in Streams, NEW p \in Procs, NEW n, NEW step,
         step.op = "match" => got[p] = Msg(step.arg),
         step.op = "matchPrefix" =>
           Len(got[p]) <= 2 /\ SubSeq(Msg(step.arg), 1, Len(got[p])) = got[p]
  PROVE  MayAgree(pair, p, step, Standing(p, n))
<1> DEFINE U == Unsaid(pair, p, pc[Other(p)]["main"])
           y == Standing(p, n)
<1>1. y.at[Other(p)] = pc[Other(p)]["main"] /\ y.read = ReadSoFar
  BY StandingIs
<1>2. Without(got[p], U)
  BY DEF Unheard
<1>3. got[p] \in Seq(Piece) /\ Len(got[p]) \in Nat /\ DOMAIN got[p] = 1..Len(got[p])
  BY LenProperties DEF Shapes
<1>4. \A m : Len(Msg(m)) = 2 /\ Msg(m)[1][1] = m /\ DOMAIN Msg(m) = 1..2
  BY DEF Msg
<1>5. ASSUME Len(got[p]) # 0, got[p][1][1] = step.arg
      PROVE  step.arg \notin U
  <2>1. 1 \in DOMAIN got[p]
    BY <1>3, <1>5
  <2> QED
    BY <1>2, <1>5, <2>1 DEF Without
<1>6. step.op = "match" => step.arg \notin U
  BY <1>4, <1>5
<1>7. ASSUME step.op = "matchPrefix", p = "server"
      PROVE  ReadSoFar <= 2 /\ (step.arg \in U => ReadSoFar = 0)
  <2>1. ReadSoFar = AtMost(Len(got[p]), Bulk(pair)) /\ Len(got[p]) <= 2 /\ Bulk(pair) \in {0, 1, 3}
    BY <1>7, CountsAreSmall DEF ReadSoFar
  <2>2. ReadSoFar <= 2 /\ (Len(got[p]) = 0 => ReadSoFar = 0)
    BY <1>3, <2>1 DEF AtMost
  <2>3. Len(got[p]) # 0 => got[p][1][1] = step.arg
    <3> SUFFICES ASSUME Len(got[p]) # 0
                 PROVE  got[p][1] = Msg(step.arg)[1]
      BY <1>4
    <3>1. SubSeq(Msg(step.arg), 1, Len(got[p])) = got[p]
      BY <1>7
    <3> QED
      BY <1>3, <2>1, <3>1, FirstOfMsg
  <2> QED
    BY <1>5, <2>2, <2>3
<1> HIDE DEF y, U
<1> QED
  BY <1>1, <1>6, <1>7 DEF MayAgree, y, U

LEMMA ComparedStep ==
  ASSUME Shapes, Unheard, pair \in Streams, NEW p \in Procs, Compared(p, "main")
  PROVE  MainStep(p)
<1> DEFINE step == Here(p, "main")
<1>1. /\ step.op \in {"match", "matchPrefix", "full"}
      /\ UNCHANGED <<pair, got, wire, link>>
  BY DEF Compared, At
<1>2. SameCounts
  BY <1>1, KeptCounts
<1>3. CASE Branch(p, "main", step.fail)
  <2>1. step.fail \in Branches(step)
    BY <1>1 DEF Branches, Branching
  <2> QED
    BY <1>1, <1>2, <1>3, <2>1, BranchSteps
<1>4. CASE /\ Advance(p, "main")
           /\ step.op = "match" => got[p] = Msg(step.arg)
           /\ step.op = "matchPrefix" =>
                /\ Len(got[p]) <= Len(Msg(step.arg))
                /\ SubSeq(Msg(step.arg), 1, Len(got[p])) = got[p]
  <2>1. Len(Msg(step.arg)) = 2
    BY DEF Msg
  <2>2. MovesTo(p, Ahead(Code(p), pc[p]["main"]).to)
    BY <1>4, AdvanceMoves
  <2>3. MayAgree(pair, p, step, Standing(p, Ahead(Code(p), pc[p]["main"]).to))
    BY <1>4, <2>1, SameMayAgree
  <2> QED
    BY <1>1, <1>2, <2>2, <2>3, PlainStep DEF PlainSteps
<1>5. \/ Branch(p, "main", step.fail)
      \/ /\ Advance(p, "main")
         /\ step.op = "match" => got[p] = Msg(step.arg)
         /\ step.op = "matchPrefix" =>
              /\ Len(got[p]) <= Len(Msg(step.arg))
              /\ SubSeq(Msg(step.arg), 1, Len(got[p])) = got[p]
  BY <1>1 DEF Compared
<1> QED
  BY <1>3, <1>4, <1>5

LEMMA AdvanceIsPlain ==
  ASSUME Shapes, Unheard, pair \in Streams, NEW p \in Procs, Advance(p, "main"),
         UNCHANGED <<pair, link>>, SameCounts,
         Here(p, "main").op \in PlainSteps \ {"match", "matchPrefix"}
  PROVE  MainStep(p)
<1>1. MovesTo(p, Ahead(Code(p), pc[p]["main"]).to)
  BY AdvanceMoves
<1>2. MayAgree(pair, p, Here(p, "main"), Standing(p, Ahead(Code(p), pc[p]["main"]).to))
  BY SameMayAgree
<1> QED
  BY <1>1, <1>2, PlainStep

\* Every step main() takes is one of its view's.
LEMMA MainTakesSteps ==
  ASSUME Shapes, Shapes', OnLines, OpenWhereNeeded, Unheard, pair \in Streams,
         NEW p \in Procs, Goes(p, "main") \/ Failed(p, "main")
  PROVE  MainStep(p)
<1> DEFINE step == Here(p, "main")
<1>1. "main" \in Threads /\ Runs(p, "main") /\ UNCHANGED pair
      /\ step.op \notin {"sendto", "recvfrom", "connectNow"}
      /\ (step.op = "read" => Counted(pair) = 0)
  <2>1. "main" \in Threads
    BY DEF Threads
  <2>2. Runs(p, "main") /\ UNCHANGED pair
    BY <2>1, MainMoves
  <2> QED
    BY <2>1, <2>2, StreamsAreSighted DEF Sighted, Runs, Here, Code
<1>2. ASSUME UNCHANGED <<wire, got>>
      PROVE  SameCounts
  BY <1>1, <1>2, KeptCounts
<1>3. CASE Acquired(p, "main") \/ Called(p, "main") \/ Released(p, "main") \/ ShutDown(p, "main")
             \/ DidNothing(p, "main") \/ Begun(p, "main") \/ ClearedFlag(p, "main") \/ Joined(p, "main")
  <2>1. Advance(p, "main") /\ UNCHANGED <<pair, link, wire, got>>
    BY <1>3 DEF Acquired, Called, Released, ShutDown, DidNothing, Begun, ClearedFlag, Joined
  <2>2. step.op \in PlainSteps \ {"match", "matchPrefix"}
    BY <1>3 DEF Acquired, Called, Released, ShutDown, DidNothing, Begun, ClearedFlag, Joined, At, PlainSteps
  <2> QED
    BY <1>2, <2>1, <2>2, AdvanceIsPlain
<1>4. CASE Listening(p, "main") \/ Connected(p, "main") \/ Accepted(p, "main")
  <2>1. Advance(p, "main") /\ UNCHANGED <<pair, wire, got>>
    BY <1>4 DEF Listening, Connected, Accepted
  <2>2. \/ step.op = "listen" /\ link' = "listening"
        \/ step.op = "connect" /\ link = "listening" /\ link' = "pending"
        \/ step.op = "accept" /\ link = "pending" /\ link' = "up"
    BY <1>4 DEF Listening, Connected, Accepted, At, Listens
  <2> QED
    BY <1>2, <2>1, <2>2, LinkStep
<1>5. CASE Sent(p, "main")
  BY <1>5, SentStep
<1>6. CASE Received(p, "main")
  BY <1>6, ReceivedStep
<1>7. CASE Compared(p, "main")
  BY <1>7, ComparedStep
<1>8. CASE ConnectStarted(p, "main") \/ SentTo(p, "main")
  BY <1>1, <1>8 DEF ConnectStarted, SentTo, At
<1>9. CASE Decrypted(p, "main")
  <2>1. Advance(p, "main") /\ UNCHANGED <<pair, link, wire>> /\ step.op \in PlainSteps \ {"match", "matchPrefix"}
    BY <1>9 DEF Decrypted, At, PlainSteps
  <2>2. \A q \in Procs : Len(got'[q]) = Len(got[q])
    BY <1>1, <1>9, DecryptedStays
  <2>3. SameCounts
    BY <2>1, <2>2, KeptCounts
  <2> QED
    BY <2>1, <2>3, AdvanceIsPlain
<1>10. CASE Spawned(p, "main")
  <2>1. MovesTo(p, Ahead(Code(p), pc[p]["main"]).to)
    BY <1>1, <1>10, SpawnMoves, TwoProcs DEF MovesTo
  <2>2. UNCHANGED <<pair, link, wire, got>> /\ step.op = "spawn"
    BY <1>10 DEF Spawned, At
  <2>3. MayAgree(pair, p, step, Standing(p, Ahead(Code(p), pc[p]["main"]).to))
    BY <2>2, SameMayAgree
  <2> QED
    BY <1>2, <2>1, <2>2, <2>3, PlainStep DEF PlainSteps
<1>11. CASE LookedAtFlag(p, "main")
  <2>1. step.op = "while" /\ UNCHANGED <<pair, link, wire, got>>
        /\ (Advance(p, "main") \/ Branch(p, "main", step.fail))
    BY <1>11 DEF LookedAtFlag, At
  <2>2. step.fail \in Branches(step)
    BY <2>1 DEF Branches, Branching
  <2> QED
    BY <1>2, <2>1, <2>2, AdvanceIsPlain, BranchSteps DEF PlainSteps
<1>12. CASE NoRoom(p, "main") \/ NothingYet(p, "main") \/ NotConnected(p, "main") \/ Failed(p, "main")
  <2>1. UNCHANGED <<pair, link, wire, got>> /\ Branch(p, "main", step.fail)
    BY <1>12 DEF NoRoom, NothingYet, NotConnected, Failed
  <2>2. step.fail \in Branches(step)
    BY <1>12 DEF NoRoom, NothingYet, NotConnected, Failed, At, Branches, Branching, Receiving
  <2>3. step.op = "send" /\ pair # "polling" => link \notin Talking
    <3> SUFFICES ASSUME step.op = "send", pair # "polling"
                 PROVE  link \notin Talking
      OBVIOUS
    <3>1. ~Linked(p)
      BY <1>12 DEF NoRoom, NothingYet, NotConnected, Failed, At, Fallible
    <3>2. "conn" \in held[p]
      BY <1>1, UsingIsOpen DEF Using
    <3> QED
      BY <3>1, <3>2 DEF Linked, Talking
  <2> QED
    BY <1>2, <2>1, <2>2, <2>3, BranchSteps
<1>13. CASE ReceivedEnd(p, "main")
  <2>1. /\ UNCHANGED <<pair, link, wire, got>> /\ Branch(p, "main", step.zero)
        /\ step.op \in Receiving
    BY <1>13 DEF ReceivedEnd, At, Receiving
  <2>2. step.zero \in Branches(step) /\ step.op # "send"
    BY <2>1 DEF Branches, Receiving
  <2> QED
    BY <1>2, <2>1, <2>2, BranchSteps
<1>14. CASE ReadNoBytes(p, "main")
  <2>1. UNCHANGED <<pair, link>> /\ Branch(p, "main", step.zero) /\ step.op = "read"
    BY <1>14 DEF ReadNoBytes, At
  <2>2. step.zero \in Branches(step) /\ step.op # "send"
    BY <2>1 DEF Branches, Receiving
  <2>3. SameCounts
    <3>1. Counted(pair) = 0
      BY <1>1, <2>1
    <3>2. Dues = [q \in Procs |-> 0] /\ ReadSoFar = 0
      BY <3>1, NothingCounts
    <3>3. Dues' = [q \in Procs |-> 0] /\ ReadSoFar' = 0
      BY <1>1, <3>1, NothingCountsNext
    <3> QED
      BY <3>2, <3>3 DEF SameCounts
  <2> QED
    BY <2>1, <2>2, <2>3, BranchSteps
<1> QED
  BY <1>3, <1>4, <1>5, <1>6, <1>7, <1>8, <1>9, <1>10, <1>11, <1>12, <1>13, <1>14, Zenon DEF Goes

\* A thread changes nothing of the view.
LEMMA ThreadChangesNothing ==
  ASSUME Shapes, Shapes', OnLines, pair \in Streams,
         NEW p \in Procs, NEW t \in Workers, Goes(p, t) \/ Failed(p, t)
  PROVE  View' = View
<1>1. t \in Threads /\ t # "main"
  BY DEF Workers
<1>2. /\ Runs(p, t) /\ UNCHANGED pair /\ pc[p][t] \in ThreadLines(Code(p))
      /\ \A q \in Procs \ {p} : pc'[q]["main"] = pc[q]["main"]
      /\ \/ pc'[p]["main"] = pc[p]["main"]
         \/ \E w \in Ways(Code(p), pc[p][t]) : w.to = Crashed
  BY <1>1, MainMoves
<1>3. /\ Counted(pair) = 0 /\ Here(p, t).op \notin {"listen", "accept", "connect", "connectNow"}
      /\ \A w \in Ways(Code(p), pc[p][t]) : w.to # Crashed
  <2>1. Sighted(pair, p)
    BY StreamsAreSighted
  <2>2. pc[p][t] \in DOMAIN Code(p)
    BY <1>2 DEF ThreadLines
  <2> QED
    BY <1>2, <2>1, <2>2 DEF Sighted, Code, Here
<1>4. \A q \in Procs : pc'[q]["main"] = pc[q]["main"]
  BY <1>2, <1>3
<1>5. UNCHANGED link
  BY <1>3 DEF Goes, Failed, Acquired, Called, Released, Listening, Connected, ConnectStarted,
      Accepted, ShutDown, Sent, NoRoom, SentTo, Received, ReceivedEnd, ReadNoBytes, NothingYet,
      NotConnected, Compared, Decrypted, DidNothing, Begun, Spawned, Joined, LookedAtFlag, ClearedFlag, At
<1>6. Lines' = Lines
  BY <1>4 DEF Lines
<1>7. Dues' = Dues /\ ReadSoFar' = ReadSoFar
  BY <1>2, <1>3, NothingCounts, NothingCountsNext
<1>8. View' = ViewOf(Lines', link', Dues', ReadSoFar')
  BY DEF View, ViewOf, Lines, Due, Dues, ReadSoFar
<1> QED
  BY <1>5, <1>6, <1>7, <1>8, ViewIs

LEMMA ViewStep ==
  ASSUME Shapes, Shapes', OnLines, OpenWhereNeeded, Unheard, pair \in Streams, [Next]_vars
  PROVE  View' = View \/ View' \in Behind(pair, View)
<1>1. UNCHANGED pair
  BY StepCases
<1>2. CASE UNCHANGED vars
  <2>1. View' = View
    BY <1>2 DEF vars, View
  <2> QED
    BY <2>1
<1>3. CASE Lose \/ \E p \in Procs : Reset(p)
  <2>1. /\ link \in Talking /\ link' = "lost" /\ UNCHANGED <<pair, pc, got, wire>>
    BY <1>3 DEF Lose, Reset, Talking
  <2>2. View' = ViewOf(Lines, "lost", Dues, ReadSoFar)
    BY <2>1 DEF View, ViewOf, Lines, Due, Dues, ReadSoFar
  <2>3. WithLink(ViewOf(Lines, link, Dues, ReadSoFar), "lost") = ViewOf(Lines, "lost", Dues, ReadSoFar)
    BY ViewWithLink
  <2>4. View' = WithLink(View, "lost") /\ View.link \in Talking
    BY <2>1, <2>2, <2>3, ViewIs
  <2>5. View' \in Losing(View)
    BY <2>4 DEF Losing
  <2> QED
    BY <2>5 DEF Behind
<1>4. ASSUME NEW p \in Procs, NEW t \in Threads, Goes(p, t) \/ Failed(p, t)
      PROVE  View' = View \/ View' \in Behind(pair, View)
  <2>1. CASE t # "main"
    BY <1>4, <2>1, ThreadChangesNothing DEF Workers
  <2>2. CASE t = "main"
    <3> DEFINE i == pc[p]["main"]
               P == Programs[pair][p]
    <3>1. MainStep(p)
      BY <1>4, <2>2, MainTakesSteps
    <3>2. View.at[p] = i /\ View.link = link /\ i \in DOMAIN P
      BY <1>4, <2>2, ViewIs, MainMoves DEF Lines, Runs, Code
    <3>3. ASSUME P[i].op = "send" /\ pair # "polling" => link \notin Talking,
                 NEW w \in Aside(P, i), View' = Standing(p, w.to)
          PROVE  View' \in Sideways(pair, p, View)
      BY <3>2, <3>3 DEF Sideways, Standing
    <3>4. View' \in Onward(pair, p, View) \cup Sideways(pair, p, View)
      <4>1. CASE View' \in Effects(pair, p, P[i], Standing(p, Ahead(P, i).to))
        BY <3>2, <4>1 DEF Onward, Standing
      <4> QED
        BY <3>1, <3>3, <4>1 DEF MainStep
    <3>5. Onward(pair, p, View) \cup Sideways(pair, p, View) \subseteq Behind(pair, View)
      BY <3>2 DEF Behind
    <3> QED
      BY <3>4, <3>5
  <2> QED
    BY <2>1, <2>2
<1> QED
  BY <1>2, <1>3, <1>4 DEF Next

-----------------------------------------------------------------------------
(***************************************************************************)
(* The invariant.                                                          *)
(***************************************************************************)
LEMMA InitIInv == Init => IInv
<1> SUFFICES ASSUME Init PROVE IInv
  OBVIOUS
<1>1. Shapes
  <2>1. <<>> \in Seq(Piece) /\ Len(<<>>) = 0
    BY EmptySeq
  <2>2. 0 <= MaxPieces
    BY PairsAssumption
  <2> QED
    BY <2>1, <2>2 DEF Init, Shapes, Unstarted, Procs, Threads
<1>2. \A p \in Procs : /\ pc[p]["main"] = 1 /\ held[p] = {}
                       /\ \A t \in Workers : pc[p][t] = Unstarted
  BY DEF Init, Threads, Workers
<1>3. \A p \in Procs : LinesConnect(Code(p))
  BY <1>1, CodeConnects DEF Shapes
<1>4. OnLines
  BY <1>2, <1>3 DEF OnLines, LinesConnect
<1>5. HoldsLittle
  BY <1>2 DEF HoldsLittle
<1>6. OpenWhereNeeded
  <2> SUFFICES ASSUME pair # "polling", NEW p \in Procs
               PROVE  /\ pc[p]["main"] \notin OpenLines(Code(p))
                      /\ \A t \in Workers : pc[p][t] \notin ThreadLines(Code(p))
    BY DEF OpenWhereNeeded
  <2>1. 1 \notin OpenLines(Code(p))
    BY <1>1, TablesOpen DEF StaysOpen
  <2>2. Unstarted \notin DOMAIN Code(p)
    BY <1>3 DEF LinesConnect, Ends
  <2> QED
    BY <1>2, <2>1, <2>2 DEF ThreadLines
<1>7. TakesOne
  <2>1. 1 \notin HasAccepted(Code("server"))
    <3>1. DOMAIN Code("server") = 1..Len(Code("server"))
      BY <1>3 DEF LinesConnect, Procs
    <3> QED
      BY <3>1 DEF HasAccepted, AcceptLines
  <2> QED
    BY <1>2, <2>1 DEF TakesOne, Procs
<1>8. StreamInOrder
  <2>1. SubSeq(Stream, 0 + 1, 0) = <<>>
    BY StreamIsFour, SubSeqEmpty
  <2>2. pc["client"]["main"] = 1 /\ pc["server"]["main"] = 1 /\ wire["server"] = <<>>
    BY <1>2 DEF Init, Procs
  <2>3. InOrder(0, 0)
    BY <2>1, <2>2 DEF InOrder
  <2> QED
    BY <2>3 DEF StreamInOrder
<1>9. Unheard
  <2>1. \A p \in Procs : wire[p] = <<>> /\ got[p] = <<>>
    BY DEF Init
  <2> QED
    BY <2>1, WithoutNothing DEF Unheard
<1>10. OnView
  <2> SUFFICES ASSUME pair \in Streams PROVE View = FirstView
    BY TablesTakeTurns DEF OnView
  <2>1. Lines = [p \in Procs |-> 1]
    BY <1>2 DEF Lines
  <2>2. Due("server") = 0 /\ Due("client") = 0 /\ ReadSoFar = 0
    <3>1. /\ wire["server"] = <<>> /\ wire["client"] = <<>> /\ got["server"] = <<>>
          /\ Len(<<>>) = 0
      BY EmptySeq DEF Init, Procs
    <3> QED
      BY <3>1, CountsAreSmall DEF Due, ReadSoFar, AtMost
  <2>3. Dues = [p \in Procs |-> 0]
    BY <2>2 DEF Dues, Procs
  <2>4. View = ViewOf([p \in Procs |-> 1], "none", [p \in Procs |-> 0], 0)
    BY <2>1, <2>2, <2>3, ViewIs DEF Init
  <2> QED
    BY <2>4 DEF FirstView, ViewOf
<1>11. DataAreDecrypted
  <2>1. \A p \in Procs : wire[p] = <<>> /\ got[p] = <<>>
    BY DEF Init
  <2> QED
    BY <2>1, WithoutNothing DEF DataAreDecrypted, Procs
<1> QED
  BY <1>1, <1>4, <1>5, <1>6, <1>7, <1>8, <1>9, <1>10, <1>11 DEF IInv

LEMMA OnViewStep ==
  ASSUME Shapes, Shapes', OnLines, OpenWhereNeeded, Unheard, OnView, [Next]_vars
  PROVE  OnView'
<1>1. UNCHANGED pair
  BY StepCases
<1> SUFFICES ASSUME pair \in Streams PROVE View' \in Views(pair)
  BY <1>1 DEF OnView
<1>2. View \in Views(pair) /\ (View' = View \/ View' \in Behind(pair, View))
  BY ViewStep DEF OnView
<1> QED
  BY <1>2, TablesTakeTurns

LEMMA NextIInv == IInv /\ [Next]_vars => IInv'
BY ShapesStep, OnLinesStep, HoldsLittleStep, OpenStep, TakesOneStep, StreamStep, UnheardStep,
   OnViewStep, DataStep DEF IInv

LEMMA Invariant == Spec => []IInv
BY InitIInv, NextIInv, PTL DEF Spec

(***************************************************************************)
(* What the programs promise.                                              *)
(***************************************************************************)
\* The shape of the state: whatever fails, the threads stay on their lines, no
\* more pieces are on their way than the network holds, and no buffer takes
\* more than that.
THEOREM TypeCorrect == Spec => []TypeOK
<1>1. IInv => TypeOK
  <2> SUFFICES ASSUME IInv PROVE TypeOK
    OBVIOUS
  <2>1. ASSUME NEW p \in Procs, NEW t \in Threads
        PROVE  pc[p][t] \in DOMAIN Code(p) \cup {Return, Crashed, Left, Unstarted}
    <3>1. MainLines(Code(p)) \subseteq DOMAIN Code(p) /\ ThreadLines(Code(p)) \subseteq DOMAIN Code(p)
      BY DEF MainLines, ThreadLines
    <3> QED
      BY <3>1 DEF IInv, OnLines, Workers
  <2> QED
    BY <2>1 DEF IInv, Shapes, TypeOK
<1> QED
  BY <1>1, Invariant, PTL

\* A main() that returns has closed its sockets and left Winsock, whichever of
\* its calls failed: every error branch of every program releases what its
\* table says was acquired by then, but for the address list.
THEOREM MainReleases == Spec => []SocketsReleased
<1>1. IInv => SocketsReleased
  BY DEF IInv, HoldsLittle, SocketsReleased, LeftToTheSystem
<1> QED
  BY <1>1, Invariant, PTL

\* No thread calls the system for a socket that another thread of its process
\* has closed: main() closes the connection only behind the joins of its threads,
\* and a thread that closes it is joined before main() uses it again.
THEOREM ThreadsUseOpen == Spec => []UsesOpen
<1>1. IInv => UsesOpen
  <2> SUFFICES ASSUME IInv, pair # "polling", NEW p \in Procs, NEW t \in Threads,
                      Runs(p, t), Here(p, t).op \in Using
               PROVE  "conn" \in held[p]
    BY DEF UsesOpen, Using, At
  <2> QED
    BY UsingIsOpen DEF IInv
<1> QED
  BY <1>1, Invariant, PTL

\* The file transfer: however the stream is cut into receives, a server that
\* took the header's length of bytes in one receive saves exactly the file that
\* was sent.
THEOREM FileIsSaved == Spec => []SavedIsSent
<1>1. IInv => SavedIsSent
  BY DEF IInv, StreamInOrder, InOrder, SavedIsSent
<1> QED
  BY <1>1, Invariant, PTL

\* The two programs of a stream never wait for each other, each in a receive with
\* nothing on the way to it, or for a client or a thread: whatever fails and
\* however the stream is cut, somebody is left to speak, or to notice the end.
\* (Not so the pipe: there a view with both held up is reached.)
THEOREM NobodyWaitsForTheOther == Spec => []NoMutualWait
<1>1. IInv => NoMutualWait
  <2> SUFFICES ASSUME IInv, pair \in Streams \ {"pipe"}, link = "up", \A p \in Procs : Waiting(p)
               PROVE  FALSE
    BY DEF NoMutualWait
  <2>1. View.link = "up" /\ View.at = Lines /\ View.due = Dues
    BY ViewIs
  <2>2. ASSUME NEW p \in Procs
        PROVE  /\ View.due[p] = 0 /\ View.at[p] \in DOMAIN Programs[pair][p]
               /\ Programs[pair][p][View.at[p]].op \in {"recv", "read", "begin", "join", "accept"}
    <3>1. wire[p] = <<>> /\ Alive(p)
      BY DEF Waiting, Open
    <3>2. pc[p]["main"] \in DOMAIN Code(p)
      BY <3>1 DEF IInv, OnLines, Alive, MainLines
    <3>3. Here(p, "main").op \in {"recv", "read", "begin", "join", "accept"}
      BY <3>1, <3>2 DEF Waiting, HeldUp, Threads, Runs, At
    <3>4. Due(p) = 0
      <4>1. Len(wire[p]) = 0
        BY <3>1, EmptySeq
      <4> QED
        BY <4>1, CountsAreSmall DEF Due, AtMost
    <3> QED
      BY <2>1, <3>2, <3>3, <3>4 DEF Lines, Dues, Code, Here
  <2>3. Stuck(pair, View)
    BY <2>1, <2>2 DEF Stuck
  <2> QED
    BY <2>3, TablesTakeTurns DEF IInv, OnView
<1> QED
  BY <1>1, Invariant, PTL

\* logging_enabled_auth_server.cpp:46 against logging_enabled_auth_client.cpp:35:
\* the server answers the credentials it accepts with the secret of its handshake,
\* the client waits for another text and gives up.  So nobody ever chats: the
\* client does not come to its side of the handshake, nor the server behind its.
NobodyIsLetIn == pair = "auth" => ~InChat([p \in Procs |-> pc[p]["main"]])

THEOREM NobodyChats == Spec => []NobodyIsLetIn
<1>1. IInv => NobodyIsLetIn
  <2> SUFFICES ASSUME IInv, pair = "auth"
               PROVE  ~InChat(View.at)
    BY DEF NobodyIsLetIn, View
  <2>1. pair \in Streams
    BY DEF Streams, Exchanges
  <2> QED
    BY <2>1, TablesTakeTurns DEF IInv, OnView
<1> QED
  BY <1>1, Invariant, PTL

\* client_validation_crc.cpp:143-149 against server_validation_crc.cpp:148: the
\* client compares the acknowledgment with the CRC of the text it has encrypted,
\* the server computed it over what it had decrypted.  Whatever the server
\* received, and however the stream was cut, the client finds it invalid.
NoAckIsFoundValid ==
  pair = "validation" /\ At("client", "main", "match") => got["client"] # Msg(Here("client", "main").arg)

THEOREM AckIsFoundInvalid == Spec => []NoAckIsFoundValid
<1>1. IInv => NoAckIsFoundValid
  <2> SUFFICES ASSUME IInv, pair = "validation", At("client", "main", "match"),
                      got["client"] = Msg(Here("client", "main").arg)
               PROVE  FALSE
    BY DEF NoAckIsFoundValid
  <2>1. Here("client", "main").arg = "crc xdata"
    BY ValidationCode, ValidationClientSpeaks DEF At, Runs, Here
  <2>2. ~Without(got["client"], {"crc xdata"})
    BY <2>1, WithIsNotWithout
  <2> QED
    BY <2>2 DEF IInv, DataAreDecrypted
<1> QED
  BY <1>1, Invariant, PTL

-----------------------------------------------------------------------------
(***************************************************************************)
(* The checksum of the ICMP packets (module IcmpChecksum).                 *)
(***************************************************************************)
\* A number of 16 bits is a word.
LEMMA RemainderIsWord ==
  ASSUME NEW n \in Nat
  PROVE  n % 65536 \in Word
BY SMT DEF Word

\* The sum and the two additions fit 32 bits for any packet of up to 65536
\* words, and what is folded is a word.
LEMMA FoldedIsWord ==
  ASSUME NEW sum \in Nat, sum <= 4294901760
  PROVE  Folded(sum) \in Word
<1>1. Once(sum) \in Nat
  BY SMT DEF Once
<1>2. Once(sum) + (Once(sum) \div 65536) \in Nat
  BY <1>1, SMT
<1> QED
  BY <1>2, RemainderIsWord, SMT DEF Folded

\* Folding keeps the remainder by 65535, except that zero stands for a sum of
\* zero only.
LEMMA FoldedIsCongruent ==
  ASSUME NEW sum \in Nat, sum <= 4294901760
  PROVE  \E k \in Nat : sum = 65535 * k + Folded(sum) /\ (Folded(sum) = 0 => sum = 0)
<1>1. PICK q \in Nat, r \in Nat : sum = 65536 * q + r /\ q <= 65535 /\ r <= 65535 /\ Once(sum) = q + r
  <2>1. sum = 65536 * (sum \div 65536) + (sum % 65536)
    BY SMT
  <2>2. /\ sum \div 65536 \in Nat /\ sum % 65536 \in Nat
        /\ sum \div 65536 <= 65535 /\ sum % 65536 <= 65535
    BY SMT
  <2> QED
    BY <2>1, <2>2, SMT DEF Once
<1>2. PICK n \in Nat : n = q + r + ((q + r) \div 65536) /\ Folded(sum) = n % 65536
  BY <1>1, SMT DEF Folded
<1>3. CASE q + r < 65536
  <2>1. n = q + r
    BY <1>2, <1>3, SMT
  <2>2. Folded(sum) = q + r
    BY <1>2, <1>3, <2>1, SMT
  <2>3. sum = 65535 * q + Folded(sum)
    BY <1>1, <2>2, SMT
  <2> QED
    BY <1>1, <2>2, <2>3, SMT
<1>4. CASE q + r >= 65536
  <2>1. n = q + r + 1 /\ n >= 65536 /\ n < 131072
    BY <1>1, <1>2, <1>4, SMT
  <2>2. Folded(sum) = n - 65536
    BY <1>2, <2>1, SMT
  <2>3. PICK m \in Nat : m = q + 1
    BY SMT
  <2>4. sum = 65535 * m + Folded(sum) /\ Folded(sum) # 0
    BY <1>1, <1>4, <2>1, <2>2, <2>3, SMT
  <2> QED
    BY <2>4, SMT
<1> QED
  BY <1>1, <1>3, <1>4, SMT

\* The four words of a header add up to a sum the lemmas are about.
LEMMA SumIsSmall ==
  ASSUME NEW h \in Header
  PROVE  /\ h[1] \in Word /\ h[2] \in Word /\ h[3] \in Word /\ h[4] \in Word
         /\ h[1] + h[2] + h[3] + h[4] \in Nat
         /\ h[1] + h[2] + h[3] + h[4] <= 4294901760
BY DEF Header, Word

LEMMA SealedIsHeader ==
  ASSUME NEW h \in Header
  PROVE  Sealed(h) \in Header
<1>1. [h EXCEPT ![2] = 0] \in Header
  BY DEF Header, Word
<1>2. checksum([h EXCEPT ![2] = 0]) \in Word
  BY <1>1, SumIsSmall, FoldedIsWord DEF checksum, Complement, Word
<1> QED
  BY <1>2 DEF Sealed, Header

\* A header's words add up to a multiple of 65535, but not to zero, exactly
\* when its checksum comes out as zero.
LEMMA ZeroIsMultiple ==
  ASSUME NEW h \in Header
  PROVE  checksum(h) = 0 <=> \E k \in Nat \ {0} : h[1] + h[2] + h[3] + h[4] = 65535 * k
<1>1. PICK sum \in Nat : sum = h[1] + h[2] + h[3] + h[4] /\ sum <= 4294901760
  BY SumIsSmall, SMT
<1>2. Folded(sum) \in Nat /\ Folded(sum) <= 65535
  BY <1>1, FoldedIsWord, SMT DEF Word
<1>3. PICK k \in Nat : sum = 65535 * k + Folded(sum) /\ (Folded(sum) = 0 => sum = 0)
  BY <1>1, FoldedIsCongruent, SMT
<1>4. checksum(h) = 0 <=> Folded(sum) = 65535
  BY <1>1, <1>2, SMT DEF checksum, Complement
<1>5. ASSUME Folded(sum) = 65535
      PROVE  \E j \in Nat \ {0} : sum = 65535 * j
  <2>1. sum = 65535 * (k + 1) /\ k + 1 \in Nat \ {0}
    BY <1>3, <1>5, SMT
  <2> QED
    BY <2>1, SMT
<1>6. ASSUME NEW j \in Nat \ {0}, sum = 65535 * j
      PROVE  Folded(sum) = 65535
  <2>1. 65535 * j = 65535 * k + Folded(sum) /\ Folded(sum) # 0
    BY <1>3, <1>6, SMT
  <2> QED
    BY <1>2, <2>1, SMT
<1> QED
  BY <1>1, <1>4, <1>5, <1>6, SMT

\* Whoever computes the checksum over a header as it was sent, checksum
\* included, gets zero: the two carries of lines 29-30 lose nothing.
THEOREM SealedVerifies == \A h \in Header : checksum(Sealed(h)) = 0
<1> SUFFICES ASSUME NEW h \in Header PROVE checksum(Sealed(h)) = 0
  OBVIOUS
<1>1. PICK b \in Header : b = [h EXCEPT ![2] = 0]
  <2>1. [h EXCEPT ![2] = 0] \in Header
    BY SMT DEF Header, Word
  <2> QED
    BY <2>1
<1>2. b[1] = h[1] /\ b[2] = 0 /\ b[3] = h[3] /\ b[4] = h[4]
  BY <1>1, SMT DEF Header
<1>3. PICK sum \in Nat : sum = b[1] + b[2] + b[3] + b[4] /\ sum <= 4294901760
  BY SumIsSmall, SMT
<1>4. Folded(sum) \in Nat /\ Folded(sum) <= 65535
  BY <1>3, FoldedIsWord, SMT DEF Word
<1>5. PICK k \in Nat : sum = 65535 * k + Folded(sum)
  BY <1>3, FoldedIsCongruent, SMT
<1>6. Sealed(h) = [h EXCEPT ![2] = 65535 - Folded(sum)]
  BY <1>1, <1>3, SMT DEF Sealed, checksum, Complement
<1>7. PICK s \in Header : s = Sealed(h)
  BY SealedIsHeader, SMT
<1>8. s[1] = h[1] /\ s[2] = 65535 - Folded(sum) /\ s[3] = h[3] /\ s[4] = h[4]
  BY <1>6, <1>7, SMT DEF Header
<1>9. PICK m \in Nat \ {0} : m = k + 1
  BY SMT
<1>10. s[1] + s[2] + s[3] + s[4] = 65535 * m
  BY <1>2, <1>3, <1>4, <1>5, <1>8, <1>9, SumIsSmall, SMT DEF Word
<1>11. checksum(s) = 0
  BY <1>10, ZeroIsMultiple, SMT
<1> QED
  BY <1>7, <1>11

\* A header of which one word was changed on its way verifies only if zero
\* and 65535, the two names of the same remainder, were exchanged.
THEOREM DamageIsSeen ==
  \A h \in Header, i \in 1..4, w \in Word :
    LET old == Sealed(h)[i]
    IN  (w # old /\ {w, old} # {0, 65535}) => checksum([Sealed(h) EXCEPT ![i] = w]) # 0
<1> SUFFICES ASSUME NEW h \in Header, NEW i \in 1..4, NEW w \in Word,
                    w # Sealed(h)[i], {w, Sealed(h)[i]} # {0, 65535},
                    checksum([Sealed(h) EXCEPT ![i] = w]) = 0
             PROVE  FALSE
  OBVIOUS
<1>1. PICK s \in Header : s = Sealed(h)
  BY SealedIsHeader, SMT
<1>2. PICK d \in Header : d = [s EXCEPT ![i] = w]
  <2>1. [s EXCEPT ![i] = w] \in Header
    BY SMT DEF Header
  <2> QED
    BY <2>1
<1>3. PICK k \in Nat : s[1] + s[2] + s[3] + s[4] = 65535 * k
  BY <1>1, SealedVerifies, ZeroIsMultiple, SMT
<1>4. PICK j \in Nat : d[1] + d[2] + d[3] + d[4] = 65535 * j
  <2>1. checksum(d) = 0
    BY <1>1, <1>2
  <2> QED
    BY <2>1, ZeroIsMultiple, SMT
<1>5. d[1] + d[2] + d[3] + d[4] = s[1] + s[2] + s[3] + s[4] + w - s[i]
  <2>1. d[i] = w /\ \A n \in 1..4 \ {i} : d[n] = s[n]
    BY <1>2, SMT DEF Header
  <2>2. i = 1 \/ i = 2 \/ i = 3 \/ i = 4
    BY SMT
  <2> QED
    BY <2>1, <2>2, SumIsSmall, SMT DEF Word
<1>6. /\ w \in Nat /\ w <= 65535 /\ s[i] \in Nat /\ s[i] <= 65535
  BY SMT DEF Header, Word
<1>7. 65535 * j = 65535 * k + w - s[i]
  BY <1>3, <1>4, <1>5, <1>6, SMT
<1>8. w = s[i] \/ (w = 65535 /\ s[i] = 0) \/ (w = 0 /\ s[i] = 65535)
  <2>1. PICK v \in Nat : v = s[i] /\ v <= 65535 /\ 65535 * j = 65535 * k + w - v
    BY <1>6, <1>7, SMT
  <2>2. w = v \/ (w = 65535 /\ v = 0) \/ (w = 0 /\ v = 65535)
    BY <1>6, <2>1, SMT
  <2> QED
    BY <2>1, <2>2, SMT
<1> QED
  BY <1>1, <1>8
=============================================================================
