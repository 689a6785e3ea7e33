---------------------------- MODULE ProgramLines ----------------------------
(***************************************************************************)
(* What the tables of module Programs say line by line, before anything    *)
(* runs: where a line can lead, what is held on it, and which lines of     *)
(* main() and of its threads can be run side by side.  The three           *)
(* assumptions are closed statements about the tables, one line at a time, *)
(* that TLC evaluates; ProgramProofs concludes from them what holds        *)
(* however the two programs of a pair are interleaved and whatever fails.  *)
(***************************************************************************)
EXTENDS Conversation

(***************************************************************************)
(* The ways on from a line, as Advance and Branch take them.               *)
(***************************************************************************)
LineBelow(P, i) == IF i = Len(P) THEN Return ELSE i + 1
Target(P, i, to) == IF to # Thru THEN to ELSE LineBelow(P, i)

Gained(step) == CASE step.op = "acquire" -> {step.arg}
                  [] step.op = "accept"  -> {"conn"}
                  [] OTHER               -> {}
Dropped(step) == IF step.op = "release" THEN step.fail.rel ELSE {}

Receiving == {"recv", "recvNow", "read"}
Branching == Fallible \cup Receiving
               \cup {"send", "sendNow", "match", "matchPrefix", "full", "while"}
Branches(step) == {b \in {step.fail} : step.op \in Branching}
                    \cup {b \in {step.zero} : step.op \in Receiving}

Ahead(P, i) == [adds |-> Gained(P[i]), rel |-> Dropped(P[i]), to |-> Target(P, i, P[i].ok)]
Aside(P, i) == {[adds |-> {}, rel |-> b.rel, to |-> Target(P, i, b.to)] : b \in Branches(P[i])}
Ways(P, i) == {Ahead(P, i)} \cup Aside(P, i)

(***************************************************************************)
(* main()'s lines come first, those of its threads behind them.            *)
(***************************************************************************)
SpawnLines(P, t) == {i \in DOMAIN P : P[i].op = "spawn" /\ P[i].arg[1] = t}
Workers == Threads \ {"main"}
MainLines(P) ==
  {i \in DOMAIN P : \A t \in Workers : \A j \in SpawnLines(P, t) : i < P[j].arg[2]}
ThreadLines(P) == DOMAIN P \ MainLines(P)

Ends == {Return, Crashed, Left, Unstarted}

\* Every line leads to a line of the same function, or ends it; only main()
\* starts threads, and only main() acquires anything.
LinesConnect(P) ==
  /\ DOMAIN P = 1..Len(P) /\ 1 \in MainLines(P)
  /\ Ends \cap DOMAIN P = {}
  /\ \A i \in MainLines(P) : \A w \in Ways(P, i) : w.to \in MainLines(P) \cup {Return, Crashed}
  /\ \A i \in ThreadLines(P) : \A w \in Ways(P, i) : w.to \in ThreadLines(P) \cup {Left, Crashed}
  /\ \A i \in DOMAIN P : P[i].op = "spawn" =>
       /\ i \in MainLines(P) /\ P[i].ok = Thru /\ i # Len(P)
       /\ P[i].arg[1] \in Workers /\ P[i].arg[2] \in ThreadLines(P)
  /\ \A i \in DOMAIN P : Gained(P[i]) # {} => i \in MainLines(P) /\ Gained(P[i]) \subseteq Resources
  /\ \A i \in DOMAIN P : P[i].op \in {"recvfrom", "read"} => P[i].arg # "rest"

ASSUME TablesConnect == \A q \in DOMAIN Programs, p \in Procs : LinesConnect(Programs[q][p])

(***************************************************************************)
(* What main() may hold on each line, as pairs of a line and what is held  *)
(* there: what some way that leads there brings along, found by going all  *)
(* ways at once, as many times as there are lines.                         *)
(***************************************************************************)
On(i, pairs) == {x[2] : x \in {y \in pairs : y[1] = i}}
Brought(w, R) == {w.to} \X ((R \cup w.adds) \ w.rel)
MayHold(P) ==
  LET after[n \in Nat] ==
        IF n = 0 THEN {}
        ELSE LET before == after[n - 1]
             IN  before \cup UNION {UNION {Brought(w, On(i, before)) : w \in Ways(P, i)} : i \in DOMAIN P}
  IN  after[Len(P)]

\* Nothing else is brought to any line, and main() returns with the addresses
\* at most.
Tidy(P) ==
  LET may == MayHold(P)
  IN  \A i \in MainLines(P) : \A w \in Ways(P, i) :
        LET now == (On(i, may) \cup w.adds) \ w.rel
        IN  /\ w.to \in MainLines(P) => now \subseteq On(w.to, may)
            /\ w.to = Return => now \subseteq {"addr"}

LeftToTheSystem == {"pthread", "descriptor"}
ASSUME TablesTidy ==
  \A q \in DOMAIN Programs \ LeftToTheSystem, p \in Procs : Tidy(Programs[q][p])

(***************************************************************************)
(* Where main() stands while its thread t runs: below the line that starts *)
(* it, up to the one that joins it.                                        *)
(***************************************************************************)
JoinLines(P, t) == {i \in DOMAIN P : P[i].op = "join" /\ P[i].arg = t}
Span(P, t) ==
  {i \in MainLines(P) : /\ \E j \in SpawnLines(P, t) : j < i
                        /\ \A k \in JoinLines(P, t) : i <= k}

\* A thread that closes the connection it was started for.
Closes(P) == \E i \in ThreadLines(P) : \E w \in Ways(P, i) : "conn" \in w.rel

\* The lines main() runs with its connection open: behind the call that made
\* it, and not beside a thread that closes it.
OpenLines(P) ==
  LET beside == IF Closes(P) THEN UNION {Span(P, t) : t \in Workers} ELSE {}
  IN  {i \in {x[1] : x \in {y \in MayHold(P) : y[2] = "conn"}} \cap MainLines(P) :
         P[i].op # "accept" /\ i \notin beside}

AcceptLines(P) == {i \in DOMAIN P : P[i].op = "accept"}
Using == {"send", "recv", "recvNow", "read", "sendto", "recvfrom", "shutdown"}

\* main() uses its connection, and starts threads that use it, only where it
\* is open; while a thread may run, main() keeps the connection open.
StaysOpen(P) ==
  /\ LET open == OpenLines(P)
     IN  1 \notin open /\ \A i \in MainLines(P) :
           /\ P[i].op \in Using \cup {"spawn"} => i \in open
           /\ \A w \in Ways(P, i) : w.to \in open =>
                "conn" \in w.adds \/ (i \in open /\ "conn" \notin w.rel)
  /\ \A i \in ThreadLines(P) : \A w \in Ways(P, i) : w.to \in ThreadLines(P) => "conn" \notin w.rel
  /\ \A t \in Workers :
       /\ \A i \in SpawnLines(P, t) : i + 1 \in Span(P, t)
       /\ \A i \in Span(P, t) : \A w \in Ways(P, i) :
            \/ w.to \in {Return, Crashed}
            \/ w.to \in Span(P, t) /\ "conn" \notin w.rel
            \/ i \in JoinLines(P, t)
            \/ i \in AcceptLines(P) /\ w = Ahead(P, i)
  /\ Closes(P) => SpawnLines(P, "sender") = {}

\* The lines of a server with threads that it runs once it has a client.
HasAccepted(P) ==
  {i \in MainLines(P) : /\ \E t \in Workers : SpawnLines(P, t) # {}
                        /\ \E j \in AcceptLines(P) : j < i}

\* Such a server gets there by accepting a client, and never listens again.
AcceptsOne(P) ==
  /\ \A t \in Workers : Span(P, t) \cap AcceptLines(P) \subseteq HasAccepted(P)
  /\ \A i \in HasAccepted(P) \cup ThreadLines(P) : P[i].op # "listen"
  /\ \A i \in MainLines(P) : \A w \in Ways(P, i) :
       w.to \in HasAccepted(P) => i \in HasAccepted(P) \/ (i \in AcceptLines(P) /\ w = Ahead(P, i))

ASSUME TablesStayOpen ==
  \A q \in DOMAIN Programs \ {"polling"} :
    /\ \A p \in Procs : StaysOpen(Programs[q][p])
    /\ AcceptsOne(Programs[q]["server"])
    /\ \A i \in DOMAIN Programs[q]["client"] : Programs[q]["client"][i].op \notin {"listen", "accept"}
=============================================================================
