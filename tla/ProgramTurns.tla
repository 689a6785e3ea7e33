---------------------------- MODULE ProgramTurns ----------------------------
(***************************************************************************)
(* Whose turn it is to speak.  Of two programs that talk over a stream one *)
(* sees here only the line each main() stands on, the connection, and how  *)
(* much is on the way, counted up to a small number; what the pieces say   *)
(* is left out, but for the texts that have not been sent at all yet.      *)
(* That is little enough for TLC to find all views a pair can come to,     *)
(* which the assumption at the end does; ProgramProofs shows that every    *)
(* step of Conversation is a step from view to view.                       *)
(***************************************************************************)
EXTENDS ProgramLines

\* How far the pieces on the way are counted: not at all where the client
\* never listens, up to one ("something is on the way") where question and
\* answer alternate, and past all that one program sends where a message may
\* be received in parts.
Counted(q) == CASE q = "validation" -> 7
                [] q \in {"winsock", "sample", "auth", "crc", "cng"} -> 1
                [] OTHER -> 0
AtMost(n, max) == IF n > max THEN max ELSE n
Bulk(q) == AtMost(3, Counted(q))        \* of what was read: up to more than a message

View == [at   |-> [p \in Procs |-> pc[p]["main"]],
         link |-> link,
         due  |-> [p \in Procs |-> AtMost(Len(wire[p]), Counted(pair))],
         read |-> AtMost(Len(got["server"]), Bulk(pair))]

WithMain(x, p, n) == [x EXCEPT !.at[p] = n]
WithLink(x, l) == [x EXCEPT !.link = l]
WithDue(x, p, n) == [x EXCEPT !.due[p] = n]
WithRead(x, n) == [x EXCEPT !.read = n]

FirstView == [at |-> [p \in Procs |-> 1], link |-> "none", due |-> [p \in Procs |-> 0], read |-> 0]

\* Texts that p cannot have met, as the main() of the other program, on line
\* j, has not sent them.  That server never says "authenticated", and the
\* client that waits for it never comes to send the secret.
Unsaid(q, p, j) == CASE q = "auth" /\ p = "client" -> {"authenticated"}
                     [] q = "auth" /\ p = "server" -> {"secret"}
                     [] q = "validation" /\ p = "server" /\ j \in 1..11 -> {"handshake", "xhandshake"}
                     [] OTHER -> {}

Without(s, texts) == \A n \in DOMAIN s : s[n][1] \notin texts
Unheard ==
  \A p \in Procs :
    LET unsaid == Unsaid(pair, p, pc[Other(p)]["main"])
    IN  Without(wire[p], unsaid) /\ Without(got[p], unsaid)

(***************************************************************************)
(* The views behind a view, when main() of p takes its line's way ahead    *)
(* and when it takes one of its branches.                                  *)
(***************************************************************************)
Talking == {"pending", "up"}
MayBeEmpty == {"line", "token"}

\* How much is on the way when the message m, two pieces, follows n others.
Sending(q, n, m) == {AtMost(n + 2, Counted(q))} \cup {k \in {n} : m \in MayBeEmpty}

\* What a receive of the given size may leave of n pieces; n may stand for more
\* than could be counted.  What is not left was read.
Leaving(q, n, size) ==
  {k \in 0..Counted(q) : (n < Counted(q) => k < n) /\ (size = "message" => n - k <= 2)}
Taken(q, p, n, k, before) ==
  IF p # "server" THEN {before}
  ELSE IF n < Counted(q) THEN {AtMost(n - k, Bulk(q))} ELSE 0..Bulk(q)

\* A comparison with a text that was never sent fails; but no bytes at all are
\* a prefix of every text.
MayAgree(q, p, step, x) ==
  LET unsaid == Unsaid(q, p, x.at[Other(p)])
  IN  /\ step.op = "match" => step.arg \notin unsaid
      /\ step.op = "matchPrefix" /\ p = "server" => x.read <= 2 /\ (step.arg \in unsaid => x.read = 0)

\* y is the view with p on its next line already.
AfterSend(q, p, step, y) ==
  {WithDue(y, Other(p), n) : n \in Sending(q, y.due[Other(p)], step.arg)}
AfterReceive(q, p, step, y) ==
  UNION {{WithRead(WithDue(y, p, n), r) : r \in Taken(q, p, y.due[p], n, y.read)} :
         n \in Leaving(q, y.due[p], step.arg)}
Effects(q, p, step, y) ==
  CASE step.op = "listen" -> {WithLink(y, "listening")}
    [] step.op = "connect" -> {z \in {WithLink(y, "pending")} : y.link = "listening"}
    [] step.op = "accept" -> {z \in {WithLink(y, "up")} : y.link = "pending"}
    [] step.op \in {"send", "sendNow"} -> {z \in AfterSend(q, p, step, y) : y.link \in Talking}
    [] step.op \in Receiving -> AfterReceive(q, p, step, y)
    [] OTHER -> {z \in {y} : MayAgree(q, p, step, y)}

Onward(q, p, x) ==
  LET P == Programs[q][p]
      i == x.at[p]
  IN  Effects(q, p, P[i], WithMain(x, p, Ahead(P, i).to))

\* A send() to a connection that is there does not fail (UsesOpen says that the
\* socket is open).
Sideways(q, p, x) ==
  LET P == Programs[q][p]
      i == x.at[p]
  IN  IF P[i].op = "send" /\ q # "polling" /\ x.link \in Talking
      THEN {}
      ELSE {WithMain(x, p, w.to) : w \in Aside(P, i)}

Losing(x) == IF x.link \in Talking THEN {WithLink(x, "lost")} ELSE {}

Behind(q, x) ==
  Losing(x) \cup UNION {Onward(q, p, x) \cup Sideways(q, p, x) :
                          p \in {p \in Procs : x.at[p] \in DOMAIN Programs[q][p]}}

\* Both main() are held up.
Stuck(q, x) ==
  /\ x.link = "up"
  /\ \A p \in Procs : /\ x.due[p] = 0 /\ x.at[p] \in DOMAIN Programs[q][p]
                      /\ Programs[q][p][x.at[p]].op \in {"recv", "read", "begin", "join", "accept"}

\* Where the programs with the log come to once the server has let the client
\* in: behind the handshake, and the client behind "authenticated".
InChat(at) == at["client"] \in 9..14 \/ at["server"] \in 13..15

\* All views a pair comes to, found in at most MaxTurns rounds.
MaxTurns == 40
Views(q) ==
  LET found[n \in Nat] ==
        IF n = 0 THEN [all |-> {FirstView}, new |-> {FirstView}]
        ELSE LET before == found[n - 1]
                 next == UNION {Behind(q, x) : x \in before.new}
             IN  [all |-> before.all \cup next, new |-> next \ before.all]
  IN  found[MaxTurns].all

(***************************************************************************)
(* What the tables of the streams are like where this needs it.            *)
(***************************************************************************)
\* What a view leaves out does not change it: threads do not speak where the
\* pieces are counted, and never make a connection.
Sighted(q, p) ==
  LET P == Programs[q][p]
  IN  /\ \A i \in DOMAIN P : P[i].op \notin {"sendto", "recvfrom", "connectNow"}
      /\ \A i \in ThreadLines(P) :
           /\ Counted(q) = 0
           /\ P[i].op \notin {"listen", "accept", "connect"}
           /\ \A w \in Ways(P, i) : w.to # Crashed
      /\ Counted(q) # 0 => \A i \in DOMAIN P :
           /\ P[i].op # "read"
           /\ P[i].arg \notin {"echo", "pipe line", "shown", "rest"}

\* A text that is unsaid on a line has not been sent before it, on any of the
\* lines that p comes to.
SpeaksInTurn(q, p, lines) ==
  LET P == Programs[q][p]
      unsaid(j) == Unsaid(q, Other(p), j)
  IN  \A i \in lines \cap DOMAIN P : \A w \in Ways(P, i) :
        /\ unsaid(w.to) \subseteq unsaid(i)
        /\ P[i].op \in {"send", "sendNow"} /\ unsaid(w.to) # {} =>
             P[i].arg \notin {"echo", "crc", "pipe line"} \cup unsaid(w.to)

ASSUME TablesTakeTurns ==
  \A q \in Streams :
    /\ \A p \in Procs : Sighted(q, p)
    /\ LET views == Views(q)
       IN  /\ FirstView \in views
           /\ \A p \in Procs : SpeaksInTurn(q, p, {x.at[p] : x \in views})
           /\ q = "auth" => \A x \in views : ~InChat(x.at)
           /\ \A x \in views : Behind(q, x) \subseteq views /\ (q # "pipe" => ~Stuck(q, x))
=============================================================================
