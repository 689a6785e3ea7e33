-------------------------- MODULE EventServerProofs --------------------------
(***************************************************************************)
(* For any number of connections, handles, events and messages: however    *)
(* many stale entries HandleClient leaves behind, every open connection    *)
(* has its own one, and the server never waits for an event that has come. *)
(***************************************************************************)
EXTENDS EventServer, FiniteSetTheorems, SequenceTheorems, WellFoundedInduction, TLAPS

(***************************************************************************)
(* What is left out by the properties themselves.                          *)
(***************************************************************************)
\* The server is about to close handle h, whatever it was before.
Busy(h) == main.pc \in {"handle", "close"} /\ Sock = h

\* Entry 1 is the listening socket, the others are of accepted connections, no
\* two of the same one, and only these are served.
EntriesOK ==
  /\ Len(entries) >= 1 /\ entries[1] = [sock |-> Listener, event |-> Listener]
  /\ \A i \in DOMAIN entries \ {1} :
       /\ entries[i].sock \in Handles /\ entries[i].event \in Conns
       /\ peer[entries[i].event] \in {"open", "gone"}
  /\ \A i, j \in DOMAIN entries : entries[i].event = entries[j].event => i = j
  /\ main.pc \in {"enum", "handle", "close"} => main.idx # 1

OwnersDiffer ==
  /\ \A h \in Handles : open[h] # None => peer[open[h]] \in {"open", "gone"}
  /\ \A g, h \in Handles : open[g] = open[h] /\ open[g] # None => g = h

UnreadWasSent == \A c \in Conns : inbox[c] <= sentBy[c]

EveryOpenHasEntry ==
  \A h \in Handles : open[h] # None =>
    \E i \in DOMAIN entries : entries[i] = [sock |-> h, event |-> open[h]]

\* Nothing that happens to c goes unseen: what came is recorded or will be
\* when it comes, and a record has its event set, unless it is about to be
\* enumerated.
Noted(c) ==
  /\ "read" \in recorded[c] \/ (c \in enabled /\ inbox[c] = 0)
  /\ peer[c] = "gone" => "close" \in recorded[c]
  /\ recorded[c] # {} => c \in signalled \/ (main.pc = "enum" /\ entries[main.idx].event = c)

AllNoted == \A h \in Handles : open[h] # None /\ ~Busy(h) => Noted(open[h])

IInv == /\ TypeOK /\ EntriesOK /\ OwnersDiffer /\ UnreadWasSent
        /\ EveryOpenHasEntry /\ AllNoted

-----------------------------------------------------------------------------
(***************************************************************************)
(* The operators the steps are built from.                                 *)
(***************************************************************************)
\* The least of some indexes is one of them.
LEMMA LeastIndex ==
  ASSUME NEW S, S \subseteq Nat, S # {}
  PROVE  Min(S) \in S
<1> DEFINE R == {p \in Nat \X Nat : p[1] < p[2]}
<1>1. R = OpToRel(<, Nat)
  BY DEF OpToRel
<1>2. PICK x \in S : \A y \in S : ~(<<y, x>> \in R)
  BY <1>1, NatLessThanWellFounded, WFMin, Zenon
<1>3. ASSUME NEW y \in S PROVE x <= y
  <2>1. y < x => <<y, x>> \in R
    OBVIOUS
  <2> QED BY <1>2, <2>1
<1> QED BY <1>3 DEF Min

\* Taking an entry out moves the later ones up by one place (lines 135-138).
LEMMA RemoveMovesUp ==
  ASSUME NEW T, NEW s \in Seq(T), NEW i \in 1..Len(s)
  PROVE  /\ RemoveAt(s, i) \in Seq(T)
         /\ Len(RemoveAt(s, i)) = Len(s) - 1
         /\ \A j \in 1..Len(s)-1 : RemoveAt(s, i)[j] = s[IF j < i THEN j ELSE j + 1]
<1> DEFINE front == SubSeq(s, 1, i - 1)
           back  == SubSeq(s, i + 1, Len(s))
<1>1. /\ front \in Seq(T) /\ Len(front) = i - 1
      /\ \A j \in 1..i-1 : front[j] = s[j]
  BY SubSeqProperties
<1>2. /\ back \in Seq(T) /\ Len(back) = Len(s) - i
      /\ \A j \in 1..Len(s)-i : back[j] = s[j + i]
  BY SubSeqProperties
<1>3. /\ front \o back \in Seq(T) /\ Len(front \o back) = Len(front) + Len(back)
      /\ \A j \in 1..Len(front) + Len(back) :
           (front \o back)[j] = IF j <= Len(front) THEN front[j] ELSE back[j - Len(front)]
  BY <1>1, <1>2, ConcatProperties
<1>4. RemoveAt(s, i) = front \o back
  BY DEF RemoveAt
<1> HIDE DEF front, back
<1>5. ASSUME NEW j \in 1..Len(s)-1
      PROVE  (front \o back)[j] = s[IF j < i THEN j ELSE j + 1]
  <2>1. CASE j < i
    BY <1>1, <1>2, <1>3, <2>1
  <2>2. CASE ~(j < i)
    <3>1. j - (i - 1) \in 1..Len(s)-i /\ (j - (i - 1)) + i = j + 1
      BY <2>2
    <3>2. (front \o back)[j] = back[j - (i - 1)]
      BY <1>1, <1>2, <1>3, <2>2
    <3> QED
      BY <1>2, <2>2, <3>1, <3>2
  <2> QED
    BY <2>1, <2>2
<1> QED
  BY <1>1, <1>2, <1>3, <1>4, <1>5

\* So an entry other than the one taken out is there still.
LEMMA RemoveKeepsOthers ==
  ASSUME NEW T, NEW s \in Seq(T), NEW i \in 1..Len(s), NEW k \in 1..Len(s), k # i
  PROVE  \E j \in DOMAIN RemoveAt(s, i) : RemoveAt(s, i)[j] = s[k]
<1>1. DOMAIN RemoveAt(s, i) = 1..Len(s)-1
  BY RemoveMovesUp
<1>2. CASE k < i
  <2>1. k \in 1..Len(s)-1
    BY <1>2
  <2>2. RemoveAt(s, i)[k] = s[IF k < i THEN k ELSE k + 1]
    BY <2>1, RemoveMovesUp
  <2> QED
    BY <1>1, <1>2, <2>1, <2>2
<1>3. CASE k > i
  <2>1. k - 1 \in 1..Len(s)-1 /\ ~(k - 1 < i) /\ (k - 1) + 1 = k
    BY <1>3
  <2>2. RemoveAt(s, i)[k - 1] = s[IF k - 1 < i THEN k - 1 ELSE (k - 1) + 1]
    BY <2>1, RemoveMovesUp
  <2> QED
    BY <1>1, <2>1, <2>2
<1> QED
  BY <1>2, <1>3

\* The entry Wait finds is one whose event is set.
LEMMA FoundIsReady ==
  ASSUME TypeOK, Ready # {}
  PROVE  Min(Ready) \in DOMAIN entries /\ entries[Min(Ready)].event \in signalled
<1>1. Ready \subseteq Nat
  BY DEF Ready, TypeOK
<1>2. Min(Ready) \in Ready
  BY <1>1, LeastIndex
<1> QED
  BY <1>2 DEF Ready

\* The socket the server works for, and what is behind it.
LEMMA SockIsHandle ==
  ASSUME TypeOK, EntriesOK, main.pc \in {"enum", "handle", "close"}
  PROVE  /\ main.idx \in DOMAIN entries /\ main.idx # 1
         /\ Sock \in Handles /\ Conn \in Conns \cup {None}
         /\ entries[main.idx].event \in Conns
BY DEF TypeOK, EntriesOK, Sock, Conn

-----------------------------------------------------------------------------
(***************************************************************************)
(* Types.                                                                  *)
(***************************************************************************)
\* No more is unread than was sent, whatever of it is read.
LEMMA UnreadStep ==
  ASSUME TypeOK, UnreadWasSent, [Next]_vars
  PROVE  UnreadWasSent' /\ inbox' \in [Conns -> 0..MaxMessages]
                        /\ sentBy' \in [Conns -> 0..MaxMessages]
<1> USE DEF TypeOK, UnreadWasSent
<1>1. CASE Echo
  <2>1. PICK n \in 1..inbox[Conn] : inbox' = [inbox EXCEPT ![Conn] = @ - n]
    BY <1>1 DEF Echo
  <2>2. Conn \in Conns => inbox[Conn] - n \in 0..MaxMessages /\ inbox[Conn] - n <= inbox[Conn]
    BY LimitsAssumption, <2>1
  <2>3. ASSUME NEW c \in Conns
        PROVE  inbox'[c] \in 0..MaxMessages /\ inbox'[c] <= inbox[c]
    BY <2>1, <2>2, LimitsAssumption
  <2>4. inbox' \in [Conns -> 0..MaxMessages]
    BY <2>1, <2>3
  <2> QED
    BY <1>1, <2>3, <2>4, LimitsAssumption DEF Echo
<1>2. ASSUME NEW c \in Conns, Send(c)
      PROVE  UnreadWasSent' /\ inbox' \in [Conns -> 0..MaxMessages]
                            /\ sentBy' \in [Conns -> 0..MaxMessages]
  BY <1>2, LimitsAssumption DEF Send
<1>3. CASE UNCHANGED <<inbox, sentBy>>
  BY <1>3
<1> QED
  BY <1>1, <1>2, <1>3
  DEF Next, Main, Wait, Enum, Leave, Drop, Stop, Accept, Connect, Withdraw, Hangup, vars, net

\* Closing a handle keeps the types of what it changes.
LEMMA CloseType ==
  ASSUME TypeOK, NEW h \in Handles, CloseSocket(h)
  PROVE  /\ open' \in [Handles -> Conns \cup {None}]
         /\ enabled' \subseteq Conns \cup {Listener}
         /\ recorded' \in [Conns -> SUBSET {"read", "close"}]
BY DEF TypeOK, CloseSocket

\* So does what is recorded of an event.
LEMMA RecordType ==
  ASSUME TypeOK, NEW c \in Conns, NEW what \in {"read", "close"}
  PROVE  [recorded EXCEPT ![c] = @ \cup {what}] \in [Conns -> SUBSET {"read", "close"}]
<1>1. recorded[c] \cup {what} \in SUBSET {"read", "close"}
  BY DEF TypeOK
<1> QED
  BY <1>1 DEF TypeOK

\* Every step of the server and of the clients keeps every variable's type.
LEMMA TypeStep ==
  ASSUME TypeOK, EntriesOK, UnreadWasSent, [Next]_vars
  PROVE  TypeOK'
<1> USE DEF TypeOK
<1>1. 1 \in DOMAIN entries
  BY DEF EntriesOK
<1>2. inbox' \in [Conns -> 0..MaxMessages] /\ sentBy' \in [Conns -> 0..MaxMessages]
  BY UnreadStep
<1>3. CASE Wait
  BY <1>2, <1>3, FoundIsReady DEF Wait, net
<1>4. CASE Stop
  BY <1>2, <1>4 DEF Stop, net
<1>5. ASSUME NEW c \in Conns, NEW h \in Handles, Accept(c, h)
      PROVE  TypeOK'
  <2>1. /\ entries' \in Seq([sock : Handles \cup {Listener}, event : Conns \cup {Listener}])
        /\ 1 \in DOMAIN entries'
    BY <1>1, <1>5 DEF Accept
  <2>2. recorded' \in [Conns -> SUBSET {"read", "close"}]
    BY <1>5 DEF Accept, Happened
  <2>3. main' \in [pc : {"wait", "accept", "enum", "handle", "close", "stopped"},
                   idx : DOMAIN entries', net : SUBSET {"read", "close"}]
    BY <1>5, <2>1 DEF Accept, Waiting
  <2> QED
    BY <1>2, <1>5, <2>1, <2>2, <2>3 DEF Accept
<1>6. CASE Enum
  <2>1. PICK happened \in IF Conn = None THEN SUBSET {"read", "close"} ELSE {recorded[Conn]} :
          main' = [main EXCEPT !.pc = After(happened), !.net = happened]
    BY <1>6 DEF Enum
  <2>2. happened \in SUBSET {"read", "close"}
    BY <1>6, <2>1, SockIsHandle DEF Enum
  <2>3. After(happened) \in {"handle", "close", "wait"}
    BY DEF After
  <2>4. recorded' \in [Conns -> SUBSET {"read", "close"}]
    BY <1>6 DEF Enum
  <2> QED
    BY <1>2, <1>6, <2>1, <2>2, <2>3, <2>4 DEF Enum
<1>7. CASE Echo
  <2>1. Conn \in Conns
    BY <1>7, SockIsHandle DEF Echo
  <2>2. /\ recorded' \in [Conns -> SUBSET {"read", "close"}]
        /\ signalled' \subseteq Conns \cup {Listener} /\ enabled' \subseteq Conns \cup {Listener}
    <3>1. CASE UNCHANGED <<recorded, signalled>> /\ enabled' = enabled \cup {Conn}
      BY <2>1, <3>1
    <3>2. CASE /\ recorded' = [recorded EXCEPT ![Conn] = @ \cup {"read"}]
               /\ signalled' = signalled \cup {Conn} /\ enabled' = enabled \ {Conn}
      BY <2>1, <3>2, RecordType
    <3> QED
      BY <1>7, <3>1, <3>2 DEF Echo
  <2> QED
    BY <1>2, <1>7, <2>2 DEF Echo
<1>8. CASE Leave
  <2>1. After(main.net \ {"read"}) \in {"handle", "close", "wait"}
    BY DEF After
  <2>2. Sock \in Handles /\ CloseSocket(Sock)
    BY <1>8, SockIsHandle DEF Leave
  <2> QED
    BY <1>2, <1>8, <2>1, <2>2, CloseType DEF Leave
<1>9. CASE Drop
  <2>1. Sock \in Handles /\ CloseSocket(Sock) /\ main.idx \in 2..Len(entries)
    BY <1>9, SockIsHandle DEF Drop
  <2>2. /\ entries' \in Seq([sock : Handles \cup {Listener}, event : Conns \cup {Listener}])
        /\ 1 \in DOMAIN entries'
    BY <1>9, <2>1, RemoveMovesUp DEF Drop
  <2>3. main' \in [pc : {"wait", "accept", "enum", "handle", "close", "stopped"},
                   idx : DOMAIN entries', net : SUBSET {"read", "close"}]
    BY <1>9, <2>2 DEF Drop, Waiting
  <2> QED
    BY <1>2, <1>9, <2>1, <2>2, <2>3, CloseType DEF Drop
<1>10. ASSUME NEW c \in Conns, Connect(c) \/ Withdraw(c)
       PROVE  TypeOK'
  BY <1>2, <1>10 DEF Connect, Withdraw
<1>11. ASSUME NEW c \in Conns, Send(c)
       PROVE  TypeOK'
  BY <1>2, <1>11 DEF Send, Post
<1>12. ASSUME NEW c \in Conns, Hangup(c)
       PROVE  TypeOK'
  <2>1. recorded' \in [Conns -> SUBSET {"read", "close"}] /\ signalled' \subseteq Conns \cup {Listener}
    BY <1>12, RecordType DEF Hangup, Post
  <2> QED
    BY <1>2, <1>12, <2>1 DEF Hangup
<1>13. CASE UNCHANGED vars
  BY <1>2, <1>13 DEF vars, net
<1> QED
  BY <1>3, <1>4, <1>5, <1>6, <1>7, <1>8, <1>9, <1>10, <1>11, <1>12, <1>13 DEF Next, Main

-----------------------------------------------------------------------------
(***************************************************************************)
(* Entries and handles.                                                    *)
(***************************************************************************)
\* Once accepted, a connection is open or gone for good.
LEMMA AcceptedStays ==
  ASSUME TypeOK, [Next]_vars, NEW c \in Conns, peer[c] \in {"open", "gone"}
  PROVE  peer'[c] \in {"open", "gone"}
BY DEF TypeOK, Next, Main, Wait, Enum, Echo, Leave, Drop, Stop, Accept, Queued,
       Connect, Withdraw, Send, Hangup, vars, net

\* Entries are put behind the others by Accept, taken out by Drop, and else
\* left alone.
LEMMA EntriesStep ==
  ASSUME TypeOK, EntriesOK, [Next]_vars
  PROVE  EntriesOK'
<1> USE DEF TypeOK, EntriesOK
<1>1. ASSUME NEW c \in Conns, NEW h \in Handles, Accept(c, h)
      PROVE  EntriesOK'
  <2> DEFINE e == [sock |-> h, event |-> c]
  <2>1. /\ entries' = Append(entries, e) /\ peer[c] \in {"queued", "left"}
        /\ main'.pc = "wait" /\ peer'[c] \in {"open", "gone"}
    BY <1>1 DEF Accept, Queued, Waiting
  <2>2. /\ Len(entries') = Len(entries) + 1 /\ entries'[Len(entries) + 1] = e
        /\ \A i \in 1..Len(entries) : entries'[i] = entries[i]
        /\ DOMAIN entries' = 1..Len(entries) + 1
        /\ DOMAIN entries = 1..Len(entries) /\ Len(entries) \in Nat
    BY <2>1
  <2>3. ASSUME NEW i \in DOMAIN entries PROVE entries[i].event # c
    <3>1. CASE i = 1
      BY <3>1, NamesAssumption
    <3>2. CASE i # 1
      BY <2>1, <3>2
    <3> QED
      BY <3>1, <3>2
  <2>4. ASSUME NEW i \in DOMAIN entries' \ {1}
        PROVE  /\ entries'[i].sock \in Handles /\ entries'[i].event \in Conns
               /\ peer'[entries'[i].event] \in {"open", "gone"}
    <3>1. CASE i = Len(entries) + 1
      BY <2>1, <2>2, <3>1
    <3>2. CASE i \in DOMAIN entries \ {1}
      <4>1. entries'[i] = entries[i] /\ entries[i].event \in Conns
        BY <2>2, <3>2
      <4>2. peer'[entries[i].event] \in {"open", "gone"}
        BY <3>2, <4>1, AcceptedStays
      <4> QED
        BY <3>2, <4>1, <4>2
    <3> QED
      BY <2>2, <3>1, <3>2
  <2>5. ASSUME NEW i \in DOMAIN entries', NEW j \in DOMAIN entries',
               entries'[i].event = entries'[j].event
        PROVE  i = j
    <3>1. e.event = c
      OBVIOUS
    <3>2. \A k \in DOMAIN entries' :
            k = Len(entries) + 1 \/ (k \in DOMAIN entries /\ entries'[k] = entries[k])
      <4> HIDE DEF TypeOK, EntriesOK
      <4> QED
        BY <2>2
    <3>3. \A k, l \in DOMAIN entries : entries[k].event = entries[l].event => k = l
      OBVIOUS
    <3> HIDE DEF TypeOK, EntriesOK, e
    <3>4. CASE i = Len(entries) + 1
      BY <2>2, <2>3, <2>5, <3>1, <3>2, <3>4
    <3>5. CASE j = Len(entries) + 1
      BY <2>2, <2>3, <2>5, <3>1, <3>2, <3>5
    <3> QED
      BY <2>5, <3>2, <3>3, <3>4, <3>5
  <2> QED
    BY <2>1, <2>2, <2>4, <2>5
<1>2. CASE Drop
  <2> DEFINE From(j) == IF j < main.idx THEN j ELSE j + 1
  <2>1. main.idx \in 2..Len(entries) /\ Len(entries) \in Nat /\ DOMAIN entries = 1..Len(entries)
    BY <1>2, SockIsHandle DEF Drop
  <2>2. entries' = RemoveAt(entries, main.idx) /\ main'.pc = "wait" /\ peer' = peer
    BY <1>2 DEF Drop, Waiting
  <2>3. /\ entries' \in Seq([sock : Handles \cup {Listener}, event : Conns \cup {Listener}])
        /\ Len(entries') = Len(entries) - 1
        /\ \A j \in 1..Len(entries)-1 : entries'[j] = entries[From(j)]
    <3>1. /\ entries \in Seq([sock : Handles \cup {Listener}, event : Conns \cup {Listener}])
          /\ main.idx \in 1..Len(entries)
      BY <2>1
    <3> HIDE DEF TypeOK, EntriesOK
    <3> QED
      BY <2>2, <3>1, RemoveMovesUp
  <2>4. DOMAIN entries' = 1..Len(entries)-1
    BY <2>3
  <2>5. /\ \A j \in 1..Len(entries)-1 : From(j) \in DOMAIN entries /\ (From(j) = 1 => j = 1)
        /\ \A i, j \in 1..Len(entries)-1 : From(i) = From(j) => i = j
        /\ 1 \in 1..Len(entries)-1 /\ From(1) = 1
    BY <2>1
  <2> HIDE DEF From
  <2>6. ASSUME NEW i \in DOMAIN entries' \ {1}
        PROVE  /\ entries'[i].sock \in Handles /\ entries'[i].event \in Conns
               /\ peer'[entries'[i].event] \in {"open", "gone"}
    <3>1. entries'[i] = entries[From(i)] /\ From(i) \in DOMAIN entries \ {1}
      BY <2>3, <2>4, <2>5
    <3> QED
      BY <2>2, <3>1
  <2>7. ASSUME NEW i \in DOMAIN entries', NEW j \in DOMAIN entries',
               entries'[i].event = entries'[j].event
        PROVE  i = j
    <3>1. /\ entries'[i] = entries[From(i)] /\ From(i) \in DOMAIN entries
          /\ entries'[j] = entries[From(j)] /\ From(j) \in DOMAIN entries
      BY <2>3, <2>4, <2>5
    <3>2. From(i) = From(j)
      BY <2>7, <3>1
    <3> QED
      BY <2>4, <2>5, <3>2
  <2>8. Len(entries') >= 1 /\ entries'[1] = [sock |-> Listener, event |-> Listener]
    BY <2>1, <2>3, <2>5
  <2> QED
    BY <2>2, <2>6, <2>7, <2>8
<1>3. ASSUME UNCHANGED entries, main'.pc \in {"enum", "handle", "close"} => main'.idx # 1
      PROVE  EntriesOK'
  <2>1. \A i \in DOMAIN entries \ {1} : peer'[entries[i].event] \in {"open", "gone"}
    BY AcceptedStays
  <2> QED
    BY <1>3, <2>1
<1>4. CASE Enum
  BY <1>3, <1>4 DEF Enum
<1> QED
  BY <1>1, <1>2, <1>3, <1>4
  DEF Next, Main, Wait, Echo, Leave, Stop, Connect, Withdraw, Send, Hangup, vars, net

\* A handle stands for one connection, and a connection has one handle.
LEMMA OwnersStep ==
  ASSUME TypeOK, EntriesOK, OwnersDiffer, [Next]_vars
  PROVE  OwnersDiffer'
<1> USE DEF TypeOK, OwnersDiffer
<1>1. ASSUME NEW c \in Conns, NEW h \in Handles, Accept(c, h)
      PROVE  OwnersDiffer'
  <2>1. /\ open' = [open EXCEPT ![h] = c] /\ peer[c] \in {"queued", "left"}
        /\ peer'[c] \in {"open", "gone"}
    BY <1>1 DEF Accept, Queued
  <2>2. \A g \in Handles : open[g] # c
    BY <2>1, NamesAssumption
  <2> QED
    BY <2>1, <2>2, AcceptedStays
<1>2. ASSUME NEW h \in Handles, CloseSocket(h)
      PROVE  OwnersDiffer'
  BY <1>2, AcceptedStays DEF CloseSocket
<1>3. CASE UNCHANGED open
  <2>1. \A h \in Handles : open[h] # None => peer'[open[h]] \in {"open", "gone"}
    BY AcceptedStays
  <2> QED
    BY <1>3, <2>1
<1>4. CASE Leave \/ Drop
  BY <1>2, <1>4, SockIsHandle DEF Leave, Drop
<1> QED
  BY <1>1, <1>3, <1>4
  DEF Next, Main, Wait, Enum, Echo, Stop, Connect, Withdraw, Send, Hangup, vars, net

\* An entry is taken out only when the connection of its event is closed:
\* Drop's own entry has the handle it closes.
LEMMA HasEntryStep ==
  ASSUME TypeOK, EntriesOK, OwnersDiffer, EveryOpenHasEntry, [Next]_vars
  PROVE  EveryOpenHasEntry'
<1> USE DEF TypeOK, EveryOpenHasEntry
<1>1. ASSUME NEW c \in Conns, NEW h \in Handles, Accept(c, h)
      PROVE  EveryOpenHasEntry'
  <2>1. /\ open' = [open EXCEPT ![h] = c]
        /\ entries' = Append(entries, [sock |-> h, event |-> c])
    BY <1>1 DEF Accept
  <2>2. /\ DOMAIN entries' = 1..Len(entries) + 1 
        /\ entries'[Len(entries) + 1] = [sock |-> h, event |-> c]
        /\ \A i \in 1..Len(entries) : entries'[i] = entries[i]
    BY <2>1
  <2>3. ASSUME NEW g \in Handles, open'[g] # None
        PROVE  \E i \in DOMAIN entries' : entries'[i] = [sock |-> g, event |-> open'[g]]
    <3>1. CASE g = h
      <4>1. Len(entries) + 1 \in DOMAIN entries' /\ open'[g] = c
        BY <2>1, <2>2, <3>1
      <4> QED
        BY <2>2, <3>1, <4>1
    <3>2. CASE g # h
      <4>1. PICK i \in DOMAIN entries : entries[i] = [sock |-> g, event |-> open[g]]
        BY <2>1, <2>3, <3>2
      <4>2. i \in DOMAIN entries' /\ entries'[i] = [sock |-> g, event |-> open'[g]]
        BY <2>1, <2>2, <3>2, <4>1
      <4> QED
        BY <4>2
    <3> QED
      BY <3>1, <3>2
  <2> QED
    BY <2>3
<1>2. CASE Leave
  <2>1. \A g \in Handles : open'[g] # None => open'[g] = open[g]
    BY <1>2 DEF Leave, CloseSocket
  <2> QED
    BY <1>2, <2>1 DEF Leave
<1>3. CASE Drop
  <2>1. main.idx \in 1..Len(entries) /\ Sock \in Handles
    BY <1>3, SockIsHandle DEF Drop
  <2>2. entries' = RemoveAt(entries, main.idx) /\ open' = [open EXCEPT ![Sock] = None]
    BY <1>3 DEF Drop, CloseSocket
  <2>3. ASSUME NEW g \in Handles, open'[g] # None
        PROVE  \E i \in DOMAIN entries' : entries'[i] = [sock |-> g, event |-> open'[g]]
    <3>1. g # Sock /\ open'[g] = open[g]
      BY <2>1, <2>2, <2>3
    <3>2. PICK i \in DOMAIN entries : entries[i] = [sock |-> g, event |-> open[g]]
      BY <2>3, <3>1
    <3>3. i # main.idx
      BY <3>1, <3>2 DEF Sock
    <3>4. \E j \in DOMAIN RemoveAt(entries, main.idx) :
            RemoveAt(entries, main.idx)[j] = entries[i]
      <4>1. entries \in Seq([sock : Handles \cup {Listener}, event : Conns \cup {Listener}])
            /\ i \in 1..Len(entries)
        BY <3>2
      <4> HIDE DEF TypeOK
      <4> QED
        BY <2>1, <3>3, <4>1, RemoveKeepsOthers
    <3> QED
      BY <2>2, <3>1, <3>2, <3>4
  <2> QED
    BY <2>3
<1>4. CASE UNCHANGED <<entries, open>>
  BY <1>4
<1> QED
  BY <1>1, <1>2, <1>3, <1>4
  DEF Next, Main, Wait, Enum, Echo, Stop, Connect, Withdraw, Send, Hangup, vars, net

-----------------------------------------------------------------------------
(***************************************************************************)
(* Wake-ups.                                                               *)
(***************************************************************************)
\* The connection behind an open handle, and whose handle it is.
LEMMA OpenConn ==
  ASSUME TypeOK, OwnersDiffer, NEW h \in Handles, open[h] # None
  PROVE  /\ open[h] \in Conns /\ open[h] # Listener /\ peer[open[h]] \in {"open", "gone"}
         /\ \A g \in Handles \ {h} : open[g] # open[h]
BY NamesAssumption DEF TypeOK, OwnersDiffer

\* The event the server works for is of its own handle, or of no open one.
LEMMA EventIsOfSock ==
  ASSUME TypeOK, EntriesOK, EveryOpenHasEntry, NEW h \in Handles, open[h] # None,
         main.pc = "enum", entries[main.idx].event = open[h]
  PROVE  Sock = h
<1>1. PICK i \in DOMAIN entries : entries[i] = [sock |-> h, event |-> open[h]]
  BY DEF EveryOpenHasEntry
<1>2. entries[i].event = open[h] /\ entries[i].sock = h
  BY <1>1
<1>3. main.idx = i
  BY <1>2, SockIsHandle DEF EntriesOK
<1> QED
  BY <1>2, <1>3 DEF Sock

\* A step that does not touch a connection leaves it noted.
LEMMA UntouchedStaysNoted ==
  ASSUME NEW c, Noted(c), recorded'[c] = recorded[c], inbox'[c] = inbox[c], peer'[c] = peer[c],
         c \in enabled => c \in enabled', c \in signalled => c \in signalled',
         main.pc = "enum" /\ entries[main.idx].event = c => UNCHANGED <<main, entries>>
  PROVE  Noted(c)'
BY DEF Noted

\* Every step keeps what is noted, or makes the handle busy.
LEMMA NotedStep ==
  ASSUME TypeOK, EntriesOK, OwnersDiffer, EveryOpenHasEntry, AllNoted, [Next]_vars
  PROVE  AllNoted'
<1> SUFFICES ASSUME NEW h \in Handles, NEW c, c = open'[h], c # None, ~Busy(h)'
             PROVE  Noted(c)'
  BY DEF AllNoted
<1>1. CASE Wait
  <2>1. /\ open' = open /\ enabled' = enabled /\ recorded' = recorded /\ peer' = peer
        /\ inbox' = inbox /\ entries' = entries /\ main.pc = "wait"
        /\ signalled' = signalled \ {entries[Min(Ready)].event}
        /\ main'.pc = (IF Min(Ready) = 1 THEN "accept" ELSE "enum") /\ main'.idx = Min(Ready)
    BY <1>1 DEF Wait, net
  <2>2. Noted(c)
    BY <2>1 DEF AllNoted, Busy
  <2>3. entries[1].event # c
    BY <2>1, OpenConn DEF EntriesOK
  <2> QED
    BY <2>1, <2>2, <2>3 DEF Noted
<1>2. CASE Stop
  <2>1. /\ open' = open /\ enabled' = enabled /\ recorded' = recorded /\ peer' = peer
        /\ inbox' = inbox /\ signalled' = signalled /\ main.pc \in {"wait", "accept"}
    BY <1>2 DEF Stop, net
  <2>2. Noted(c)
    BY <2>1 DEF AllNoted, Busy
  <2> QED
    BY <2>1, <2>2, UntouchedStaysNoted
<1>3. ASSUME NEW d \in Conns, NEW g \in Handles, Accept(d, g)
      PROVE  Noted(c)'
  <2>1. /\ main.pc = "accept" /\ peer[d] \in {"queued", "left"} /\ main' = Waiting
        /\ open' = [open EXCEPT ![g] = d] /\ inbox' = inbox
        /\ recorded' = [recorded EXCEPT ![d] = Happened(d)]
        /\ peer' = [peer EXCEPT ![d] = IF @ = "left" THEN "gone" ELSE "open"]
        /\ Happened(d) # {} => d \in signalled'
        /\ inbox[d] > 0 \/ d \in enabled'
        /\ \A e \in Conns \cup {Listener} : e \in enabled => e \in enabled'
        /\ \A e \in Conns \cup {Listener} : e \in signalled => e \in signalled'
    BY <1>3 DEF Accept, Queued
  <2>2. CASE h = g
    <3>1. c = d /\ recorded'[d] = Happened(d) /\ inbox'[d] = inbox[d] /\ inbox[d] \in Nat
      BY <2>1, <2>2, LimitsAssumption DEF TypeOK
    <3>2. peer'[d] = "gone" => peer[d] = "left"
      BY <2>1 DEF TypeOK
    <3> QED
      BY <2>1, <3>1, <3>2 DEF Noted, Happened
  <2>3. CASE h # g
    <3>1. open[h] = c /\ Noted(c)
      BY <2>1, <2>3 DEF TypeOK, AllNoted, Busy
    <3>2. c \in Conns /\ c # d
      BY <2>1, <3>1, OpenConn
    <3>3. recorded'[c] = recorded[c] /\ peer'[c] = peer[c] /\ inbox'[c] = inbox[c]
      BY <2>1, <3>2 DEF TypeOK
    <3> QED
      BY <2>1, <3>1, <3>2, <3>3, UntouchedStaysNoted
  <2> QED
    BY <2>2, <2>3
<1>4. CASE Enum
  <2>1. PICK happened \in IF Conn = None THEN SUBSET {"read", "close"} ELSE {recorded[Conn]} :
          main' = [main EXCEPT !.pc = After(happened), !.net = happened]
    BY <1>4 DEF Enum
  <2>2. /\ main.pc = "enum" /\ entries' = entries /\ open' = open /\ enabled' = enabled
        /\ peer' = peer /\ inbox' = inbox
        /\ recorded' = [d \in Conns |-> IF d = Conn THEN {} ELSE recorded[d]]
        /\ signalled' = IF Conn = None THEN signalled ELSE signalled \ {entries[main.idx].event}
    BY <1>4 DEF Enum
  <2>3. main'.pc = After(happened) /\ main'.idx = main.idx
    BY <2>1 DEF TypeOK
  <2>4. c \in Conns /\ open[h] = c /\ Noted(c)
    BY <2>2, OpenConn DEF AllNoted, Busy
  <2>5. CASE h = Sock
    <3>1. Conn = c /\ happened = recorded[c] /\ recorded'[c] = {}
      BY <2>1, <2>2, <2>4, <2>5 DEF Conn
    <3>2. After(happened) = "wait"
      BY <2>2, <2>3, <2>5 DEF Busy, Sock, After
    <3>3. "read" \notin recorded[c] /\ "close" \notin recorded[c]
      BY <3>1, <3>2 DEF After
    <3> QED
      BY <2>2, <2>4, <3>1, <3>3 DEF Noted
  <2>6. CASE h # Sock
    <3>1. Sock \in Handles /\ c # Conn
      BY <2>2, <2>4, <2>6, SockIsHandle, OpenConn DEF Conn
    <3>2. recorded'[c] = recorded[c] /\ entries[main.idx].event # c
      BY <2>2, <2>4, <2>6, <3>1, EventIsOfSock
    <3> QED
      BY <2>2, <2>4, <3>2, UntouchedStaysNoted
  <2> QED
    BY <2>5, <2>6
<1>5. CASE Echo
  <2>1. main.pc = "handle" /\ UNCHANGED <<main, entries, open, peer>>
    BY <1>5 DEF Echo
  <2>2. h # Sock /\ Sock \in Handles /\ open[h] = c
    BY <2>1, SockIsHandle DEF Busy, Sock
  <2>3. c \in Conns /\ c # Conn /\ Conn \in Conns /\ Noted(c)
    BY <1>5, <2>1, <2>2, OpenConn, SockIsHandle DEF Conn, AllNoted, Busy, Echo
  <2>4. /\ recorded'[c] = recorded[c] /\ inbox'[c] = inbox[c]
        /\ (c \in enabled => c \in enabled') /\ (c \in signalled => c \in signalled')
    BY <1>5, <2>3 DEF Echo, TypeOK
  <2> QED
    BY <2>1, <2>2, <2>3, <2>4, UntouchedStaysNoted
<1>6. CASE Leave \/ Drop
  <2>1. /\ main.pc \in {"handle", "close"} /\ CloseSocket(Sock)
        /\ UNCHANGED <<signalled, peer, inbox>> /\ Sock \in Handles
    BY <1>6, SockIsHandle DEF Leave, Drop
  <2>2. h # Sock /\ open[h] = c /\ c # None
    BY <2>1 DEF CloseSocket, TypeOK
  <2>3. c \in Conns /\ c # open[Sock] /\ Noted(c)
    BY <2>1, <2>2, OpenConn DEF AllNoted, Busy
  <2>4. recorded'[c] = recorded[c] /\ (c \in enabled => c \in enabled')
    BY <2>1, <2>3 DEF CloseSocket
  <2> QED
    BY <2>1, <2>2, <2>3, <2>4, UntouchedStaysNoted
<1>7. ASSUME UNCHANGED <<main, entries, open>>
      PROVE  c \in Conns /\ open[h] = c /\ Noted(c) /\ peer[c] \in {"open", "gone"} /\ c # Listener
  BY <1>7, OpenConn DEF AllNoted, Busy, Sock
<1>8. ASSUME NEW d \in Conns, Connect(d) \/ Withdraw(d)
      PROVE  Noted(c)'
  <2>1. /\ UNCHANGED <<main, entries, open, recorded, inbox>> /\ peer[d] \in {"new", "queued"}
        /\ \A e \in Conns : e \in enabled /\ e # Listener => e \in enabled'
        /\ \A e \in Conns : e \in signalled => e \in signalled'
        /\ \A e \in Conns \ {d} : peer'[e] = peer[e]
    BY <1>8 DEF Connect, Withdraw, TypeOK
  <2>2. c \in Conns /\ open[h] = c /\ Noted(c) /\ c # d /\ c # Listener
    BY <1>7, <2>1
  <2> QED
    BY <2>1, <2>2, UntouchedStaysNoted
<1>9. ASSUME NEW d \in Conns, Send(d)
      PROVE  Noted(c)'
  <2>1. /\ UNCHANGED <<main, entries, open, peer>>
        /\ \A e \in Conns \ {d} : inbox'[e] = inbox[e]
        /\ IF d \in enabled THEN Post(d, "read") /\ enabled' = enabled \ {d}
           ELSE UNCHANGED <<recorded, signalled, enabled>>
    BY <1>9 DEF Send, TypeOK
  <2>2. c \in Conns /\ open[h] = c /\ Noted(c)
    BY <1>7, <2>1
  <2>3. CASE c = d
    <3>1. CASE d \in enabled
      <4>1. recorded'[c] = recorded[c] \cup {"read"} /\ c \in signalled'
        BY <2>1, <2>2, <2>3, <3>1 DEF Post, TypeOK
      <4> QED
        BY <2>1, <2>2, <4>1 DEF Noted
    <3>2. CASE d \notin enabled
      BY <2>1, <2>2, <2>3, <3>2 DEF Noted
    <3> QED
      BY <3>1, <3>2
  <2>4. CASE c # d
    <3>1. /\ recorded'[c] = recorded[c] /\ inbox'[c] = inbox[c]
          /\ (c \in enabled => c \in enabled') /\ (c \in signalled => c \in signalled')
      BY <2>1, <2>2, <2>4 DEF Post, TypeOK
    <3> QED
      BY <2>1, <2>2, <3>1, UntouchedStaysNoted
  <2> QED
    BY <2>3, <2>4
<1>10. ASSUME NEW d \in Conns, Hangup(d)
       PROVE  Noted(c)'
  <2>1. /\ UNCHANGED <<main, entries, open, enabled, inbox>>
        /\ \A e \in Conns \ {d} : peer'[e] = peer[e]
        /\ IF IsOpen(d) THEN Post(d, "close") ELSE UNCHANGED <<recorded, signalled>>
    BY <1>10 DEF Hangup, TypeOK
  <2>2. c \in Conns /\ open[h] = c /\ Noted(c)
    BY <1>7, <2>1
  <2>3. CASE c = d
    <3>1. recorded'[c] = recorded[c] \cup {"close"} /\ c \in signalled'
      BY <2>1, <2>2, <2>3 DEF Post, TypeOK, IsOpen
    <3> QED
      BY <2>1, <2>2, <3>1 DEF Noted
  <2>4. CASE c # d
    <3>1. recorded'[c] = recorded[c] /\ (c \in signalled => c \in signalled')
      BY <2>1, <2>2, <2>4 DEF Post, TypeOK
    <3> QED
      BY <2>1, <2>2, <2>4, <3>1, UntouchedStaysNoted
  <2> QED
    BY <2>3, <2>4
<1>11. CASE UNCHANGED vars
  <2>1. /\ UNCHANGED <<main, entries, open>> /\ UNCHANGED <<signalled, enabled>>
        /\ UNCHANGED <<recorded, peer, inbox>>
    BY <1>11 DEF vars, net
  <2>2. open[h] = c /\ Noted(c)
    BY <1>7, <2>1
  <2> QED
    BY <2>1, <2>2, UntouchedStaysNoted
<1> QED
  BY <1>1, <1>2, <1>3, <1>4, <1>5, <1>6, <1>8, <1>9, <1>10, <1>11 DEF Next, Main

-----------------------------------------------------------------------------
(***************************************************************************)
(* The theorems.                                                           *)
(***************************************************************************)
LEMMA InitIInv == Init => IInv
<1> SUFFICES ASSUME Init PROVE IInv
  OBVIOUS
<1> USE DEF Init, Waiting
<1>1. TypeOK
  <2>1. 0 \in 0..MaxMessages
    BY LimitsAssumption
  <2>2. entries \in Seq([sock : Handles \cup {Listener}, event : Conns \cup {Listener}])
        /\ DOMAIN entries = {1}
    OBVIOUS
  <2> QED
    BY <2>1, <2>2 DEF TypeOK
<1>2. EntriesOK
  BY DEF EntriesOK
<1>3. OwnersDiffer /\ UnreadWasSent /\ EveryOpenHasEntry /\ AllNoted
  BY DEF OwnersDiffer, UnreadWasSent, EveryOpenHasEntry, AllNoted
<1> QED
  BY <1>1, <1>2, <1>3 DEF IInv

\* Every step of the server, of a client or of the network keeps the invariant.
LEMMA NextIInv == IInv /\ [Next]_vars => IInv'
BY TypeStep, EntriesStep, OwnersStep, UnreadStep, HasEntryStep, NotedStep DEF IInv

LEMMA InvariantHolds == Spec => []IInv
BY InitIInv, NextIInv, PTL DEF Spec

\* What eventArray and socketArray hold always has its type (lines 50-141).
THEOREM TypeCorrect == Spec => []TypeOK
<1>1. IInv => TypeOK
  BY DEF IInv
<1> QED
  BY <1>1, InvariantHolds, PTL

\* While the server waits, every open connection has exactly one entry with
\* its handle and its event, whatever entries its handle has from earlier
\* connections (lines 119-120, 135-138).
THEOREM EveryOpenIsWatched == Spec => []OpenIsWatched
<1>1. IInv => OpenIsWatched
  <2> SUFFICES ASSUME IInv, NEW h \in Handles, open[h] # None
               PROVE  Cardinality({i \in DOMAIN entries :
                                     entries[i] = [sock |-> h, event |-> open[h]]}) = 1
    BY DEF OpenIsWatched
  <2> DEFINE e == [sock |-> h, event |-> open[h]]
             S == {i \in DOMAIN entries : entries[i] = e}
  <2>1. PICK i \in DOMAIN entries : entries[i] = e
    BY DEF IInv, EveryOpenHasEntry
  <2>2. \A j \in S : j = i
    BY <2>1 DEF IInv, EntriesOK
  <2>3. S = {i}
    BY <2>1, <2>2
  <2> HIDE DEF S
  <2>4. Cardinality(S) = 1
    BY <2>3, FS_Singleton
  <2> QED
    BY <2>4 DEF S
<1> QED
  BY <1>1, InvariantHolds, PTL

\* No wake-up is lost, although HandleClient leaves entries behind whose
\* events are enumerated against sockets of others (lines 96-103, 127).
THEOREM NoWakeupIsLost == Spec => []NoLostWakeup
<1>1. IInv => NoLostWakeup
  <2> SUFFICES ASSUME IInv, main.pc = "wait", NEW h \in Handles, open[h] # None,
                      inbox[open[h]] > 0 \/ peer[open[h]] = "gone"
               PROVE  open[h] \in signalled
    BY DEF NoLostWakeup
  <2>1. Noted(open[h])
    BY DEF IInv, AllNoted, Busy
  <2>2. inbox[open[h]] > 0 => ~(inbox[open[h]] = 0)
    OBVIOUS
  <2> QED
    BY <2>1, <2>2 DEF Noted
<1> QED
  BY <1>1, InvariantHolds, PTL
=============================================================================
