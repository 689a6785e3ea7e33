--------------------------- MODULE ChatServerProofs ---------------------------
(***************************************************************************)
(* For any number of connections, descriptors and messages: the array      *)
(* clients stays exact although descriptors are closed before they are     *)
(* taken out of it, and what a client says reaches all the others.         *)
(***************************************************************************)
EXTENDS ChatServer, FiniteSetTheorems, SequenceTheorems, WellFoundedInduction, TLAPS

(***************************************************************************)
(* What is left out by the properties themselves.                          *)
(***************************************************************************)
\* A connection has one descriptor.
FdsDiffer == \A f, g \in Fds : fds[f] = fds[g] /\ fds[f] # None => f = g

\* The connection main has accepted is behind its descriptor, and nobody
\* serves it yet.
MainHolds ==
  main.pc # "accept" =>
    /\ main.fd \in Fds /\ main.conn \in Conns /\ fds[main.fd] = main.conn
    /\ handler[main.conn].pc = "none" /\ main.conn \notin unserved

\* Until it closes it, a thread's descriptor stands for its client; and the
\* mutex is held while a message is passed on, and only then.
ThreadHolds ==
  \A c \in Conns :
    /\ handler[c].pc # "none" => handler[c].sock \in Fds /\ c \notin unserved
    /\ handler[c].pc \in {"recv", "lock", "send"} => fds[handler[c].sock] = c
    /\ handler[c].pc \in {"lock", "send"} => handler[c].msg \in 1..MaxMessages
    /\ handler[c].pc = "send" <=> mutex = c
    /\ handler[c].i # 0

NewIsUnknown ==
  \A c \in Conns : peer[c] = "new" =>
    handler[c].pc = "none" /\ c \notin unserved /\ \A f \in Fds : fds[f] # c

NotToSender == \A c \in Conns, n \in 1..MaxMessages : <<c, n>> \notin ToSet(delivered[c])

\* Connection d is there, listed under descriptor f, and not its own sender.
Awaits(d, f) ==
  /\ peer[d] = "open"
  /\ \/ handler[d].pc \in {"recv", "lock"} /\ handler[d].sock = f
     \/ main.pc = "create" /\ main.conn = d /\ main.fd = f

\* While c's message is passed on, whoever awaits it stands in the part of the
\* array that the loop has yet to visit, or has it.
Covered ==
  \A c \in Conns : handler[c].pc = "send" =>
    \A d \in Conns \ {c}, f \in Fds : Awaits(d, f) =>
      \/ \E j \in DOMAIN clients : j >= handler[c].i /\ clients[j] = f
      \/ <<c, handler[c].msg>> \in ToSet(delivered[d])

Holds == FdsDiffer /\ MainHolds /\ ThreadHolds /\ NewIsUnknown
IInv == TypeOK /\ Holds /\ ArrayExact /\ NotToSender /\ Covered

\* The places where the array s holds f.
Places(s, f) == {i \in DOMAIN s : s[i] = f}

-----------------------------------------------------------------------------
(***************************************************************************)
(* The operators the steps are built from.                                 *)
(***************************************************************************)
\* The least of some indexes is one of them.
LEMMA LeastIndex ==
  ASSUME NEW S, S \subseteq Nat, S # {}
  PROVE  Min(S) \in S
<1> DEFINE R == {p \in Nat \X Nat : p[1] < p[2]}
<1>1. R = OpToRel(<, Nat)
  BY DEF OpToRel
<1>2. PICK x \in S : \A y \in S : ~(<<y, x>> \in R)
  BY <1>1, NatLessThanWellFounded, WFMin, Zenon
<1>3. ASSUME NEW y \in S PROVE x <= y
  <2>1. y < x => <<y, x>> \in R
    OBVIOUS
  <2> QED BY <1>2, <2>1
<1> QED BY <1>3 DEF Min

LEMMA PlacesFinite ==
  ASSUME NEW T, NEW s \in Seq(T), NEW f
  PROVE  Places(s, f) \subseteq 1..Len(s) /\ IsFiniteSet(Places(s, f))
<1>1. Places(s, f) \subseteq 1..Len(s) /\ Len(s) \in Nat
  BY DEF Places
<1>2. IsFiniteSet(1..Len(s))
  BY <1>1, FS_Interval
<1> QED
  BY <1>1, <1>2, FS_Subset

\* Line 101: the last place is f's, the others stay what they were.
LEMMA AppendCounts ==
  ASSUME NEW T, NEW s \in Seq(T), NEW f \in T, NEW g \in T
  PROVE  Cardinality(Places(Append(s, f), g)) = Cardinality(Places(s, g)) + IF g = f THEN 1 ELSE 0
<1> DEFINE n == Len(s) + 1
           t == Append(s, f)
<1>1. /\ Len(s) \in Nat /\ DOMAIN s = 1..Len(s) /\ DOMAIN t = 1..n /\ t[n] = f
      /\ \A i \in 1..Len(s) : t[i] = s[i]
  OBVIOUS
<1>2. IsFiniteSet(Places(s, g)) /\ n \notin Places(s, g)
  <2>1. Places(s, g) \subseteq 1..Len(s) /\ IsFiniteSet(Places(s, g))
    BY PlacesFinite
  <2> QED
    BY <1>1, <2>1
<1> HIDE DEF t
<1>3. CASE g = f
  <2>1. Places(t, g) = Places(s, g) \cup {n}
    BY <1>1, <1>3 DEF Places
  <2> HIDE DEF n
  <2>2. Cardinality(Places(t, g)) = Cardinality(Places(s, g)) + 1
    BY <1>2, <2>1, FS_AddElement
  <2> QED
    BY <1>3, <2>2 DEF t
<1>4. CASE g # f
  <2>1. Places(t, g) = Places(s, g)
    BY <1>1, <1>4 DEF Places
  <2>2. Cardinality(Places(s, g)) \in Nat
    BY <1>2, FS_CardinalityType
  <2> QED
    BY <1>4, <2>1, <2>2 DEF t
<1> QED
  BY <1>3, <1>4

\* Lines 49-55: f is in the array once less, and everybody else as often as
\* before, wherever the last entry went.
LEMMA TakeOutCounts ==
  ASSUME NEW T, NEW s \in Seq(T), NEW f \in ToSet(s), NEW g \in T
  PROVE  /\ TakeOut(s, f) \in Seq(T)
         /\ Cardinality(Places(TakeOut(s, f), g)) = Cardinality(Places(s, g)) - IF g = f THEN 1 ELSE 0
<1> DEFINE I == {i \in 1..Len(s) : s[i] = f}
           n == Len(s)
           m == Min(I)
           r == [s EXCEPT ![m] = s[n]]
           t == SubSeq(r, 1, n - 1)
<1>1. n \in Nat /\ DOMAIN s = 1..n /\ I # {} /\ I \subseteq Nat
  BY DEF ToSet
<1>2. m \in 1..n /\ s[m] = f /\ n \in 1..n
  <2>1. m \in I
    BY <1>1, LeastIndex, Zenon
  <2> QED
    BY <1>1, <2>1
<1>3. TakeOut(s, f) = t
  <2>1. SelectInSeq(s, LAMBDA h : h = f) = m
    BY <1>1 DEF SelectInSeq
  <2> QED
    BY <2>1 DEF TakeOut, Last
<1> HIDE DEF m, I
<1>4. r \in Seq(T) /\ Len(r) = n /\ \A i \in 1..n : r[i] = IF i = m THEN s[n] ELSE s[i]
  BY <1>1, <1>2
<1> HIDE DEF r
<1>5. /\ t \in Seq(T) /\ DOMAIN t = 1..n-1
      /\ \A i \in 1..n-1 : t[i] = IF i = m THEN s[n] ELSE s[i]
  <2>1. /\ t \in Seq(T) /\ Len(t) = n - 1 /\ \A i \in 1..n-1 : t[i] = r[i]
    BY <1>1, <1>2, <1>4, SubSeqProperties
  <2> QED
    BY <1>1, <1>2, <1>4, <2>1
<1> HIDE DEF t
<1> DEFINE old == Places(s, g)
           new == Places(t, g)
<1>6. /\ IsFiniteSet(old) /\ Cardinality(old) \in Nat
      /\ \A i : i \in old <=> i \in 1..n /\ s[i] = g
      /\ \A i : i \in new <=> i \in 1..n-1 /\ (IF i = m THEN s[n] ELSE s[i]) = g
  BY <1>1, <1>5, PlacesFinite, FS_CardinalityType DEF Places
<1> HIDE DEF old, new, n
<1>7. n \in Nat /\ 1..n-1 = 1..n \ {n} 
  BY <1>1 DEF n
<1>8. CASE g = f
  <2>1. PICK k \in old : new = old \ {k}
    <3>1. CASE s[n] = f
      <4>1. n \in old /\ new = old \ {n}
        BY <1>2, <1>6, <1>7, <1>8, <3>1
      <4> QED
        BY <4>1
    <3>2. CASE s[n] # f
      <4>1. m \in old /\ new = old \ {m}
        BY <1>2, <1>6, <1>7, <1>8, <3>2
      <4> QED
        BY <4>1
    <3> QED
      BY <3>1, <3>2
  <2>2. Cardinality(new) = Cardinality(old) - 1
    BY <1>6, <2>1, FS_RemoveElement
  <2> QED
    BY <1>3, <1>5, <1>8, <2>2 DEF new, old
<1>9. CASE g # f
  <2>1. Cardinality(new) = Cardinality(old)
    <3>1. CASE s[n] = g
      <4>1. n \in old /\ m \notin old \ {n} /\ new = (old \ {n}) \cup {m}
        BY <1>2, <1>6, <1>7, <1>9, <3>1
      <4>2. /\ IsFiniteSet(old \ {n})
            /\ Cardinality(old \ {n}) = Cardinality(old) - 1
        BY <1>6, <4>1, FS_RemoveElement
      <4>3. Cardinality(new) = Cardinality(old \ {n}) + 1
        BY <4>1, <4>2, FS_AddElement
      <4> QED
        BY <1>6, <4>2, <4>3
    <3>2. CASE s[n] # g
      <4>1. new = old
        BY <1>2, <1>6, <1>7, <1>9, <3>2
      <4> QED
        BY <4>1
    <3> QED
      BY <3>1, <3>2
  <2> QED
    BY <1>3, <1>5, <1>6, <1>9, <2>1 DEF new, old
<1> QED
  BY <1>8, <1>9

\* Who is listed are finitely many connections.
LEMMA ListedFinite ==
  ASSUME NEW f
  PROVE  IsFiniteSet(Listed(f)) /\ Cardinality(Listed(f)) \in Nat
<1>1. IsFiniteSet(Conns)
  BY BoundsAssumption, FS_Interval DEF Conns
<1>2. Listed(f) \subseteq Conns
  BY DEF Listed
<1> QED
  BY <1>1, <1>2, FS_Subset, FS_CardinalityType

\* So whoever is listed under f finds f in the array.
LEMMA ListedIsThere ==
  ASSUME TypeOK, ArrayExact, NEW f \in Fds, Listed(f) # {}
  PROVE  (\E j \in DOMAIN clients : clients[j] = f) /\ f \in ToSet(clients)
<1>1. Cardinality(Places(clients, f)) = Cardinality(Listed(f))
  BY DEF ArrayExact, Places
<1>2. Cardinality(Listed(f)) # 0
  BY ListedFinite, FS_EmptySet
<1>3. Places(clients, f) # {}
  BY <1>1, <1>2, FS_EmptySet
<1> QED
  BY <1>3 DEF Places, ToSet

-----------------------------------------------------------------------------
(***************************************************************************)
(* What the steps of a thread change of it.                                *)
(***************************************************************************)
\* One thread's record changes: its program counter, and what goes with it.
Only(c, pc) ==
  /\ \A d \in Conns \ {c} : handler'[d] = handler[d]
  /\ handler'[c].pc = pc /\ handler'[c].sock = handler[c].sock

LEMMA ThreadSteps ==
  ASSUME TypeOK, NEW c \in Conns
  PROVE  /\ Recv(c) => Only(c, "lock") /\ handler'[c].msg = sentBy[c] + 1
                                       /\ handler'[c].i = handler[c].i
         /\ LockToSend(c) => Only(c, "send") /\ handler'[c].msg = handler[c].msg /\ handler'[c].i = 1
         /\ SendOne(c) => /\ Only(c, "send") /\ handler'[c].msg = handler[c].msg
                          /\ handler'[c].i = handler[c].i + 1
         /\ UnlockAfterSend(c) => Only(c, "recv") /\ handler'[c].i = handler[c].i
         /\ Close(c) => Only(c, "remove") /\ handler'[c].i = handler[c].i
         /\ Deregister(c) => Only(c, "done") /\ handler'[c].i = handler[c].i
<1> USE DEF TypeOK, Only, At, Goto
<1>1. Recv(c) => Only(c, "lock") /\ handler'[c].msg = sentBy[c] + 1 /\ handler'[c].i = handler[c].i
  BY DEF Recv
<1>2. LockToSend(c) => Only(c, "send") /\ handler'[c].msg = handler[c].msg /\ handler'[c].i = 1
  BY DEF LockToSend
<1>3. SendOne(c) => /\ Only(c, "send") /\ handler'[c].msg = handler[c].msg
                    /\ handler'[c].i = handler[c].i + 1
  BY DEF SendOne
<1>4. UnlockAfterSend(c) => Only(c, "recv") /\ handler'[c].i = handler[c].i
  BY DEF UnlockAfterSend
<1>5. Close(c) => Only(c, "remove") /\ handler'[c].i = handler[c].i
  BY DEF Close
<1>6. Deregister(c) => Only(c, "done") /\ handler'[c].i = handler[c].i
  BY DEF Deregister
<1> QED
  BY <1>1, <1>2, <1>3, <1>4, <1>5, <1>6

\* What a turn of the loop delivers, and to whom (lines 19-23).
LEMMA SendOneDelivers ==
  ASSUME TypeOK, ThreadHolds, NEW c \in Conns, SendOne(c)
  PROVE  LET f == clients[handler[c].i] IN
         /\ f \in Fds /\ handler[c].i \in DOMAIN clients
         /\ \A d \in Conns : delivered'[d] =
              IF f # handler[c].sock /\ fds[f] = d /\ peer[d] = "open"
              THEN Append(delivered[d], <<c, handler[c].msg>>) ELSE delivered[d]
<1> DEFINE f == clients[handler[c].i]
           reached == IF Skips(c, f) THEN {} ELSE {fds[f]} \ {None}
<1>1. handler[c].pc = "send" /\ handler[c].i \in DOMAIN clients /\ f \in Fds
  BY DEF TypeOK, ThreadHolds, SendOne, At
<1>2. delivered' = [d \in Conns |-> IF d \in reached /\ peer[d] = "open"
                                    THEN Append(delivered[d], <<c, handler[c].msg>>)
                                    ELSE delivered[d]]
  BY DEF SendOne
<1>3. \A d \in Conns : d \in reached <=> f # handler[c].sock /\ fds[f] = d
  BY NoneAssumption DEF Skips
<1> QED
  BY <1>1, <1>2, <1>3

-----------------------------------------------------------------------------
(***************************************************************************)
(* Types.                                                                  *)
(***************************************************************************)
\* A descriptor taken out leaves descriptors.
LEMMA TakeOutType ==
  ASSUME TypeOK, NEW f
  PROVE  TakeOut(clients, f) \in Seq(Fds)
<1>1. CASE f \in ToSet(clients)
  <2>1. clients \in Seq(Fds)
    BY DEF TypeOK
  <2>2. f \in Fds
    BY <1>1, <2>1 DEF ToSet
  <2> QED
    BY <1>1, <2>1, <2>2, TakeOutCounts
<1>2. CASE f \notin ToSet(clients)
  BY <1>2 DEF TakeOut, TypeOK
<1> QED
  BY <1>1, <1>2

\* What a thread's record is built of.
Thread == [pc : {"none", "recv", "lock", "send", "remove", "done"},
           sock : Fds \cup {None}, msg : 0..MaxMessages, i : Nat]

LEMMA ThreadType ==
  ASSUME TypeOK, NEW c \in Conns,
         NEW pc \in {"none", "recv", "lock", "send", "remove", "done"},
         NEW msg \in 0..MaxMessages, NEW i \in Nat
  PROVE  /\ [handler EXCEPT ![c].pc = pc] \in [Conns -> Thread]
         /\ [handler EXCEPT ![c].pc = pc, ![c].msg = msg] \in [Conns -> Thread]
         /\ [handler EXCEPT ![c].pc = pc, ![c].i = i] \in [Conns -> Thread]
         /\ [handler EXCEPT ![c].i = i] \in [Conns -> Thread]
<1>1. handler \in [Conns -> Thread]
  BY DEF TypeOK, Thread
<1>2. [handler EXCEPT ![c].pc = pc] \in [Conns -> Thread]
  BY <1>1 DEF Thread
<1>3. [handler EXCEPT ![c].pc = pc, ![c].msg = msg] \in [Conns -> Thread]
  BY <1>1 DEF Thread
<1>4. [handler EXCEPT ![c].pc = pc, ![c].i = i] \in [Conns -> Thread]
  BY <1>1 DEF Thread
<1>5. [handler EXCEPT ![c].i = i] \in [Conns -> Thread]
  BY <1>1 DEF Thread
<1> QED
  BY <1>2, <1>3, <1>4, <1>5

\* Every step of main, of a thread or of a client keeps every variable's type.
LEMMA TypeStep ==
  ASSUME TypeOK, MainHolds, ThreadHolds, [Next]_vars
  PROVE  TypeOK'
<1>1. MaxMessages \in Nat /\ 0 \in 0..MaxMessages
  BY BoundsAssumption
<1>2. ASSUME NEW c \in Conns, Accept(c)
      PROVE  TypeOK'
  BY <1>2 DEF TypeOK, Accept
<1>3. CASE Register
  <2>1. main.fd \in Fds /\ clients' = Append(clients, main.fd)
    BY <1>3 DEF MainHolds, Register
  <2>2. clients' \in Seq(Fds)
    BY <2>1 DEF TypeOK
  <2> QED
    BY <1>3, <2>2 DEF TypeOK, Register
<1>4. CASE CreateThread
  <2>1. [NoThread EXCEPT !.pc = "recv", !.sock = main.fd] \in
          [pc : {"none", "recv", "lock", "send", "remove", "done"},
           sock : Fds \cup {None}, msg : 0..MaxMessages, i : Nat]
    BY <1>1 DEF TypeOK, NoThread
  <2> QED
    BY <1>4, <2>1 DEF TypeOK, CreateThread, Accepting
<1>5. CASE CreateThreadFails
  BY <1>5 DEF TypeOK, MainHolds, CreateThreadFails, Accepting
<1>6. CASE AcceptFails
  BY <1>6 DEF TypeOK, AcceptFails
<1>7. ASSUME NEW c \in Conns, Recv(c)
      PROVE  TypeOK'
  <2>1. sentBy[c] + 1 \in 0..MaxMessages /\ sentBy' = [sentBy EXCEPT ![c] = @ + 1]
    BY <1>1, <1>7 DEF TypeOK, Recv
  <2>2. handler' = [handler EXCEPT ![c].pc = "lock", ![c].msg = sentBy[c] + 1]
    BY <1>7 DEF Recv
  <2>3. handler' \in [Conns -> Thread] /\ sentBy' \in [Conns -> 0..MaxMessages]
    BY <2>1, <2>2, ThreadType DEF TypeOK
  <2> QED
    BY <1>7, <2>3 DEF TypeOK, Thread, Recv
<1>8. ASSUME NEW c \in Conns, LockToSend(c)
      PROVE  TypeOK'
  BY <1>8, ThreadType DEF TypeOK, Thread, LockToSend
<1>9. ASSUME NEW c \in Conns, SendOne(c)
      PROVE  TypeOK'
  <2>1. handler' = [handler EXCEPT ![c].i = handler[c].i + 1] /\ handler[c].i + 1 \in Nat
    BY <1>9 DEF TypeOK, SendOne
  <2>2. <<c, handler[c].msg>> \in Conns \X (1..MaxMessages)
    BY <1>9 DEF ThreadHolds, SendOne, At
  <2>3. \A d \in Conns : delivered'[d] \in Seq(Conns \X (1..MaxMessages))
    <3> DEFINE Sent == Conns \X (1..MaxMessages)
    <3>1. PICK e \in Sent : e = <<c, handler[c].msg>>
      BY <2>2
    <3>2. \A d \in Conns : delivered'[d] \in {delivered[d], Append(delivered[d], e)}
      BY <1>9, <3>1, SendOneDelivers
    <3>3. \A d \in Conns : delivered[d] \in Seq(Sent)
      BY DEF TypeOK
    <3> HIDE DEF Sent
    <3>4. ASSUME NEW d \in Conns PROVE delivered'[d] \in Seq(Sent)
      <4>1. delivered[d] \in Seq(Sent) /\ Append(delivered[d], e) \in Seq(Sent)
        BY <3>1, <3>3
      <4> QED
        BY <3>2, <4>1
    <3> QED
      BY <3>4 DEF Sent
  <2>4. delivered' \in [Conns -> Seq(Conns \X (1..MaxMessages))]
    BY <1>9, <2>3 DEF SendOne
  <2>5. up' \in BOOLEAN /\ UNCHANGED <<main, mutex, clients, fds, peer, sentBy, unserved>>
    BY <1>9 DEF SendOne
  <2> QED
    BY <1>1, <2>1, <2>4, <2>5, ThreadType DEF TypeOK, Thread
<1>10. ASSUME NEW c \in Conns, UnlockAfterSend(c)
       PROVE  TypeOK'
  BY <1>1, <1>10, ThreadType DEF TypeOK, Thread, UnlockAfterSend
<1>11. ASSUME NEW c \in Conns, Close(c)
       PROVE  TypeOK'
  BY <1>11, ThreadType DEF TypeOK, Thread, Close, Goto
<1>12. ASSUME NEW c \in Conns, Deregister(c)
       PROVE  TypeOK'
  BY <1>12, ThreadType, TakeOutType DEF TypeOK, Thread, Deregister, Goto
<1>13. ASSUME NEW c \in Conns, Leave(c)
       PROVE  TypeOK'
  BY <1>13 DEF TypeOK, Leave
<1>14. CASE UNCHANGED vars
  BY <1>14 DEF TypeOK, vars
<1> QED
  BY <1>2, <1>3, <1>4, <1>5, <1>6, <1>7, <1>8, <1>9, <1>10, <1>11, <1>12, <1>13, <1>14
  DEF Next, Main, Handler, Serve

-----------------------------------------------------------------------------
(***************************************************************************)
(* Descriptors, threads and the mutex.                                     *)
(***************************************************************************)
\* A thread's step other than Close leaves the descriptors alone, and the
\* connection main is busy with.
LEMMA ThreadStepHolds ==
  ASSUME TypeOK, Holds, NEW c \in Conns, handler[c].pc # "none",
         NEW pc \in {"recv", "lock", "send", "remove", "done"}, Only(c, pc),
         UNCHANGED <<main, peer, unserved>>,
         \A f, g \in Fds : fds'[f] = fds'[g] /\ fds'[f] # None => f = g,
         \A f \in Fds, d \in Conns : fds'[f] = d => fds[f] = d,
         \A f \in Fds, d \in Conns \ {c} : fds[f] = d => fds'[f] = d,
         pc \in {"recv", "lock", "send"} => fds'[handler[c].sock] = c,
         pc \in {"lock", "send"} => handler'[c].msg \in 1..MaxMessages,
         handler'[c].i # 0,
         pc = "send" <=> mutex' = c,
         \A d \in Conns \ {c} : mutex = d <=> mutex' = d
  PROVE  Holds'
<1>1. FdsDiffer'
  BY DEF FdsDiffer
<1>2. MainHolds'
  BY DEF Holds, MainHolds, Only
<1>3. ThreadHolds'
  <2>1. ASSUME NEW d \in Conns \ {c}
        PROVE  /\ handler'[d].pc # "none" => handler'[d].sock \in Fds /\ d \notin unserved'
               /\ handler'[d].pc \in {"recv", "lock", "send"} => fds'[handler'[d].sock] = d
               /\ handler'[d].pc \in {"lock", "send"} => handler'[d].msg \in 1..MaxMessages
               /\ handler'[d].pc = "send" <=> mutex' = d
               /\ handler'[d].i # 0
    BY DEF Holds, ThreadHolds, Only
  <2>2. /\ handler'[c].pc # "none" => handler'[c].sock \in Fds /\ c \notin unserved'
        /\ handler'[c].pc \in {"recv", "lock", "send"} => fds'[handler'[c].sock] = c
        /\ handler'[c].pc \in {"lock", "send"} => handler'[c].msg \in 1..MaxMessages
        /\ handler'[c].pc = "send" <=> mutex' = c
        /\ handler'[c].i # 0
    BY DEF Holds, ThreadHolds, Only
  <2> QED
    BY <2>1, <2>2 DEF ThreadHolds
<1>4. NewIsUnknown'
  BY DEF Holds, NewIsUnknown, Only
<1> QED
  BY <1>1, <1>2, <1>3, <1>4 DEF Holds

\* A client is accepted under a descriptor nobody had (line 97).
LEMMA AcceptHolds ==
  ASSUME TypeOK, Holds, NEW c \in Conns, Accept(c)
  PROVE  Holds'
<1>1. PICK f \in Fds : /\ fds[f] = None /\ fds' = [fds EXCEPT ![f] = c]
                       /\ main' = [pc |-> "register", fd |-> f, conn |-> c]
  BY DEF Accept
<1>2. /\ peer[c] = "new" /\ peer' = [peer EXCEPT ![c] = "open"]
      /\ UNCHANGED <<handler, mutex, unserved>>
  BY DEF Accept
<1>3. /\ handler[c].pc = "none" /\ c \notin unserved /\ \A g \in Fds : fds[g] # c
  BY <1>2 DEF Holds, NewIsUnknown
<1>4. /\ fds'[f] = c /\ \A g \in Fds \ {f} : fds'[g] = fds[g]
      /\ \A d \in Conns \ {c} : peer'[d] = peer[d] /\ peer'[c] = "open"
      /\ None # c /\ \A d \in Conns : fds[f] # d
  BY <1>1, <1>2, NoneAssumption DEF TypeOK
<1>5. FdsDiffer'
  BY <1>3, <1>4 DEF Holds, FdsDiffer
<1>6. MainHolds'
  BY <1>1, <1>2, <1>3, <1>4 DEF MainHolds
<1>7. ThreadHolds'
  <2>1. \A d \in Conns : handler[d].pc \in {"recv", "lock", "send"} => fds'[handler[d].sock] = d
    BY <1>4 DEF Holds, ThreadHolds
  <2> QED
    BY <1>2, <2>1 DEF Holds, ThreadHolds
<1>8. NewIsUnknown'
  BY <1>2, <1>4 DEF Holds, NewIsUnknown, TypeOK
<1> QED
  BY <1>5, <1>6, <1>7, <1>8 DEF Holds

\* Every step keeps it.
LEMMA HoldsStep ==
  ASSUME TypeOK, Holds, [Next]_vars
  PROVE  Holds'
<1>1. CASE Register
  <2>1. main'.fd = main.fd /\ main'.conn = main.conn /\ main.pc = "register"
    BY <1>1 DEF Register, TypeOK
  <2>2. UNCHANGED <<handler, mutex, fds, peer, unserved>>
    BY <1>1 DEF Register
  <2> QED
    BY <2>1, <2>2 DEF Holds, FdsDiffer, MainHolds, ThreadHolds, NewIsUnknown
<1>2. CASE CreateThread
  <2>1. /\ main.fd \in Fds /\ main.conn \in Conns /\ fds[main.fd] = main.conn
        /\ handler[main.conn].pc = "none" /\ main.conn \notin unserved
        /\ peer[main.conn] # "new"
    BY <1>2 DEF CreateThread, Holds, MainHolds, NewIsUnknown
  <2>2. /\ handler'[main.conn] = [pc |-> "recv", sock |-> main.fd, msg |-> 0, i |-> 1]
        /\ \A d \in Conns \ {main.conn} : handler'[d] = handler[d]
        /\ main'.pc = "accept" /\ UNCHANGED <<mutex, fds, peer, unserved>>
    BY <1>2, <2>1 DEF CreateThread, NoThread, Accepting, TypeOK
  <2>3. mutex # main.conn
    BY <2>1 DEF Holds, ThreadHolds
  <2>4. ThreadHolds'
    <3>1. /\ handler'[main.conn].pc = "recv" /\ handler'[main.conn].sock = main.fd
          /\ handler'[main.conn].i = 1
      BY <2>2
    <3>2. ASSUME NEW d \in Conns \ {main.conn}
          PROVE  /\ handler'[d].pc # "none" => handler'[d].sock \in Fds /\ d \notin unserved'
                 /\ handler'[d].pc \in {"recv", "lock", "send"} => fds'[handler'[d].sock] = d
                 /\ handler'[d].pc \in {"lock", "send"} => handler'[d].msg \in 1..MaxMessages
                 /\ handler'[d].pc = "send" <=> mutex' = d
                 /\ handler'[d].i # 0
      BY <2>2 DEF Holds, ThreadHolds
    <3> QED
      BY <2>1, <2>2, <2>3, <3>1, <3>2 DEF ThreadHolds
  <2> QED
    BY <2>1, <2>2, <2>4 DEF Holds, FdsDiffer, MainHolds, NewIsUnknown
<1>3. CASE CreateThreadFails
  <2>1. /\ main.fd \in Fds /\ main.conn \in Conns /\ fds[main.fd] = main.conn
        /\ handler[main.conn].pc = "none" /\ peer[main.conn] # "new"
    BY <1>3 DEF CreateThreadFails, Holds, MainHolds, NewIsUnknown
  <2>2. /\ unserved' = unserved \cup {main.conn} /\ main'.pc = "accept"
        /\ UNCHANGED <<handler, mutex, fds, peer>>
    BY <1>3 DEF CreateThreadFails, Accepting
  <2> QED
    BY <2>1, <2>2 DEF Holds, FdsDiffer, MainHolds, ThreadHolds, NewIsUnknown
<1>4. ASSUME NEW c \in Conns, Recv(c)
      PROVE  Holds'
  <2>1. Only(c, "lock") /\ handler'[c].msg = sentBy[c] + 1 /\ handler'[c].i = handler[c].i
    BY <1>4, ThreadSteps
  <2>2. /\ handler[c].pc = "recv" /\ UNCHANGED <<main, mutex, fds, peer, unserved>>
        /\ sentBy[c] + 1 \in 1..MaxMessages
    BY <1>4, BoundsAssumption DEF Recv, At, TypeOK
  <2> QED
    BY <2>1, <2>2, ThreadStepHolds DEF Holds, FdsDiffer, ThreadHolds
<1>5. ASSUME NEW c \in Conns, LockToSend(c)
      PROVE  Holds'
  <2>1. Only(c, "send") /\ handler'[c].msg = handler[c].msg /\ handler'[c].i = 1
    BY <1>5, ThreadSteps
  <2>2. /\ handler[c].pc = "lock" /\ UNCHANGED <<main, fds, peer, unserved>>
        /\ mutex = None /\ mutex' = c /\ \A d \in Conns : mutex # d
    BY <1>5, NoneAssumption DEF LockToSend, At
  <2> QED
    BY <2>1, <2>2, ThreadStepHolds DEF Holds, FdsDiffer, ThreadHolds
<1>6. ASSUME NEW c \in Conns, SendOne(c)
      PROVE  Holds'
  <2>1. Only(c, "send") /\ handler'[c].msg = handler[c].msg /\ handler'[c].i = handler[c].i + 1
    BY <1>6, ThreadSteps
  <2>2. handler[c].pc = "send" /\ UNCHANGED <<main, mutex, fds, peer, unserved>>
    BY <1>6 DEF SendOne, At
  <2>3. handler[c].i + 1 # 0
    BY DEF TypeOK
  <2> QED
    BY <2>1, <2>2, <2>3, ThreadStepHolds DEF Holds, FdsDiffer, ThreadHolds
<1>7. ASSUME NEW c \in Conns, UnlockAfterSend(c)
      PROVE  Holds'
  <2>1. Only(c, "recv") /\ handler'[c].i = handler[c].i
    BY <1>7, ThreadSteps
  <2>2. /\ handler[c].pc = "send" /\ UNCHANGED <<main, fds, peer, unserved>>
        /\ mutex = c /\ mutex' = None /\ \A d \in Conns : mutex' # d
    BY <1>7, NoneAssumption DEF UnlockAfterSend, At, Holds, ThreadHolds
  <2> QED
    BY <2>1, <2>2, ThreadStepHolds DEF Holds, FdsDiffer, ThreadHolds
<1>8. ASSUME NEW c \in Conns, Close(c)
      PROVE  Holds'
  <2>1. Only(c, "remove") /\ handler'[c].i = handler[c].i
    BY <1>8, ThreadSteps
  <2>2. /\ handler[c].pc = "recv" /\ UNCHANGED <<main, mutex, peer, unserved>>
        /\ fds' = [fds EXCEPT ![handler[c].sock] = None]
    BY <1>8 DEF Close, At
  <2>3. handler[c].sock \in Fds /\ fds[handler[c].sock] = c /\ mutex # c
    BY <2>2 DEF Holds, ThreadHolds
  <2>4. fds'[handler[c].sock] = None /\ \A f \in Fds \ {handler[c].sock} : fds'[f] = fds[f]
    BY <2>2, <2>3 DEF TypeOK
  <2>5. \A f, g \in Fds : fds'[f] = fds'[g] /\ fds'[f] # None => f = g
    BY <2>4 DEF Holds, FdsDiffer
  <2>6. /\ \A f \in Fds, d \in Conns : fds'[f] = d => fds[f] = d
        /\ \A f \in Fds, d \in Conns \ {c} : fds[f] = d => fds'[f] = d
    BY <2>3, <2>4, NoneAssumption
  <2>7. handler[c].i # 0
    BY DEF Holds, ThreadHolds
  <2> QED
    BY <2>1, <2>2, <2>3, <2>5, <2>6, <2>7, ThreadStepHolds
<1>9. ASSUME NEW c \in Conns, Deregister(c)
      PROVE  Holds'
  <2>1. Only(c, "done") /\ handler'[c].i = handler[c].i
    BY <1>9, ThreadSteps
  <2>2. handler[c].pc = "remove" /\ UNCHANGED <<main, mutex, fds, peer, unserved>>
    BY <1>9 DEF Deregister, At
  <2> QED
    BY <2>1, <2>2, ThreadStepHolds DEF Holds, FdsDiffer, ThreadHolds
<1>10. ASSUME NEW c \in Conns, Leave(c)
       PROVE  Holds'
  <2>1. UNCHANGED <<main, handler, mutex, fds, unserved>>
    BY <1>10 DEF Leave
  <2>2. \A d \in Conns : peer'[d] = "new" => peer[d] = "new"
    BY <1>10 DEF Leave, TypeOK
  <2> QED
    BY <2>1, <2>2 DEF Holds, FdsDiffer, MainHolds, ThreadHolds, NewIsUnknown
<1>11. CASE AcceptFails \/ UNCHANGED vars
  <2>1. UNCHANGED <<main, handler, mutex, fds, peer, unserved>>
    BY <1>11 DEF AcceptFails, vars
  <2> QED
    BY <2>1 DEF Holds, FdsDiffer, MainHolds, ThreadHolds, NewIsUnknown
<1> QED
  BY <1>1, <1>2, <1>3, <1>4, <1>5, <1>6, <1>7, <1>8, <1>9, <1>10, <1>11, AcceptHolds
  DEF Next, Main, Handler, Serve

-----------------------------------------------------------------------------
(***************************************************************************)
(* The array.                                                              *)
(***************************************************************************)
LEMMA SameArray ==
  ASSUME ArrayExact, UNCHANGED clients, \A f \in Fds : Listed(f)' = Listed(f)
  PROVE  ArrayExact'
BY DEF ArrayExact

\* The array changes by one place exactly when the list of those that should
\* stand there does.
LEMMA ArrayStep ==
  ASSUME TypeOK, Holds, ArrayExact, [Next]_vars
  PROVE  ArrayExact'
<1> USE DEF Holds
<1>1. CASE Register
  <2>1. /\ main.pc = "register" /\ main.fd \in Fds /\ main.conn \in Conns
        /\ handler[main.conn].pc = "none" /\ main.conn \notin unserved
    BY <1>1 DEF Register, MainHolds
  <2>2. /\ clients' = Append(clients, main.fd) /\ clients \in Seq(Fds)
        /\ main'.pc = "create" /\ main'.fd = main.fd /\ main'.conn = main.conn
        /\ UNCHANGED <<handler, fds, unserved>>
    BY <1>1 DEF Register, TypeOK
  <2>3. ASSUME NEW f \in Fds
        PROVE  Cardinality(Places(clients', f)) = Cardinality(Listed(f)')
    <3>1. Cardinality(Places(clients', f)) = Cardinality(Places(clients, f))
                                               + IF f = main.fd THEN 1 ELSE 0
      BY <2>1, <2>2, AppendCounts
    <3>2. Cardinality(Places(clients, f)) = Cardinality(Listed(f))
      BY DEF ArrayExact, Places
    <3>3. CASE f = main.fd
      <4>1. Listed(f)' = Listed(f) \cup {main.conn} /\ main.conn \notin Listed(f)
        BY <2>1, <2>2, <3>3 DEF Listed
      <4>2. Cardinality(Listed(f)') = Cardinality(Listed(f)) + 1
        BY <4>1, ListedFinite, FS_AddElement
      <4> QED
        BY <3>1, <3>2, <3>3, <4>2
    <3>4. CASE f # main.fd
      <4>1. Listed(f)' = Listed(f)
        BY <2>1, <2>2, <3>4 DEF Listed
      <4> QED
        BY <3>1, <3>2, <3>4, <4>1, ListedFinite
    <3> QED
      BY <3>3, <3>4
  <2> QED
    BY <2>3 DEF ArrayExact, Places
<1>2. CASE CreateThread
  <2>1. /\ main.pc = "create" /\ main.fd \in Fds /\ main.conn \in Conns
        /\ handler[main.conn].pc = "none" /\ main.conn \notin unserved
    BY <1>2 DEF CreateThread, MainHolds
  <2>2. /\ handler'[main.conn] = [pc |-> "recv", sock |-> main.fd, msg |-> 0, i |-> 1]
        /\ \A d \in Conns \ {main.conn} : handler'[d] = handler[d]
        /\ main'.pc = "accept" /\ UNCHANGED <<clients, fds, unserved>>
    BY <1>2, <2>1 DEF CreateThread, NoThread, Accepting, TypeOK
  <2>3. ASSUME NEW f \in Fds
        PROVE  Listed(f)' = Listed(f)
    <3>1. handler'[main.conn].pc = "recv" /\ handler'[main.conn].sock = main.fd
      BY <2>2
    <3>2. ASSUME NEW d \in Conns PROVE d \in Listed(f)' <=> d \in Listed(f)
      <4>1. CASE d = main.conn
        BY <2>1, <2>2, <3>1, <4>1 DEF Listed
      <4>2. CASE d # main.conn
        BY <2>1, <2>2, <4>2 DEF Listed
      <4> QED
        BY <4>1, <4>2
    <3> QED
      BY <3>2 DEF Listed
  <2> QED
    BY <2>2, <2>3, SameArray
<1>3. CASE CreateThreadFails
  <2>1. /\ main.pc = "create" /\ main.fd \in Fds /\ main.conn \in Conns
        /\ handler[main.conn].pc = "none" /\ fds[main.fd] = main.conn
    BY <1>3 DEF CreateThreadFails, MainHolds
  <2>2. /\ unserved' = unserved \cup {main.conn} /\ main'.pc = "accept"
        /\ UNCHANGED <<clients, handler, fds>>
    BY <1>3 DEF CreateThreadFails, Accepting
  <2>3. \A f \in Fds : fds[f] = main.conn <=> f = main.fd
    BY <2>1, NoneAssumption DEF FdsDiffer
  <2>4. ASSUME NEW f \in Fds
        PROVE  Listed(f)' = Listed(f)
    BY <2>1, <2>2, <2>3 DEF Listed
  <2> QED
    BY <2>2, <2>4, SameArray
<1>4. ASSUME NEW c \in Conns, Recv(c) \/ LockToSend(c) \/ SendOne(c) \/ UnlockAfterSend(c)
      PROVE  ArrayExact'
  <2>1. PICK pc \in {"recv", "lock", "send"} : Only(c, pc)
    BY <1>4, ThreadSteps
  <2>2. handler[c].pc \in {"recv", "lock", "send"} /\ UNCHANGED <<main, clients, fds, unserved>>
    BY <1>4 DEF Recv, LockToSend, SendOne, UnlockAfterSend, At
  <2>3. ASSUME NEW f \in Fds
        PROVE  Listed(f)' = Listed(f)
    BY <2>1, <2>2 DEF Only, Listed
  <2> QED
    BY <2>2, <2>3, SameArray
<1>5. ASSUME NEW c \in Conns, Close(c)
      PROVE  ArrayExact'
  <2>1. Only(c, "remove")
    BY <1>5, ThreadSteps
  <2>2. /\ handler[c].pc = "recv" /\ UNCHANGED <<main, clients, unserved>>
        /\ fds' = [fds EXCEPT ![handler[c].sock] = None]
    BY <1>5 DEF Close, At
  <2>3. fds[handler[c].sock] = c /\ c \notin unserved
    BY <2>2 DEF ThreadHolds
  <2>4. ASSUME NEW f \in Fds, NEW d \in Conns, d \in unserved
        PROVE  fds'[f] = d <=> fds[f] = d
    BY <2>2, <2>3, <2>4, NoneAssumption DEF TypeOK
  <2>5. ASSUME NEW f \in Fds
        PROVE  Listed(f)' = Listed(f)
    BY <2>1, <2>2, <2>4 DEF Only, Listed
  <2> QED
    BY <2>2, <2>5, SameArray
<1>6. ASSUME NEW c \in Conns, Deregister(c)
      PROVE  ArrayExact'
  <2> DEFINE s == handler[c].sock
  <2>1. Only(c, "done")
    BY <1>6, ThreadSteps
  <2>2. /\ handler[c].pc = "remove" /\ UNCHANGED <<main, fds, unserved>>
        /\ clients' = TakeOut(clients, s)
    BY <1>6 DEF Deregister, At
  <2>3. /\ s \in Fds /\ c \notin unserved /\ clients \in Seq(Fds)
        /\ ~(main.pc = "create" /\ main.conn = c)
    BY <2>2 DEF ThreadHolds, MainHolds, TypeOK
  <2>4. c \in Listed(s)
    BY <2>2 DEF Listed
  <2>5. s \in ToSet(clients)
    BY <2>3, <2>4, ListedIsThere
  <2>6. ASSUME NEW f \in Fds
        PROVE  Cardinality(Places(clients', f)) = Cardinality(Listed(f)')
    <3>1. Cardinality(Places(clients', f)) = Cardinality(Places(clients, f))
                                               - IF f = s THEN 1 ELSE 0
      BY <2>2, <2>3, <2>5, TakeOutCounts
    <3>2. Cardinality(Places(clients, f)) = Cardinality(Listed(f))
      BY DEF ArrayExact, Places
    <3>3. CASE f = s
      <4>1. Listed(f)' = Listed(f) \ {c} /\ c \in Listed(f)
        BY <2>1, <2>2, <2>3, <2>4, <3>3 DEF Listed, Only
      <4>2. Cardinality(Listed(f)') = Cardinality(Listed(f)) - 1
        BY <4>1, ListedFinite, FS_RemoveElement
      <4> QED
        BY <3>1, <3>2, <3>3, <4>2
    <3>4. CASE f # s
      <4>1. Listed(f)' = Listed(f)
        BY <2>1, <2>2, <2>3, <3>4 DEF Listed, Only
      <4> QED
        BY <3>1, <3>2, <3>4, <4>1, ListedFinite
    <3> QED
      BY <3>3, <3>4
  <2> QED
    BY <2>6 DEF ArrayExact, Places
<1>7. ASSUME NEW c \in Conns, Accept(c)
      PROVE  ArrayExact'
  <2>1. PICK g \in Fds : fds[g] = None /\ fds' = [fds EXCEPT ![g] = c]
    BY <1>7 DEF Accept
  <2>2. /\ main.pc = "accept" /\ main'.pc = "register" /\ c \notin unserved
        /\ UNCHANGED <<handler, clients, unserved>>
    BY <1>7 DEF Accept, NewIsUnknown
  <2>3. ASSUME NEW f \in Fds, NEW d \in Conns, d \in unserved
        PROVE  fds'[f] = d <=> fds[f] = d
    BY <2>1, <2>2, <2>3, NoneAssumption DEF TypeOK
  <2>4. ASSUME NEW f \in Fds
        PROVE  Listed(f)' = Listed(f)
    BY <2>2, <2>3 DEF Listed
  <2> QED
    BY <2>2, <2>4, SameArray
<1>8. CASE AcceptFails \/ (\E c \in Conns : Leave(c)) \/ UNCHANGED vars
  <2>1. UNCHANGED <<main, handler, clients, fds, unserved>>
    BY <1>8 DEF AcceptFails, Leave, vars
  <2>2. ASSUME NEW f \in Fds
        PROVE  Listed(f)' = Listed(f)
    BY <2>1 DEF Listed
  <2> QED
    BY <2>1, <2>2, SameArray
<1> QED
  BY <1>1, <1>2, <1>3, <1>4, <1>5, <1>6, <1>7, <1>8 DEF Next, Main, Handler, Serve

-----------------------------------------------------------------------------
(***************************************************************************)
(* What is delivered.                                                      *)
(***************************************************************************)
LEMMA AppendHasAll ==
  ASSUME NEW T, NEW s \in Seq(T), NEW e
  PROVE  ToSet(Append(s, e)) = ToSet(s) \cup {e}
<1> DEFINE t == Append(s, e)
<1>1. /\ Len(s) \in Nat /\ DOMAIN s = 1..Len(s) /\ DOMAIN t = 1..Len(s) + 1
      /\ t[Len(s) + 1] = e /\ \A i \in 1..Len(s) : t[i] = s[i]
  OBVIOUS
<1> HIDE DEF t
<1>2. \A x : (\E i \in DOMAIN t : t[i] = x) <=> (x = e \/ \E i \in DOMAIN s : s[i] = x)
  <2>1. \A i \in DOMAIN t : i \in DOMAIN s \/ i = Len(s) + 1
    BY <1>1
  <2>2. \A i \in DOMAIN s : i \in DOMAIN t
    BY <1>1
  <2>3. Len(s) + 1 \in DOMAIN t
    BY <1>1
  <2> QED
    BY <1>1, <2>1, <2>2, <2>3
<1>3. ToSet(t) = ToSet(s) \cup {e}
  BY <1>2 DEF ToSet
<1> QED
  BY <1>3 DEF t

\* One turn of the loop: whoever has its descriptor visited and is not the
\* sender has the message, and nobody loses one.
LEMMA SendOneAdds ==
  ASSUME TypeOK, ThreadHolds, NEW c \in Conns, SendOne(c), NEW d \in Conns
  PROVE  LET f == clients[handler[c].i]
             m == <<c, handler[c].msg>> IN
         ToSet(delivered'[d]) =
           IF f # handler[c].sock /\ fds[f] = d /\ peer[d] = "open"
           THEN ToSet(delivered[d]) \cup {m} ELSE ToSet(delivered[d])
<1>1. delivered[d] \in Seq(Conns \X (1..MaxMessages))
  BY DEF TypeOK
<1>2. ToSet(Append(delivered[d], <<c, handler[c].msg>>))
        = ToSet(delivered[d]) \cup {<<c, handler[c].msg>>}
  BY <1>1, AppendHasAll
<1> QED
  BY <1>2, SendOneDelivers

\* Line 20: a sender's own descriptor is passed over, and no other is its.
LEMMA NotToSenderStep ==
  ASSUME TypeOK, Holds, NotToSender, [Next]_vars
  PROVE  NotToSender'
<1>1. ASSUME NEW c \in Conns, SendOne(c)
      PROVE  NotToSender'
  <2> SUFFICES ASSUME NEW d \in Conns, NEW n \in 1..MaxMessages
               PROVE  <<d, n>> \notin ToSet(delivered'[d])
    BY DEF NotToSender
  <2>1. <<d, n>> \notin ToSet(delivered[d])
    BY DEF NotToSender
  <2>2. CASE d = c
    <3>1. handler[c].sock \in Fds /\ fds[handler[c].sock] = c /\ c # None
      BY <1>1, NoneAssumption DEF SendOne, At, Holds, ThreadHolds
    <3>2. clients[handler[c].i] \in Fds
      BY <1>1, SendOneDelivers DEF Holds
    <3>3. ~(clients[handler[c].i] # handler[c].sock /\ fds[clients[handler[c].i]] = c)
      BY <3>1, <3>2 DEF Holds, FdsDiffer
    <3> QED
      BY <1>1, <2>1, <2>2, <3>3, SendOneAdds DEF Holds
  <2>3. CASE d # c
    <3>1. <<d, n>> # <<c, handler[c].msg>>
      BY <2>3
    <3>2. \/ ToSet(delivered'[d]) = ToSet(delivered[d])
          \/ ToSet(delivered'[d]) = ToSet(delivered[d]) \cup {<<c, handler[c].msg>>}
      BY <1>1, SendOneAdds, Zenon DEF Holds
    <3> QED
      BY <2>1, <3>1, <3>2
  <2> QED
    BY <2>2, <2>3
<1>2. CASE UNCHANGED delivered
  BY <1>2 DEF NotToSender
<1> QED
  BY <1>1, <1>2
  DEF Next, Main, Handler, Serve, Accept, Register, CreateThread, CreateThreadFails, AcceptFails,
      Recv, LockToSend, UnlockAfterSend, Close, Deregister, Leave, vars

\* Who awaits a message has its descriptor to itself, and it is in the array.
LEMMA AwaitsIsListed ==
  ASSUME TypeOK, Holds, ArrayExact, NEW d \in Conns, NEW f \in Fds, Awaits(d, f)
  PROVE  fds[f] = d /\ peer[d] = "open" /\ \E j \in DOMAIN clients : clients[j] = f
<1>1. d \in Listed(f) /\ fds[f] = d
  BY DEF Awaits, Listed, Holds, MainHolds, ThreadHolds
<1> QED
  BY <1>1, ListedIsThere DEF Awaits

\* The mutex keeps the array as it is while a message is passed on, and one
\* thread at a time passes one on (lines 17-25).
LEMMA CoveredStep ==
  ASSUME TypeOK, Holds, ArrayExact, Covered, [Next]_vars
  PROVE  Covered'
<1> SUFFICES ASSUME NEW c \in Conns, handler'[c].pc = "send",
                    NEW d \in Conns \ {c}, NEW f \in Fds, Awaits(d, f)'
             PROVE  \/ \E j \in DOMAIN clients' : j >= handler'[c].i /\ clients'[j] = f
                    \/ <<c, handler'[c].msg>> \in ToSet(delivered'[d])
  BY DEF Covered
<1> USE DEF Holds
<1>1. ASSUME UNCHANGED <<clients, delivered>>, handler'[c] = handler[c], Awaits(d, f)
      PROVE  \/ \E j \in DOMAIN clients' : j >= handler'[c].i /\ clients'[j] = f
             \/ <<c, handler'[c].msg>> \in ToSet(delivered'[d])
  BY <1>1 DEF Covered
<1>2. ASSUME handler[c].pc = "send"
      PROVE  mutex = c /\ mutex # None /\ \A e \in Conns \ {c} : handler[e].pc # "send"
  BY <1>2, NoneAssumption DEF ThreadHolds
<1>3. CASE Register
  <2>1. mutex = None /\ handler' = handler
    BY <1>3 DEF Register
  <2> QED
    BY <1>2, <2>1
<1>4. CASE CreateThread
  <2>1. /\ main.pc = "create" /\ main.conn \in Conns
        /\ handler' = [handler EXCEPT ![main.conn] =
                         [NoThread EXCEPT !.pc = "recv", !.sock = main.fd]]
        /\ UNCHANGED <<clients, delivered, peer>> /\ main'.pc = "accept"
    BY <1>4 DEF CreateThread, Accepting, MainHolds
  <2>2. /\ handler'[main.conn] = [pc |-> "recv", sock |-> main.fd, msg |-> 0, i |-> 1]
        /\ \A e \in Conns \ {main.conn} : handler'[e] = handler[e]
    BY <2>1 DEF NoThread, TypeOK
  <2>3. handler'[main.conn].pc = "recv" /\ handler'[main.conn].sock = main.fd
    BY <2>2
  <2>4. c # main.conn
    BY <2>3
  <2>5. Awaits(d, f)
    BY <2>1, <2>2, <2>3 DEF Awaits
  <2> QED
    BY <1>1, <2>1, <2>2, <2>4, <2>5
<1>5. CASE CreateThreadFails
  BY <1>1, <1>5 DEF CreateThreadFails, Accepting, Awaits
<1>6. ASSUME NEW e \in Conns, Recv(e)
      PROVE  \/ \E j \in DOMAIN clients' : j >= handler'[c].i /\ clients'[j] = f
             \/ <<c, handler'[c].msg>> \in ToSet(delivered'[d])
  <2>1. Only(e, "lock") /\ handler[e].pc = "recv" /\ UNCHANGED <<main, clients, delivered, peer>>
    BY <1>6, ThreadSteps DEF Recv, At
  <2>2. e # c /\ Awaits(d, f)
    BY <2>1 DEF Only, Awaits
  <2> QED
    BY <1>1, <2>1, <2>2 DEF Only
<1>7. ASSUME NEW e \in Conns, LockToSend(e)
      PROVE  \/ \E j \in DOMAIN clients' : j >= handler'[c].i /\ clients'[j] = f
             \/ <<c, handler'[c].msg>> \in ToSet(delivered'[d])
  <2>1. /\ Only(e, "send") /\ handler[e].pc = "lock" /\ handler'[e].i = 1
        /\ mutex = None /\ UNCHANGED <<main, clients, peer>>
    BY <1>7, ThreadSteps DEF LockToSend, At
  <2>2. e = c
    BY <1>2, <2>1 DEF Only
  <2>3. Awaits(d, f)
    BY <2>1, <2>2 DEF Only, Awaits
  <2>4. PICK j \in DOMAIN clients : clients[j] = f
    BY <2>3, AwaitsIsListed
  <2>5. j >= 1
    BY DEF TypeOK
  <2> QED
    BY <2>1, <2>2, <2>4, <2>5
<1>8. ASSUME NEW e \in Conns, SendOne(e)
      PROVE  \/ \E j \in DOMAIN clients' : j >= handler'[c].i /\ clients'[j] = f
             \/ <<c, handler'[c].msg>> \in ToSet(delivered'[d])
  <2>1. /\ Only(e, "send") /\ handler[e].pc = "send" /\ UNCHANGED <<main, clients, peer>>
        /\ handler'[e].i = handler[e].i + 1 /\ handler'[e].msg = handler[e].msg
    BY <1>8, ThreadSteps DEF SendOne, At
  <2>2. e = c
    BY <1>2, <2>1 DEF Only
  <2>3. Awaits(d, f)
    BY <2>1, <2>2 DEF Only, Awaits
  <2>4. fds[f] = d /\ peer[d] = "open" /\ f # handler[c].sock
    BY <2>1, <2>2, <2>3, AwaitsIsListed DEF ThreadHolds
  <2>5. CASE <<c, handler[c].msg>> \in ToSet(delivered[d])
    BY <1>8, <2>1, <2>2, <2>5, SendOneAdds
  <2>6. ASSUME NEW j \in DOMAIN clients, j >= handler[c].i, clients[j] = f
        PROVE  \/ \E k \in DOMAIN clients' : k >= handler'[c].i /\ clients'[k] = f
               \/ <<c, handler'[c].msg>> \in ToSet(delivered'[d])
    <3>1. CASE j = handler[c].i
      BY <1>8, <2>1, <2>2, <2>4, <2>6, <3>1, SendOneAdds
    <3>2. CASE j # handler[c].i
      <4>1. j >= handler[c].i + 1
        BY <2>6, <3>2 DEF TypeOK
      <4> QED
        BY <2>1, <2>2, <2>6, <4>1
    <3> QED
      BY <3>1, <3>2
  <2> QED
    BY <2>1, <2>2, <2>3, <2>5, <2>6 DEF Covered
<1>9. ASSUME NEW e \in Conns, UnlockAfterSend(e)
      PROVE  FALSE
  <2>1. Only(e, "recv") /\ handler[e].pc = "send"
    BY <1>9, ThreadSteps DEF UnlockAfterSend, At
  <2>2. e # c
    BY <2>1 DEF Only
  <2> QED
    BY <1>2, <2>1, <2>2 DEF Only
<1>10. ASSUME NEW e \in Conns, Close(e)
       PROVE  \/ \E j \in DOMAIN clients' : j >= handler'[c].i /\ clients'[j] = f
              \/ <<c, handler'[c].msg>> \in ToSet(delivered'[d])
  <2>1. Only(e, "remove") /\ UNCHANGED <<main, clients, delivered, peer>>
    BY <1>10, ThreadSteps DEF Close
  <2>2. e # c /\ Awaits(d, f)
    BY <2>1 DEF Only, Awaits
  <2> QED
    BY <1>1, <2>1, <2>2 DEF Only
<1>11. ASSUME NEW e \in Conns, Deregister(e)
       PROVE  FALSE
  <2>1. Only(e, "done") /\ mutex = None
    BY <1>11, ThreadSteps DEF Deregister
  <2>2. e # c
    BY <2>1 DEF Only
  <2> QED
    BY <1>2, <2>1, <2>2 DEF Only
<1>12. ASSUME NEW e \in Conns, Accept(e)
       PROVE  \/ \E j \in DOMAIN clients' : j >= handler'[c].i /\ clients'[j] = f
              \/ <<c, handler'[c].msg>> \in ToSet(delivered'[d])
  <2>1. /\ peer[e] = "new" /\ main'.pc = "register"
        /\ peer' = [peer EXCEPT ![e] = "open"] /\ UNCHANGED <<handler, clients, delivered>>
    BY <1>12 DEF Accept
  <2>2. handler[e].pc = "none"
    BY <2>1 DEF NewIsUnknown
  <2>3. d # e /\ Awaits(d, f)
    BY <2>1, <2>2 DEF Awaits, TypeOK
  <2> QED
    BY <1>1, <2>1, <2>3
<1>13. ASSUME NEW e \in Conns, Leave(e)
       PROVE  \/ \E j \in DOMAIN clients' : j >= handler'[c].i /\ clients'[j] = f
              \/ <<c, handler'[c].msg>> \in ToSet(delivered'[d])
  <2>1. peer' = [peer EXCEPT ![e] = "gone"] /\ UNCHANGED <<main, handler, clients, delivered>>
    BY <1>13 DEF Leave
  <2>2. Awaits(d, f)
    BY <2>1 DEF Awaits, TypeOK
  <2> QED
    BY <1>1, <2>1, <2>2
<1>14. CASE AcceptFails \/ UNCHANGED vars
  BY <1>1, <1>14 DEF AcceptFails, vars, Awaits
<1> QED
  BY <1>3, <1>4, <1>5, <1>6, <1>7, <1>8, <1>9, <1>10, <1>11, <1>12, <1>13, <1>14
  DEF Next, Main, Handler, Serve

-----------------------------------------------------------------------------
(***************************************************************************)
(* The theorems.                                                           *)
(***************************************************************************)
LEMMA InitIInv == Init => IInv
<1> SUFFICES ASSUME Init PROVE IInv
  OBVIOUS
<1> USE DEF Init, NoThread, Accepting
<1>1. TypeOK
  <2>1. 0 \in 0..MaxMessages
    BY BoundsAssumption
  <2> QED
    BY <2>1 DEF TypeOK
<1>2. Holds
  BY NoneAssumption DEF Holds, FdsDiffer, MainHolds, ThreadHolds, NewIsUnknown
<1>3. ArrayExact
  <2> SUFFICES ASSUME NEW f \in Fds
               PROVE  Cardinality({i \in DOMAIN clients : clients[i] = f}) = Cardinality(Listed(f))
    BY DEF ArrayExact
  <2>1. {i \in DOMAIN clients : clients[i] = f} = {}
    OBVIOUS
  <2>2. Listed(f) = {}
    BY DEF Listed
  <2> QED
    BY <2>1, <2>2
<1>4. NotToSender
  BY DEF NotToSender, ToSet
<1>5. Covered
  BY DEF Covered
<1> QED
  BY <1>1, <1>2, <1>3, <1>4, <1>5 DEF IInv

\* Every step of main, of a thread or of a client keeps the invariant.
LEMMA NextIInv == IInv /\ [Next]_vars => IInv'
BY TypeStep, HoldsStep, ArrayStep, NotToSenderStep, CoveredStep DEF IInv, Holds

LEMMA InvariantHolds == Spec => []IInv
BY InitIInv, NextIInv, PTL DEF Spec

\* The state of the server always has its type (lines 10-14, 74-122).
THEOREM TypeCorrect == Spec => []TypeOK
<1>1. IInv => TypeOK
  BY DEF IInv
<1> QED
  BY <1>1, InvariantHolds, PTL

\* The array holds each descriptor once for each connection listed under it,
\* although a thread closes its descriptor before it takes it out, so that the
\* next client may come in under the same number (lines 46-56, 97-102).
THEOREM ArrayIsExact == Spec => []ArrayExact
<1>1. IInv => ArrayExact
  BY DEF IInv
<1> QED
  BY <1>1, InvariantHolds, PTL

\* When the loop over the array is done, all the others have the message, and
\* its sender has not (lines 15-26).
THEOREM EverybodyIsTold == Spec => BroadcastReachesAll
<1>1. ASSUME IInv, NEW c \in Conns, UnlockAfterSend(c)
      PROVE  /\ <<c, handler[c].msg>> \notin ToSet(delivered[c])
             /\ \A d \in Conns \ {c} :
                  handler[d].pc \in {"recv", "lock"} /\ peer[d] = "open"
                    => <<c, handler[c].msg>> \in ToSet(delivered[d])
  <2>1. handler[c].pc = "send" /\ handler[c].i > Len(clients) /\ handler[c].msg \in 1..MaxMessages
    BY <1>1 DEF UnlockAfterSend, At, IInv, Holds, ThreadHolds
  <2>2. <<c, handler[c].msg>> \notin ToSet(delivered[c])
    BY <1>1, <2>1 DEF IInv, NotToSender
  <2>3. ASSUME NEW d \in Conns \ {c}, handler[d].pc \in {"recv", "lock"}, peer[d] = "open"
        PROVE  <<c, handler[c].msg>> \in ToSet(delivered[d])
    <3>1. handler[d].sock \in Fds /\ Awaits(d, handler[d].sock)
      BY <1>1, <2>3 DEF IInv, Holds, ThreadHolds, Awaits
    <3>2. ~ \E j \in DOMAIN clients : j >= handler[c].i
      BY <1>1, <2>1 DEF IInv, TypeOK
    <3> QED
      BY <1>1, <2>1, <3>1, <3>2 DEF IInv, Covered
  <2> QED
    BY <2>2, <2>3
<1>2. IInv => [\A c \in Conns : UnlockAfterSend(c) =>
                 /\ <<c, handler[c].msg>> \notin ToSet(delivered[c])
                 /\ \A d \in Conns \ {c} :
                      handler[d].pc \in {"recv", "lock"} /\ peer[d] = "open"
                        => <<c, handler[c].msg>> \in ToSet(delivered[d])]_vars
  BY <1>1
<1> QED
  BY <1>2, InvariantHolds, PTL DEF BroadcastReachesAll
=============================================================================
