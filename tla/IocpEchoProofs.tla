--------------------------- MODULE IocpEchoProofs ---------------------------
(***************************************************************************)
(* Proofs about IocpEcho for every set of connections and workers, every   *)
(* buffer size and every stream length.                                    *)
(***************************************************************************)
EXTENDS IocpEcho, TLAPS

(***************************************************************************)
(* A correct prefix of a stream, extended by the next k bytes, is a        *)
(* correct prefix.                                                         *)
(***************************************************************************)
LEMMA ExtendPrefix ==
  ASSUME NEW s \in Seq(Nat), NEW k \in Nat, s = [i \in 1..Len(s) |-> i]
  PROVE  LET t == s \o [i \in 1..k |-> Len(s) + i] IN
         t \in Seq(Nat) /\ Len(t) = Len(s) + k /\ t = [i \in 1..Len(t) |-> i]
<1> DEFINE u == [i \in 1..k |-> Len(s) + i]
<1>1. u \in Seq(Nat) /\ Len(u) = k OBVIOUS
<1>2. s \o u \in Seq(Nat) /\ Len(s \o u) = Len(s) + k BY <1>1
<1>3. ASSUME NEW i \in 1..Len(s \o u) PROVE (s \o u)[i] = i
  <2>1. CASE i <= Len(s) BY <2>1, <1>1, <1>2
  <2>2. CASE i > Len(s) BY <2>2, <1>1, <1>2
  <2> QED BY <2>1, <2>2, <1>2
<1>4. s \o u = [i \in 1..Len(s \o u) |-> i] BY <1>2, <1>3
<1> QED BY <1>2, <1>4

LEMMA InitIInv == Init => IInv
<1> USE BufferAssumption, NoConnAssumption DEF Init
<1>1. Init => TypeOK
  BY DEF TypeOK, ServerTypeOK, KernelTypeOK, ClientTypeOK, IoData, Offsets, Idle
<1>2. Init => OneHolder /\ NoUseAfterRelease /\ Unheld
  BY DEF OneHolder, KernelHoldsOnce, WorkerHoldsAlone, MainHoldsAlone, NoUseAfterRelease,
         Unheld, Idle
<1>3. Init => StreamPosition
  BY DEF StreamPosition, EchoInOrder, RecordsCoherent, MainPosition, PostedPosition,
         CompletedPosition, WorkerPosition, Idle
<1> QED BY <1>1, <1>2, <1>3 DEF IInv

LEMMA ReleaseType ==
  ASSUME io \in [Conns -> IoData], NEW c \in Conns, Release(c)
  PROVE  io' \in [Conns -> IoData]
<1>1. io[c] \in IoData OBVIOUS
<1>2. [io[c] EXCEPT !.mem = "freed"] \in IoData BY <1>1 DEF IoData
<1>3. io' = [io EXCEPT ![c] = [io[c] EXCEPT !.mem = "freed"]] BY DEF Release
<1> QED BY <1>2, <1>3

(***************************************************************************)
(* Every update of a record by a transfer the request allowed keeps its    *)
(* counters in the buffer.                                                 *)
(***************************************************************************)
LEMMA AfterTransferType ==
  ASSUME NEW d \in IoData, NEW n \in 1..BUFFER_SIZE
  PROVE  AfterTransfer(d, n) \in IoData
<1>1. /\ n \in 0..BUFFER_SIZE /\ 0 \in 0..BUFFER_SIZE /\ BUFFER_SIZE \in 0..BUFFER_SIZE
  BY BufferAssumption
<1>2. NewData(d, n) \in IoData BY <1>1 DEF NewData, IoData
<1>3. BackToReceive(d) \in IoData BY <1>1 DEF BackToReceive, IoData
<1>4. ASSUME d.bytesSent + n < d.bytesReceived PROVE SendRest(d, d.bytesSent + n) \in IoData
  <2>1. d.bytesSent \in 0..BUFFER_SIZE /\ d.bytesReceived \in 0..BUFFER_SIZE BY DEF IoData
  <2>2. /\ d.bytesSent + n \in 0..BUFFER_SIZE
        /\ d.bytesReceived - (d.bytesSent + n) \in 0..BUFFER_SIZE
    BY <2>1, <1>4, BufferAssumption
  <2> QED BY <2>2 DEF SendRest, IoData
<1> QED BY <1>2, <1>3, <1>4 DEF AfterTransfer

LEMMA PacketType ==
  ASSUME NEW c \in Conns, NEW n \in 0..BUFFER_SIZE, NEW ok \in BOOLEAN
  PROVE  Packet(c, n, ok) \in [conn : Conns, bytes : 0..BUFFER_SIZE, ok : BOOLEAN]
BY Zenon DEF Packet

LEMMA ServerTypeStep == IInv /\ [Next]_vars => ServerTypeOK'
<1> SUFFICES ASSUME ServerTypeOK, KernelTypeOK, Unheld, [Next]_vars PROVE ServerTypeOK'
  BY DEF IInv, TypeOK, OneHolder
<1> USE BufferAssumption, BytesAssumption, NoConnAssumption
    DEF ServerTypeOK, KernelTypeOK, IoData, Offsets, Unheld
<1>1. ASSUME NEW c \in Conns, Accept(c) PROVE ServerTypeOK'
  <2>1. main' \in [pc : {"accept", "post"}, conn : Conns \cup {NoConn}]
    BY <1>1 DEF Accept
  <2>2. worker' \in [Workers -> [pc : {"get", "check", "post"},
                                    conn : Conns \cup {NoConn}, bytes : 0..BUFFER_SIZE]]
    BY <1>1 DEF Accept
  <2>3. io' \in [Conns -> IoData]
    BY <1>1 DEF Accept
  <2>4. data' \in [Conns -> [Offsets -> Nat]]
    BY <1>1 DEF Accept
  <2>5. sock' \in [Conns -> {"none", "open", "closed"}]
    BY <1>1 DEF Accept
  <2> QED BY <2>1, <2>2, <2>3, <2>4, <2>5
<1>2. ASSUME PostFirst PROVE ServerTypeOK'
  BY <1>2 DEF PostFirst, Request, clientVars
<1>3. ASSUME PostFirstFails PROVE ServerTypeOK'
  <2>1. main.conn \in Conns BY <1>3 DEF PostFirstFails
  <2>2. main' \in [pc : {"accept", "post"}, conn : Conns \cup {NoConn}]
    BY <1>3, <2>1 DEF PostFirstFails, Release
  <2>3. worker' \in [Workers -> [pc : {"get", "check", "post"},
                                    conn : Conns \cup {NoConn}, bytes : 0..BUFFER_SIZE]]
    BY <1>3, <2>1 DEF PostFirstFails, Release
  <2>4. io' \in [Conns -> IoData]
    BY <1>3, <2>1, ReleaseType DEF PostFirstFails
  <2>5. data' \in [Conns -> [Offsets -> Nat]]
    BY <1>3, <2>1 DEF PostFirstFails, Release
  <2>6. sock' \in [Conns -> {"none", "open", "closed"}]
    BY <1>3, <2>1 DEF PostFirstFails, Release
  <2> QED BY <2>2, <2>3, <2>4, <2>5, <2>6
<1>4. ASSUME NEW w \in Workers, NEW p \in completed, Dequeue(w, p) PROVE ServerTypeOK'
  BY <1>4 DEF Dequeue, Idle, clientVars
<1>5. ASSUME NEW w \in Workers, Disconnect(w) PROVE ServerTypeOK'
  <2>1. worker[w].conn \in Conns BY <1>5 DEF Disconnect
  <2>2. main' \in [pc : {"accept", "post"}, conn : Conns \cup {NoConn}]
    BY <1>5, <2>1 DEF Disconnect, Release, Idle
  <2>3. worker' \in [Workers -> [pc : {"get", "check", "post"},
                                    conn : Conns \cup {NoConn}, bytes : 0..BUFFER_SIZE]]
    BY <1>5, <2>1 DEF Disconnect, Release, Idle
  <2>4. io' \in [Conns -> IoData]
    BY <1>5, <2>1, ReleaseType DEF Disconnect
  <2>5. data' \in [Conns -> [Offsets -> Nat]]
    BY <1>5, <2>1 DEF Disconnect, Release, Idle
  <2>6. sock' \in [Conns -> {"none", "open", "closed"}]
    BY <1>5, <2>1 DEF Disconnect, Release, Idle
  <2> QED BY <2>2, <2>3, <2>4, <2>5, <2>6
<1>6. ASSUME NEW w \in Workers, Update(w) PROVE ServerTypeOK'
  <2>1. worker[w].conn \in Conns BY <1>6 DEF Update
  <2>2. main' \in [pc : {"accept", "post"}, conn : Conns \cup {NoConn}]
    BY <1>6, <2>1 DEF Update
  <2>3. worker' \in [Workers -> [pc : {"get", "check", "post"},
                                    conn : Conns \cup {NoConn}, bytes : 0..BUFFER_SIZE]]
    <3>1. [worker[w] EXCEPT !.pc = "post"] \in [pc : {"get", "check", "post"},
                                    conn : Conns \cup {NoConn}, bytes : 0..BUFFER_SIZE]
      OBVIOUS
    <3>2. worker' = [worker EXCEPT ![w] = [worker[w] EXCEPT !.pc = "post"]]
      BY <1>6 DEF Update
    <3> QED BY <3>1, <3>2
  <2>4. io' \in [Conns -> IoData]
    <3>1. worker[w].bytes \in 1..BUFFER_SIZE BY <1>6 DEF Update
    <3>2. AfterTransfer(io[worker[w].conn], worker[w].bytes) \in IoData
      BY <2>1, <3>1, AfterTransferType
    <3> QED BY <1>6, <2>1, <3>2 DEF Update
  <2>5. data' \in [Conns -> [Offsets -> Nat]]
    BY <1>6, <2>1 DEF Update
  <2>6. sock' \in [Conns -> {"none", "open", "closed"}]
    BY <1>6, <2>1 DEF Update
  <2> QED BY <2>2, <2>3, <2>4, <2>5, <2>6
<1>7. ASSUME NEW w \in Workers, Post(w) PROVE ServerTypeOK'
  BY <1>7 DEF Post, Request, Idle, clientVars
<1>8. ASSUME NEW w \in Workers, PostFails(w) PROVE ServerTypeOK'
  <2>1. worker[w].conn \in Conns BY <1>8 DEF PostFails
  <2>2. main' \in [pc : {"accept", "post"}, conn : Conns \cup {NoConn}]
    BY <1>8, <2>1 DEF PostFails, Release, Idle
  <2>3. worker' \in [Workers -> [pc : {"get", "check", "post"},
                                    conn : Conns \cup {NoConn}, bytes : 0..BUFFER_SIZE]]
    BY <1>8, <2>1 DEF PostFails, Release, Idle
  <2>4. io' \in [Conns -> IoData]
    BY <1>8, <2>1, ReleaseType DEF PostFails
  <2>5. data' \in [Conns -> [Offsets -> Nat]]
    BY <1>8, <2>1 DEF PostFails, Release, Idle
  <2>6. sock' \in [Conns -> {"none", "open", "closed"}]
    BY <1>8, <2>1 DEF PostFails, Release, Idle
  <2> QED BY <2>2, <2>3, <2>4, <2>5, <2>6
<1>9. ASSUME NEW r \in posted, NEW k \in 1..r.len, CompleteRecv(r, k) PROVE ServerTypeOK'
  <2>1. main' \in [pc : {"accept", "post"}, conn : Conns \cup {NoConn}]
    BY <1>9 DEF CompleteRecv
  <2>2. worker' \in [Workers -> [pc : {"get", "check", "post"},
                                    conn : Conns \cup {NoConn}, bytes : 0..BUFFER_SIZE]]
    BY <1>9 DEF CompleteRecv
  <2>3. io' \in [Conns -> IoData]
    BY <1>9 DEF CompleteRecv
  <2>4. data' \in [Conns -> [Offsets -> Nat]]
    <3> DEFINE c == r.conn
               d == [i \in Offsets |-> IF i \in r.buf .. r.buf + k - 1
                                       THEN taken[c] + (i - r.buf) + 1 ELSE data[c][i]]
    <3>1. /\ c \in Conns /\ r.buf \in Int
          /\ taken[c] \in Nat /\ data[c] \in [Offsets -> Nat]
      <4>1. r \in [conn : Conns, kind : {"recv", "send"},
                   buf : 0..BUFFER_SIZE, len : 0..BUFFER_SIZE] OBVIOUS
      <4>2. c \in Conns /\ r.buf \in 0..BUFFER_SIZE BY <4>1
      <4>3. taken \in [Conns -> Nat] /\ data \in [Conns -> [Offsets -> Nat]] OBVIOUS
      <4> HIDE DEF c, d, ServerTypeOK, KernelTypeOK, Unheld
      <4> QED BY <4>2, <4>3
    <3>2. ASSUME NEW i \in Offsets PROVE d[i] \in Nat
      <4>1. data[c][i] \in Nat /\ i \in Int BY <3>1 DEF Offsets
      <4>3. k \in Int OBVIOUS
      <4>2. CASE i \in r.buf .. r.buf + k - 1
        <5>1. d[i] = taken[c] + (i - r.buf) + 1 BY <4>2
        <5>2. i >= r.buf BY <4>1, <4>2, <4>3, <3>1
        <5>3. \A a \in Nat, x, y \in Int : x >= y => a + (x - y) + 1 \in Nat OBVIOUS
        <5>4. taken[c] + (i - r.buf) + 1 \in Nat
          <6> HIDE DEF c, d, ServerTypeOK, KernelTypeOK
          <6> QED BY <5>2, <5>3, <4>1, <3>1
        <5> QED BY <5>1, <5>4
      <4> QED BY <4>1, <4>2
    <3>3. data' = [data EXCEPT ![c] = d] BY <1>9 DEF CompleteRecv
    <3>4. d \in [Offsets -> Nat] BY <3>2
    <3> HIDE DEF d
    <3> QED BY <3>1, <3>4, <3>3
  <2>5. sock' \in [Conns -> {"none", "open", "closed"}]
    BY <1>9 DEF CompleteRecv
  <2> QED BY <2>1, <2>2, <2>3, <2>4, <2>5
<1>10. ASSUME NEW r \in posted, CompleteEof(r) PROVE ServerTypeOK'
  BY <1>10 DEF CompleteEof, Complete, Packet, serverVars, clientVars
<1>11. ASSUME NEW r \in posted, NEW k \in 1..r.len, CompleteSend(r, k) PROVE ServerTypeOK'
  BY <1>11 DEF CompleteSend, Complete, Packet, serverVars, clientVars
<1>12. ASSUME NEW r \in posted, Abort(r) PROVE ServerTypeOK'
  BY <1>12 DEF Abort, Complete, Packet, serverVars, clientVars
<1>13. ASSUME NEW c \in Conns, Client(c) PROVE ServerTypeOK'
  BY <1>13 DEF Client, Write, Shutdown, Reset, serverVars, kernelVars
<1>14. ASSUME UNCHANGED vars PROVE ServerTypeOK'
  BY <1>14 DEF vars, serverVars, kernelVars, clientVars
<1> QED
  BY <1>1, <1>2, <1>3, <1>4, <1>5, <1>6, <1>7,
     <1>8, <1>9, <1>10, <1>11, <1>12, <1>13, <1>14
  DEF Next, Main, Worker, Kernel

(***************************************************************************)
(* A request always is the one its record describes, so it stays inside    *)
(* the buffer.                                                             *)
(***************************************************************************)
LEMMA InvImpliesInBuffer == IInv => RequestInBuffer
<1> SUFFICES ASSUME IInv, NEW r \in posted PROVE r.len > 0 /\ r.buf + r.len <= BUFFER_SIZE
  BY DEF RequestInBuffer
<1>1. r.conn \in Conns /\ io[r.conn] \in IoData
  BY DEF IInv, TypeOK, ServerTypeOK, KernelTypeOK
<1>2. RecordCoherent(io[r.conn])
  BY <1>1 DEF IInv, NoUseAfterRelease, Usable, StreamPosition, RecordsCoherent
<1>3. r.buf = io[r.conn].buf /\ r.len = io[r.conn].len
  BY DEF IInv, StreamPosition, PostedPosition, Request
<1> QED BY <1>1, <1>2, <1>3, BufferAssumption DEF RecordCoherent, IoData

LEMMA SentBytesType ==
  ASSUME ServerTypeOK, KernelTypeOK, RequestInBuffer, NEW r \in posted, NEW k \in 1..r.len
  PROVE  [i \in 1..k |-> data[r.conn][r.buf + i - 1]] \in Seq(Nat)
<1>1. data[r.conn] \in [Offsets -> Nat] BY DEF ServerTypeOK, KernelTypeOK
<1>2. r.buf \in Nat /\ r.len \in Nat /\ r.buf + r.len <= BUFFER_SIZE
  BY BufferAssumption DEF KernelTypeOK, RequestInBuffer
<1>3. \A i \in 1..k : r.buf + i - 1 \in Offsets BY <1>2, BufferAssumption DEF Offsets
<1>4. \A i \in 1..k : data[r.conn][r.buf + i - 1] \in Nat BY <1>1, <1>3
<1>5. k \in Nat BY <1>2
<1> QED BY <1>4, <1>5

LEMMA KernelTypeStep == IInv /\ [Next]_vars => KernelTypeOK'
<1> SUFFICES ASSUME ServerTypeOK, KernelTypeOK, ClientTypeOK, Unheld, RequestInBuffer, [Next]_vars
                PROVE KernelTypeOK'
  BY InvImpliesInBuffer DEF IInv, TypeOK, OneHolder
<1> USE BufferAssumption, BytesAssumption, NoConnAssumption
    DEF ServerTypeOK, KernelTypeOK, ClientTypeOK, IoData, Offsets, Unheld
<1>1. ASSUME NEW c \in Conns, Accept(c) PROVE KernelTypeOK'
  BY <1>1 DEF Accept, kernelVars, clientVars
<1>2. ASSUME PostFirst PROVE KernelTypeOK'
  BY <1>2 DEF PostFirst, Request, clientVars
<1>3. ASSUME PostFirstFails PROVE KernelTypeOK'
  BY <1>3 DEF PostFirstFails, Release, kernelVars, clientVars
<1>4. ASSUME NEW w \in Workers, NEW p \in completed, Dequeue(w, p) PROVE KernelTypeOK'
  BY <1>4 DEF Dequeue, Idle, clientVars
<1>5. ASSUME NEW w \in Workers, Disconnect(w) PROVE KernelTypeOK'
  BY <1>5 DEF Disconnect, Release, Idle, kernelVars, clientVars
<1>6. ASSUME NEW w \in Workers, Update(w) PROVE KernelTypeOK'
  BY <1>6 DEF Update, AfterTransfer, NewData, SendRest, BackToReceive, kernelVars,
         clientVars
<1>7. ASSUME NEW w \in Workers, Post(w) PROVE KernelTypeOK'
  <2>1. worker[w].conn \in Conns BY <1>7 DEF Post
  <2>2. posted' \subseteq [conn : Conns, kind : {"recv", "send"},
                            buf : 0..BUFFER_SIZE, len : 0..BUFFER_SIZE]
    BY <1>7, <2>1 DEF Post, Request
  <2>3. completed' \subseteq [conn : Conns, bytes : 0..BUFFER_SIZE, ok : BOOLEAN]
    BY <1>7, <2>1 DEF Post, Request
  <2>4. taken' \in [Conns -> Nat]
    BY <1>7, <2>1 DEF Post, Request
  <2>5. outbound' \in [Conns -> Seq(Nat)]
    BY <1>7, <2>1 DEF Post, Request
  <2> QED BY <2>2, <2>3, <2>4, <2>5
<1>8. ASSUME NEW w \in Workers, PostFails(w) PROVE KernelTypeOK'
  BY <1>8 DEF PostFails, Release, Idle, kernelVars, clientVars
<1>9. ASSUME NEW r \in posted, NEW k \in 1..r.len, CompleteRecv(r, k) PROVE KernelTypeOK'
  <2>1. posted' \subseteq [conn : Conns, kind : {"recv", "send"},
                            buf : 0..BUFFER_SIZE, len : 0..BUFFER_SIZE]
    BY <1>9 DEF CompleteRecv, Complete, Packet
  <2>2. completed' \subseteq [conn : Conns, bytes : 0..BUFFER_SIZE, ok : BOOLEAN]
    <3>1. r.conn \in Conns /\ k \in 0..BUFFER_SIZE
      <4>1. r.conn \in Conns /\ r.len \in 0..BUFFER_SIZE OBVIOUS
      <4> QED BY <4>1
    <3>2. Packet(r.conn, k, TRUE) \in [conn : Conns, bytes : 0..BUFFER_SIZE, ok : BOOLEAN]
      BY <3>1, PacketType
    <3> QED BY <1>9, <3>2 DEF CompleteRecv, Complete
  <2>3. taken' \in [Conns -> Nat]
    BY <1>9 DEF CompleteRecv, Complete, Packet
  <2>4. outbound' \in [Conns -> Seq(Nat)]
    BY <1>9 DEF CompleteRecv, Complete, Packet
  <2> QED BY <2>1, <2>2, <2>3, <2>4
<1>10. ASSUME NEW r \in posted, CompleteEof(r) PROVE KernelTypeOK'
  <2>1. posted' \subseteq [conn : Conns, kind : {"recv", "send"},
                            buf : 0..BUFFER_SIZE, len : 0..BUFFER_SIZE]
    BY <1>10 DEF CompleteEof, Complete, Packet
  <2>2. completed' \subseteq [conn : Conns, bytes : 0..BUFFER_SIZE, ok : BOOLEAN]
    <3>1. r.conn \in Conns /\ 0 \in 0..BUFFER_SIZE OBVIOUS
    <3>2. Packet(r.conn, 0, TRUE) \in [conn : Conns, bytes : 0..BUFFER_SIZE, ok : BOOLEAN]
      BY <3>1, PacketType
    <3> QED BY <1>10, <3>2 DEF CompleteEof, Complete
  <2>3. taken' \in [Conns -> Nat]
    BY <1>10 DEF CompleteEof, Complete, Packet
  <2>4. outbound' \in [Conns -> Seq(Nat)]
    BY <1>10 DEF CompleteEof, Complete, Packet
  <2> QED BY <2>1, <2>2, <2>3, <2>4
<1>11. ASSUME NEW r \in posted, NEW k \in 1..r.len, CompleteSend(r, k) PROVE KernelTypeOK'
  <2>1. posted' \subseteq [conn : Conns, kind : {"recv", "send"},
                            buf : 0..BUFFER_SIZE, len : 0..BUFFER_SIZE]
    BY <1>11 DEF CompleteSend, Complete, Packet
  <2>2. completed' \subseteq [conn : Conns, bytes : 0..BUFFER_SIZE, ok : BOOLEAN]
    <3>1. r.conn \in Conns /\ k \in 0..BUFFER_SIZE
      <4>1. r.conn \in Conns /\ r.len \in 0..BUFFER_SIZE OBVIOUS
      <4> QED BY <4>1
    <3>2. Packet(r.conn, k, TRUE) \in [conn : Conns, bytes : 0..BUFFER_SIZE, ok : BOOLEAN]
      BY <3>1, PacketType
    <3> QED BY <1>11, <3>2 DEF CompleteSend, Complete
  <2>3. taken' \in [Conns -> Nat]
    BY <1>11 DEF CompleteSend, Complete, Packet
  <2>4. outbound' \in [Conns -> Seq(Nat)]
    <3> DEFINE t == [i \in 1..k |-> data[r.conn][r.buf + i - 1]]
    <3>1. t \in Seq(Nat) BY SentBytesType
    <3>2. outbound[r.conn] \o t \in Seq(Nat) BY <3>1
    <3>3. outbound' = [outbound EXCEPT ![r.conn] = outbound[r.conn] \o t]
      BY <1>11 DEF CompleteSend
    <3> HIDE DEF t
    <3> QED BY <3>2, <3>3
  <2> QED BY <2>1, <2>2, <2>3, <2>4
<1>12. ASSUME NEW r \in posted, Abort(r) PROVE KernelTypeOK'
  <2>1. posted' \subseteq [conn : Conns, kind : {"recv", "send"},
                            buf : 0..BUFFER_SIZE, len : 0..BUFFER_SIZE]
    BY <1>12 DEF Abort, Complete, Packet
  <2>2. completed' \subseteq [conn : Conns, bytes : 0..BUFFER_SIZE, ok : BOOLEAN]
    <3>1. r.conn \in Conns /\ 0 \in 0..BUFFER_SIZE OBVIOUS
    <3>2. Packet(r.conn, 0, FALSE) \in [conn : Conns, bytes : 0..BUFFER_SIZE, ok : BOOLEAN]
      BY <3>1, PacketType
    <3> QED BY <1>12, <3>2 DEF Abort, Complete
  <2>3. taken' \in [Conns -> Nat]
    BY <1>12 DEF Abort, Complete, Packet
  <2>4. outbound' \in [Conns -> Seq(Nat)]
    BY <1>12 DEF Abort, Complete, Packet
  <2> QED BY <2>1, <2>2, <2>3, <2>4
<1>13. ASSUME NEW c \in Conns, Client(c) PROVE KernelTypeOK'
  BY <1>13 DEF Client, Write, Shutdown, Reset, serverVars, kernelVars
<1>14. ASSUME UNCHANGED vars PROVE KernelTypeOK'
  BY <1>14 DEF vars, serverVars, kernelVars, clientVars
<1> QED
  BY <1>1, <1>2, <1>3, <1>4, <1>5, <1>6, <1>7,
     <1>8, <1>9, <1>10, <1>11, <1>12, <1>13, <1>14
  DEF Next, Main, Worker, Kernel

LEMMA ClientTypeStep == IInv /\ [Next]_vars => ClientTypeOK'
<1> SUFFICES ASSUME ClientTypeOK, [Next]_vars PROVE ClientTypeOK'
  BY DEF IInv, TypeOK, OneHolder
<1> USE BufferAssumption, BytesAssumption, NoConnAssumption
    DEF ClientTypeOK
<1>1. ASSUME NEW c \in Conns, Accept(c) PROVE ClientTypeOK'
  BY <1>1 DEF Accept, kernelVars, clientVars
<1>2. ASSUME PostFirst PROVE ClientTypeOK'
  BY <1>2 DEF PostFirst, Request, clientVars
<1>3. ASSUME PostFirstFails PROVE ClientTypeOK'
  BY <1>3 DEF PostFirstFails, Release, kernelVars, clientVars
<1>4. ASSUME NEW w \in Workers, NEW p \in completed, Dequeue(w, p) PROVE ClientTypeOK'
  BY <1>4 DEF Dequeue, Idle, clientVars
<1>5. ASSUME NEW w \in Workers, Disconnect(w) PROVE ClientTypeOK'
  BY <1>5 DEF Disconnect, Release, Idle, kernelVars, clientVars
<1>6. ASSUME NEW w \in Workers, Update(w) PROVE ClientTypeOK'
  BY <1>6 DEF Update, AfterTransfer, NewData, SendRest, BackToReceive, kernelVars,
         clientVars
<1>7. ASSUME NEW w \in Workers, Post(w) PROVE ClientTypeOK'
  BY <1>7 DEF Post, Request, Idle, clientVars
<1>8. ASSUME NEW w \in Workers, PostFails(w) PROVE ClientTypeOK'
  BY <1>8 DEF PostFails, Release, Idle, kernelVars, clientVars
<1>9. ASSUME NEW r \in posted, NEW k \in 1..r.len, CompleteRecv(r, k) PROVE ClientTypeOK'
  BY <1>9 DEF CompleteRecv, Complete, Packet, clientVars
<1>10. ASSUME NEW r \in posted, CompleteEof(r) PROVE ClientTypeOK'
  BY <1>10 DEF CompleteEof, Complete, Packet, serverVars, clientVars
<1>11. ASSUME NEW r \in posted, NEW k \in 1..r.len, CompleteSend(r, k) PROVE ClientTypeOK'
  BY <1>11 DEF CompleteSend, Complete, Packet, serverVars, clientVars
<1>12. ASSUME NEW r \in posted, Abort(r) PROVE ClientTypeOK'
  BY <1>12 DEF Abort, Complete, Packet, serverVars, clientVars
<1>13. ASSUME NEW c \in Conns, Client(c) PROVE ClientTypeOK'
  <2>1. CASE Write(c) BY <2>1 DEF Write
  <2>2. CASE Shutdown(c) BY <2>2 DEF Shutdown
  <2>3. CASE Reset(c) BY <2>3 DEF Reset
  <2> QED BY <1>13, <2>1, <2>2, <2>3 DEF Client
<1>14. ASSUME UNCHANGED vars PROVE ClientTypeOK'
  BY <1>14 DEF vars, serverVars, kernelVars, clientVars
<1> QED
  BY <1>1, <1>2, <1>3, <1>4, <1>5, <1>6, <1>7,
     <1>8, <1>9, <1>10, <1>11, <1>12, <1>13, <1>14
  DEF Next, Main, Worker, Kernel

LEMMA UnheldStep == IInv /\ [Next]_vars => Unheld'
<1> SUFFICES ASSUME ServerTypeOK, KernelTypeOK, NoUseAfterRelease, Unheld, [Next]_vars PROVE Unheld'
  BY DEF IInv, TypeOK, OneHolder
<1> USE BufferAssumption, BytesAssumption, NoConnAssumption
    DEF ServerTypeOK, KernelTypeOK, IoData, NoUseAfterRelease, Usable, Unheld
<1>1. ASSUME NEW c \in Conns, Accept(c) PROVE Unheld'
  BY <1>1 DEF Accept, kernelVars, clientVars
<1>2. ASSUME PostFirst PROVE Unheld'
  BY <1>2 DEF PostFirst, Request, clientVars
<1>3. ASSUME PostFirstFails PROVE Unheld'
  BY <1>3 DEF PostFirstFails, Release, kernelVars, clientVars
<1>4. ASSUME NEW w \in Workers, NEW p \in completed, Dequeue(w, p) PROVE Unheld'
  BY <1>4 DEF Dequeue, Idle, clientVars
<1>5. ASSUME NEW w \in Workers, Disconnect(w) PROVE Unheld'
  BY <1>5 DEF Disconnect, Release, Idle, kernelVars, clientVars
<1>6. ASSUME NEW w \in Workers, Update(w) PROVE Unheld'
  BY <1>6 DEF Update, AfterTransfer, NewData, SendRest, BackToReceive, kernelVars,
         clientVars
<1>7. ASSUME NEW w \in Workers, Post(w) PROVE Unheld'
  BY <1>7 DEF Post, Request, Idle, clientVars
<1>8. ASSUME NEW w \in Workers, PostFails(w) PROVE Unheld'
  BY <1>8 DEF PostFails, Release, Idle, kernelVars, clientVars
<1>9. ASSUME NEW r \in posted, NEW k \in 1..r.len, CompleteRecv(r, k) PROVE Unheld'
  BY <1>9 DEF CompleteRecv, Complete, Packet, clientVars
<1>10. ASSUME NEW r \in posted, CompleteEof(r) PROVE Unheld'
  BY <1>10 DEF CompleteEof, Complete, Packet, serverVars, clientVars
<1>11. ASSUME NEW r \in posted, NEW k \in 1..r.len, CompleteSend(r, k) PROVE Unheld'
  BY <1>11 DEF CompleteSend, Complete, Packet, serverVars, clientVars
<1>12. ASSUME NEW r \in posted, Abort(r) PROVE Unheld'
  BY <1>12 DEF Abort, Complete, Packet, serverVars, clientVars
<1>13. ASSUME NEW c \in Conns, Client(c) PROVE Unheld'
  BY <1>13 DEF Client, Write, Shutdown, Reset, serverVars, kernelVars
<1>14. ASSUME UNCHANGED vars PROVE Unheld'
  BY <1>14 DEF vars, serverVars, kernelVars, clientVars
<1> QED
  BY <1>1, <1>2, <1>3, <1>4, <1>5, <1>6, <1>7,
     <1>8, <1>9, <1>10, <1>11, <1>12, <1>13, <1>14
  DEF Next, Main, Worker, Kernel

(***************************************************************************)
(* A completion moves the only trace the kernel has of a connection.       *)
(***************************************************************************)
LEMMA CompleteHoldsOnce ==
  ASSUME KernelTypeOK, KernelHoldsOnce, NEW r, NEW bytes, NEW ok, Complete(r, bytes, ok)
  PROVE  KernelHoldsOnce'
<1>1. /\ r \in posted
      /\ posted' = posted \ {r} /\ completed' = completed \cup {Packet(r.conn, bytes, ok)}
  BY DEF Complete
<1>2. Packet(r.conn, bytes, ok).conn = r.conn BY DEF Packet
<1>3. \A q \in posted' : q \in posted /\ q.conn # r.conn
  BY <1>1 DEF KernelHoldsOnce
<1>4. \A p \in completed : p.conn # r.conn BY <1>1 DEF KernelHoldsOnce
<1> QED BY <1>1, <1>2, <1>3, <1>4 DEF KernelHoldsOnce

LEMMA KernelHoldsOnceStep == IInv /\ [Next]_vars => KernelHoldsOnce'
<1> SUFFICES ASSUME ServerTypeOK, KernelTypeOK, OneHolder, Unheld, [Next]_vars PROVE KernelHoldsOnce'
  BY DEF IInv, TypeOK, OneHolder
<1> USE BufferAssumption, BytesAssumption, NoConnAssumption
    DEF ServerTypeOK, KernelTypeOK, OneHolder, KernelHoldsOnce, WorkerHoldsAlone, MainHoldsAlone, Unheld
<1>1. ASSUME NEW c \in Conns, Accept(c) PROVE KernelHoldsOnce'
  BY <1>1 DEF Accept, kernelVars, clientVars
<1>2. ASSUME PostFirst PROVE KernelHoldsOnce'
  BY <1>2 DEF PostFirst, Request, clientVars
<1>3. ASSUME PostFirstFails PROVE KernelHoldsOnce'
  BY <1>3 DEF PostFirstFails, Release, kernelVars, clientVars
<1>4. ASSUME NEW w \in Workers, NEW p \in completed, Dequeue(w, p) PROVE KernelHoldsOnce'
  BY <1>4 DEF Dequeue, Idle, clientVars
<1>5. ASSUME NEW w \in Workers, Disconnect(w) PROVE KernelHoldsOnce'
  BY <1>5 DEF Disconnect, Release, Idle, kernelVars, clientVars
<1>6. ASSUME NEW w \in Workers, Update(w) PROVE KernelHoldsOnce'
  BY <1>6 DEF Update, AfterTransfer, NewData, SendRest, BackToReceive, kernelVars,
         clientVars
<1>7. ASSUME NEW w \in Workers, Post(w) PROVE KernelHoldsOnce'
  <2>1. /\ posted' = posted \cup {Request(worker[w].conn)} /\ UNCHANGED completed
        /\ worker[w].pc = "post"
    BY <1>7 DEF Post
  <2>2. Request(worker[w].conn).conn = worker[w].conn BY DEF Request
  <2>3. \A r \in posted : r.conn # worker[w].conn BY <2>1 DEF WorkerHoldsAlone
  <2>4. \A p \in completed : p.conn # worker[w].conn BY <2>1 DEF WorkerHoldsAlone
  <2>5. \A r \in posted' : r \in posted \/ r = Request(worker[w].conn) BY <2>1
  <2> HIDE DEF KernelHoldsOnce
  <2>6. \A r, q \in posted' : r.conn = q.conn => r = q
    BY <2>2, <2>3, <2>5 DEF KernelHoldsOnce
  <2>7. \A r \in posted', p \in completed' : r.conn # p.conn
    BY <2>1, <2>2, <2>4, <2>5 DEF KernelHoldsOnce
  <2> QED BY <2>1, <2>6, <2>7 DEF KernelHoldsOnce
<1>8. ASSUME NEW w \in Workers, PostFails(w) PROVE KernelHoldsOnce'
  BY <1>8 DEF PostFails, Release, Idle, kernelVars, clientVars
<1>9. ASSUME NEW r \in posted, NEW k \in 1..r.len, CompleteRecv(r, k) PROVE KernelHoldsOnce'
  BY <1>9, CompleteHoldsOnce DEF CompleteRecv
<1>10. ASSUME NEW r \in posted, CompleteEof(r) PROVE KernelHoldsOnce'
  BY <1>10, CompleteHoldsOnce DEF CompleteEof
<1>11. ASSUME NEW r \in posted, NEW k \in 1..r.len, CompleteSend(r, k) PROVE KernelHoldsOnce'
  BY <1>11, CompleteHoldsOnce DEF CompleteSend
<1>12. ASSUME NEW r \in posted, Abort(r) PROVE KernelHoldsOnce'
  BY <1>12, CompleteHoldsOnce DEF Abort
<1>13. ASSUME NEW c \in Conns, Client(c) PROVE KernelHoldsOnce'
  BY <1>13 DEF Client, Write, Shutdown, Reset, serverVars, kernelVars
<1>14. ASSUME UNCHANGED vars PROVE KernelHoldsOnce'
  BY <1>14 DEF vars, serverVars, kernelVars, clientVars
<1> QED
  BY <1>1, <1>2, <1>3, <1>4, <1>5, <1>6, <1>7,
     <1>8, <1>9, <1>10, <1>11, <1>12, <1>13, <1>14
  DEF Next, Main, Worker, Kernel

LEMMA WorkerHoldsAloneStep == IInv /\ [Next]_vars => WorkerHoldsAlone'
<1> SUFFICES ASSUME ServerTypeOK, KernelTypeOK, OneHolder, Unheld, [Next]_vars PROVE WorkerHoldsAlone'
  BY DEF IInv, TypeOK, OneHolder
<1> USE BufferAssumption, BytesAssumption, NoConnAssumption
    DEF ServerTypeOK, KernelTypeOK, OneHolder, KernelHoldsOnce, WorkerHoldsAlone, MainHoldsAlone, Unheld
<1>1. ASSUME NEW c \in Conns, Accept(c) PROVE WorkerHoldsAlone'
  BY <1>1 DEF Accept, kernelVars, clientVars
<1>2. ASSUME PostFirst PROVE WorkerHoldsAlone'
  BY <1>2 DEF PostFirst, Request, clientVars
<1>3. ASSUME PostFirstFails PROVE WorkerHoldsAlone'
  BY <1>3 DEF PostFirstFails, Release, kernelVars, clientVars
<1>4. ASSUME NEW w \in Workers, NEW p \in completed, Dequeue(w, p) PROVE WorkerHoldsAlone'
  BY <1>4 DEF Dequeue, Idle, clientVars
<1>5. ASSUME NEW w \in Workers, Disconnect(w) PROVE WorkerHoldsAlone'
  BY <1>5 DEF Disconnect, Release, Idle, kernelVars, clientVars
<1>6. ASSUME NEW w \in Workers, Update(w) PROVE WorkerHoldsAlone'
  BY <1>6 DEF Update, AfterTransfer, NewData, SendRest, BackToReceive, kernelVars,
         clientVars
<1>7. ASSUME NEW w \in Workers, Post(w) PROVE WorkerHoldsAlone'
  BY <1>7 DEF Post, Request, Idle, clientVars
<1>8. ASSUME NEW w \in Workers, PostFails(w) PROVE WorkerHoldsAlone'
  BY <1>8 DEF PostFails, Release, Idle, kernelVars, clientVars
<1>9. ASSUME NEW r \in posted, NEW k \in 1..r.len, CompleteRecv(r, k) PROVE WorkerHoldsAlone'
  BY <1>9 DEF CompleteRecv, Complete, Packet, clientVars
<1>10. ASSUME NEW r \in posted, CompleteEof(r) PROVE WorkerHoldsAlone'
  BY <1>10 DEF CompleteEof, Complete, Packet, serverVars, clientVars
<1>11. ASSUME NEW r \in posted, NEW k \in 1..r.len, CompleteSend(r, k) PROVE WorkerHoldsAlone'
  BY <1>11 DEF CompleteSend, Complete, Packet, serverVars, clientVars
<1>12. ASSUME NEW r \in posted, Abort(r) PROVE WorkerHoldsAlone'
  BY <1>12 DEF Abort, Complete, Packet, serverVars, clientVars
<1>13. ASSUME NEW c \in Conns, Client(c) PROVE WorkerHoldsAlone'
  BY <1>13 DEF Client, Write, Shutdown, Reset, serverVars, kernelVars
<1>14. ASSUME UNCHANGED vars PROVE WorkerHoldsAlone'
  BY <1>14 DEF vars, serverVars, kernelVars, clientVars
<1> QED
  BY <1>1, <1>2, <1>3, <1>4, <1>5, <1>6, <1>7,
     <1>8, <1>9, <1>10, <1>11, <1>12, <1>13, <1>14
  DEF Next, Main, Worker, Kernel

LEMMA MainHoldsAloneStep == IInv /\ [Next]_vars => MainHoldsAlone'
<1> SUFFICES ASSUME ServerTypeOK, KernelTypeOK, OneHolder, NoUseAfterRelease, Unheld, [Next]_vars PROVE MainHoldsAlone'
  BY DEF IInv, TypeOK, OneHolder
<1> USE BufferAssumption, BytesAssumption, NoConnAssumption
    DEF ServerTypeOK, KernelTypeOK, IoData, OneHolder, KernelHoldsOnce, WorkerHoldsAlone, MainHoldsAlone,
        NoUseAfterRelease, Usable, Unheld
<1>1. ASSUME NEW c \in Conns, Accept(c) PROVE MainHoldsAlone'
  BY <1>1 DEF Accept, kernelVars, clientVars
<1>2. ASSUME PostFirst PROVE MainHoldsAlone'
  BY <1>2 DEF PostFirst, Request, clientVars
<1>3. ASSUME PostFirstFails PROVE MainHoldsAlone'
  BY <1>3 DEF PostFirstFails, Release, kernelVars, clientVars
<1>4. ASSUME NEW w \in Workers, NEW p \in completed, Dequeue(w, p) PROVE MainHoldsAlone'
  BY <1>4 DEF Dequeue, Idle, clientVars
<1>5. ASSUME NEW w \in Workers, Disconnect(w) PROVE MainHoldsAlone'
  BY <1>5 DEF Disconnect, Release, Idle, kernelVars, clientVars
<1>6. ASSUME NEW w \in Workers, Update(w) PROVE MainHoldsAlone'
  BY <1>6 DEF Update, AfterTransfer, NewData, SendRest, BackToReceive, kernelVars,
         clientVars
<1>7. ASSUME NEW w \in Workers, Post(w) PROVE MainHoldsAlone'
  BY <1>7 DEF Post, Request, Idle, clientVars
<1>8. ASSUME NEW w \in Workers, PostFails(w) PROVE MainHoldsAlone'
  BY <1>8 DEF PostFails, Release, Idle, kernelVars, clientVars
<1>9. ASSUME NEW r \in posted, NEW k \in 1..r.len, CompleteRecv(r, k) PROVE MainHoldsAlone'
  BY <1>9 DEF CompleteRecv, Complete, Packet, clientVars
<1>10. ASSUME NEW r \in posted, CompleteEof(r) PROVE MainHoldsAlone'
  BY <1>10 DEF CompleteEof, Complete, Packet, serverVars, clientVars
<1>11. ASSUME NEW r \in posted, NEW k \in 1..r.len, CompleteSend(r, k) PROVE MainHoldsAlone'
  BY <1>11 DEF CompleteSend, Complete, Packet, serverVars, clientVars
<1>12. ASSUME NEW r \in posted, Abort(r) PROVE MainHoldsAlone'
  BY <1>12 DEF Abort, Complete, Packet, serverVars, clientVars
<1>13. ASSUME NEW c \in Conns, Client(c) PROVE MainHoldsAlone'
  BY <1>13 DEF Client, Write, Shutdown, Reset, serverVars, kernelVars
<1>14. ASSUME UNCHANGED vars PROVE MainHoldsAlone'
  BY <1>14 DEF vars, serverVars, kernelVars, clientVars
<1> QED
  BY <1>1, <1>2, <1>3, <1>4, <1>5, <1>6, <1>7,
     <1>8, <1>9, <1>10, <1>11, <1>12, <1>13, <1>14
  DEF Next, Main, Worker, Kernel

LEMMA NoUseStep == IInv /\ [Next]_vars => NoUseAfterRelease'
<1> SUFFICES ASSUME ServerTypeOK, KernelTypeOK, OneHolder, NoUseAfterRelease, Unheld, [Next]_vars PROVE NoUseAfterRelease'
  BY DEF IInv, TypeOK, OneHolder
<1> USE BufferAssumption, BytesAssumption, NoConnAssumption
    DEF ServerTypeOK, KernelTypeOK, IoData, OneHolder, KernelHoldsOnce, WorkerHoldsAlone, MainHoldsAlone,
        NoUseAfterRelease, Usable, Unheld
<1>1. ASSUME NEW c \in Conns, Accept(c) PROVE NoUseAfterRelease'
  BY <1>1 DEF Accept, kernelVars, clientVars
<1>2. ASSUME PostFirst PROVE NoUseAfterRelease'
  BY <1>2 DEF PostFirst, Request, clientVars
<1>3. ASSUME PostFirstFails PROVE NoUseAfterRelease'
  BY <1>3 DEF PostFirstFails, Release, kernelVars, clientVars
<1>4. ASSUME NEW w \in Workers, NEW p \in completed, Dequeue(w, p) PROVE NoUseAfterRelease'
  BY <1>4 DEF Dequeue, Idle, clientVars
<1>5. ASSUME NEW w \in Workers, Disconnect(w) PROVE NoUseAfterRelease'
  BY <1>5 DEF Disconnect, Release, Idle, kernelVars, clientVars
<1>6. ASSUME NEW w \in Workers, Update(w) PROVE NoUseAfterRelease'
  BY <1>6 DEF Update, AfterTransfer, NewData, SendRest, BackToReceive, kernelVars,
         clientVars
<1>7. ASSUME NEW w \in Workers, Post(w) PROVE NoUseAfterRelease'
  BY <1>7 DEF Post, Request, Idle, clientVars
<1>8. ASSUME NEW w \in Workers, PostFails(w) PROVE NoUseAfterRelease'
  BY <1>8 DEF PostFails, Release, Idle, kernelVars, clientVars
<1>9. ASSUME NEW r \in posted, NEW k \in 1..r.len, CompleteRecv(r, k) PROVE NoUseAfterRelease'
  BY <1>9 DEF CompleteRecv, Complete, Packet, clientVars
<1>10. ASSUME NEW r \in posted, CompleteEof(r) PROVE NoUseAfterRelease'
  BY <1>10 DEF CompleteEof, Complete, Packet, serverVars, clientVars
<1>11. ASSUME NEW r \in posted, NEW k \in 1..r.len, CompleteSend(r, k) PROVE NoUseAfterRelease'
  BY <1>11 DEF CompleteSend, Complete, Packet, serverVars, clientVars
<1>12. ASSUME NEW r \in posted, Abort(r) PROVE NoUseAfterRelease'
  BY <1>12 DEF Abort, Complete, Packet, serverVars, clientVars
<1>13. ASSUME NEW c \in Conns, Client(c) PROVE NoUseAfterRelease'
  <2>1. UNCHANGED <<main, worker, io, sock, posted, completed>>
    BY <1>13 DEF Client, Write, Shutdown, Reset, serverVars, kernelVars
  <2> QED BY <2>1
<1>14. ASSUME UNCHANGED vars PROVE NoUseAfterRelease'
  BY <1>14 DEF vars, serverVars, kernelVars, clientVars
<1> QED
  BY <1>1, <1>2, <1>3, <1>4, <1>5, <1>6, <1>7,
     <1>8, <1>9, <1>10, <1>11, <1>12, <1>13, <1>14
  DEF Next, Main, Worker, Kernel

-----------------------------------------------------------------------------
(***************************************************************************)
(* Where each stream stands.  A step touches the stream of one connection  *)
(* at most; for all the others nothing said about them changes.            *)
(***************************************************************************)
SameStream(c) == /\ io'[c] = io[c] /\ data'[c] = data[c]
                 /\ taken'[c] = taken[c] /\ outbound'[c] = outbound[c]

LEMMA SameStreamKeeps ==
  ASSUME NEW c, SameStream(c)
  PROVE  /\ Settled(c)' <=> Settled(c)
         /\ \A n : Landed(c, n)' <=> Landed(c, n)
         /\ Request(c)' = Request(c)
BY DEF SameStream, Settled, Landed, Filled, Request

Held == TypeOK /\ Unheld /\ OneHolder /\ NoUseAfterRelease

LEMMA HeldConns ==
  ASSUME Held
  PROVE  /\ \A r \in posted : r.conn \in Conns
         /\ \A p \in completed : p.conn \in Conns
         /\ \A w \in Workers : worker[w].pc # "get" => worker[w].conn \in Conns
         /\ main.pc = "post" => main.conn \in Conns
BY DEF Held, TypeOK, ServerTypeOK, KernelTypeOK, Unheld

LEMMA AcceptStream == ASSUME IInv, NEW c \in Conns, Accept(c) PROVE StreamPosition'
<1> USE DEF IInv
<1>1. Held BY DEF Held
<1>2. /\ io[c].mem = "none" /\ taken[c] = 0 /\ outbound[c] = <<>>
  BY DEF Accept, Unheld
<1>3. /\ io' = [io EXCEPT ![c] = [mem |-> "live", buf |-> 0, len |-> BUFFER_SIZE,
                                 bytesSent |-> 0, bytesReceived |-> 0]]
      /\ main' = [pc |-> "post", conn |-> c]
      /\ UNCHANGED <<worker, data, posted, completed, taken, outbound, sent>>
  BY DEF Accept, kernelVars, clientVars
<1>4. io \in [Conns -> IoData] BY DEF TypeOK, ServerTypeOK
<1>5. \A d \in Conns \ {c} : SameStream(d) BY <1>3, <1>4 DEF SameStream
<1>6. /\ \A r \in posted : r.conn # c
      /\ \A p \in completed : p.conn # c
      /\ \A w \in Workers : worker[w].pc # "get" => worker[w].conn # c
  BY <1>2 DEF NoUseAfterRelease, Usable
<1>7. io'[c] = [mem |-> "live", buf |-> 0, len |-> BUFFER_SIZE,
                bytesSent |-> 0, bytesReceived |-> 0]
  BY <1>3, <1>4
<1>8. Settled(c)' BY <1>2, <1>3, <1>7 DEF Settled, Filled
<1>9. EchoInOrder' BY <1>3 DEF StreamPosition, EchoInOrder
<1>10. RecordsCoherent'
  BY <1>3, <1>4, <1>7 DEF StreamPosition, RecordsCoherent, RecordCoherent
<1>11. MainPosition' BY <1>3, <1>8 DEF MainPosition
<1>12. PostedPosition'
  BY <1>1, <1>3, <1>5, <1>6, HeldConns, SameStreamKeeps DEF StreamPosition, PostedPosition
<1>13. CompletedPosition'
  BY <1>1, <1>3, <1>5, <1>6, HeldConns, SameStreamKeeps DEF StreamPosition, CompletedPosition
<1>14. WorkerPosition'
  BY <1>1, <1>3, <1>5, <1>6, HeldConns, SameStreamKeeps DEF StreamPosition, WorkerPosition
<1> QED BY <1>9, <1>10, <1>11, <1>12, <1>13, <1>14 DEF StreamPosition

(***************************************************************************)
(* Releasing a connection its holder is done with disturbs no other.       *)
(***************************************************************************)
LEMMA ReleaseStream ==
  ASSUME IInv, NEW x \in Conns, Release(x), UNCHANGED <<data, kernelVars, sent>>,
         main'.pc = "post" => main' = main /\ x # main.conn,
         \A r \in posted : r.conn # x, \A p \in completed : p.conn # x,
         \A w \in Workers : worker'[w].pc # "get" =>
                              worker'[w] = worker[w] /\ worker[w].conn # x
  PROVE  StreamPosition'
<1> USE DEF IInv
<1>1. Held BY DEF Held
<1>2. io \in [Conns -> IoData] BY DEF TypeOK, ServerTypeOK
<1>3. \A d \in Conns \ {x} : SameStream(d)
  BY <1>2 DEF SameStream, Release, kernelVars
<1>4. io'[x].mem = "freed"
  <2>1. io[x] \in IoData BY <1>2
  <2>2. io'[x] = [io[x] EXCEPT !.mem = "freed"] BY <1>2 DEF Release
  <2> QED BY <2>1, <2>2 DEF IoData
<1>5. UNCHANGED <<posted, completed, taken, outbound, sent>> BY DEF kernelVars
<1>6. EchoInOrder' BY <1>5 DEF StreamPosition, EchoInOrder
<1>7. RecordsCoherent'
  BY <1>3, <1>4 DEF SameStream, StreamPosition, RecordsCoherent, RecordCoherent
<1>8. MainPosition'
  BY <1>1, <1>3, HeldConns, SameStreamKeeps DEF StreamPosition, MainPosition
<1>9. PostedPosition'
  BY <1>1, <1>3, <1>5, HeldConns, SameStreamKeeps DEF StreamPosition, PostedPosition
<1>10. CompletedPosition'
  BY <1>1, <1>3, <1>5, HeldConns, SameStreamKeeps DEF StreamPosition, CompletedPosition
<1>11. WorkerPosition'
  BY <1>1, <1>3, HeldConns, SameStreamKeeps DEF StreamPosition, WorkerPosition
<1> QED BY <1>6, <1>7, <1>8, <1>9, <1>10, <1>11 DEF StreamPosition

(***************************************************************************)
(* Steps that only move a record from one holder to the next.              *)
(***************************************************************************)
LEMMA PostFirstStream == ASSUME IInv, PostFirst PROVE StreamPosition'
<1> USE DEF IInv
<1>1. Held BY DEF Held
<1>2. /\ posted' = posted \cup {Request(main.conn)} /\ main.pc = "post"
      /\ main' = [pc |-> "accept", conn |-> NoConn]
      /\ UNCHANGED <<worker, io, data, completed, taken, outbound, sent>>
  BY DEF PostFirst, clientVars
<1>3. \A c \in Conns : SameStream(c) BY <1>2 DEF SameStream
<1>4. Request(main.conn).conn = main.conn /\ Settled(main.conn) /\ main.conn \in Conns
  BY <1>1, <1>2, HeldConns DEF Request, StreamPosition, MainPosition
<1>5. EchoInOrder' /\ RecordsCoherent' /\ MainPosition'
  BY <1>2 DEF StreamPosition, EchoInOrder, RecordsCoherent, MainPosition, RecordCoherent
<1>6. PostedPosition'
  BY <1>1, <1>2, <1>3, <1>4, HeldConns, SameStreamKeeps DEF StreamPosition, PostedPosition
<1>7. CompletedPosition' /\ WorkerPosition'
  BY <1>1, <1>2, <1>3, HeldConns, SameStreamKeeps
  DEF StreamPosition, CompletedPosition, WorkerPosition
<1> QED BY <1>5, <1>6, <1>7 DEF StreamPosition

LEMMA PostStream == ASSUME IInv, NEW w \in Workers, Post(w) PROVE StreamPosition'
<1> USE DEF IInv
<1>1. Held BY DEF Held
<1>0. PICK x \in Conns : x = worker[w].conn BY <1>1, HeldConns DEF Post
<1>2. /\ posted' = posted \cup {Request(x)} /\ worker[w].pc = "post"
      /\ worker' = [worker EXCEPT ![w] = Idle]
      /\ UNCHANGED <<main, io, data, completed, taken, outbound, sent>>
  BY <1>0 DEF Post, clientVars
<1>3. \A c \in Conns : SameStream(c) BY <1>2 DEF SameStream
<1>4. Request(x).conn = x /\ Settled(x)
  BY <1>0, <1>2 DEF Request, StreamPosition, WorkerPosition
<1>5. EchoInOrder' /\ RecordsCoherent'
  BY <1>2 DEF StreamPosition, EchoInOrder, RecordsCoherent, RecordCoherent
<1>6. MainPosition'
  BY <1>1, <1>2, <1>3, HeldConns, SameStreamKeeps DEF StreamPosition, MainPosition
<1>7. PostedPosition'
  BY <1>1, <1>2, <1>3, <1>4, HeldConns, SameStreamKeeps DEF StreamPosition, PostedPosition
<1>8. CompletedPosition'
  BY <1>1, <1>2, <1>3, HeldConns, SameStreamKeeps DEF StreamPosition, CompletedPosition
<1>9. WorkerPosition'
  BY <1>1, <1>2, <1>3, HeldConns, SameStreamKeeps
  DEF StreamPosition, WorkerPosition, TypeOK, ServerTypeOK, Idle
<1> QED BY <1>5, <1>6, <1>7, <1>8, <1>9 DEF StreamPosition

LEMMA DequeueStream ==
  ASSUME IInv, NEW w \in Workers, NEW p \in completed, Dequeue(w, p) PROVE StreamPosition'
<1> USE DEF IInv
<1>1. Held BY DEF Held
<1>2. /\ completed' = completed \ {p}
      /\ worker' = [worker EXCEPT ![w] =
           IF p.ok THEN [pc |-> "check", conn |-> p.conn, bytes |-> p.bytes] ELSE Idle]
      /\ UNCHANGED <<main, io, data, posted, taken, outbound, sent>>
  BY DEF Dequeue, clientVars
<1>3. \A c \in Conns : SameStream(c) BY <1>2 DEF SameStream
<1>4. EchoInOrder' /\ RecordsCoherent'
  BY <1>2 DEF StreamPosition, EchoInOrder, RecordsCoherent, RecordCoherent
<1>5. MainPosition' /\ PostedPosition' /\ CompletedPosition'
  BY <1>1, <1>2, <1>3, HeldConns, SameStreamKeeps
  DEF StreamPosition, MainPosition, PostedPosition, CompletedPosition
<1>6. p.conn \in Conns /\ (p.ok => Landed(p.conn, p.bytes))
  BY <1>1, HeldConns DEF StreamPosition, CompletedPosition
<1>7. ASSUME NEW v \in Workers, v # w
      PROVE  /\ worker'[v].pc = "post" => Settled(worker[v].conn)'
             /\ worker'[v].pc = "check" => Landed(worker[v].conn, worker[v].bytes)'
  <2>1. worker'[v] = worker[v] BY <1>2, <1>7 DEF TypeOK, ServerTypeOK
  <2> QED BY <1>1, <2>1, <1>3, HeldConns, SameStreamKeeps DEF StreamPosition, WorkerPosition
<1>8. /\ worker'[w].pc = "post" => Settled(worker[w].conn)'
      /\ worker'[w].pc = "check" => Landed(worker[w].conn, worker[w].bytes)'
  <2>1. CASE p.ok
    <3>1. worker'[w] = [pc |-> "check", conn |-> p.conn, bytes |-> p.bytes]
      BY <1>2, <2>1 DEF TypeOK, ServerTypeOK
    <3>2. Landed(p.conn, p.bytes)' BY <1>3, <1>6, <2>1, SameStreamKeeps
    <3> QED BY <3>1, <3>2
  <2>2. CASE ~p.ok BY <1>2, <2>2 DEF TypeOK, ServerTypeOK, Idle
  <2> QED BY <2>1, <2>2
<1>9. WorkerPosition' BY <1>7, <1>8 DEF WorkerPosition
<1> QED BY <1>4, <1>5, <1>9 DEF StreamPosition

(***************************************************************************)
(* Lines 50-71 put the transfer just reported into the record.             *)
(***************************************************************************)
LEMMA AfterTransferSettles ==
  ASSUME NEW c \in Conns, NEW n \in 1..BUFFER_SIZE, io[c] \in IoData,
         taken[c] \in Nat, Len(outbound[c]) \in Nat,
         RecordCoherent(io[c]), Landed(c, n),
         io'[c] = AfterTransfer(io[c], n), UNCHANGED <<data, taken, outbound>>
  PROVE  Settled(c)' /\ RecordCoherent(io'[c])
<1>1. /\ io[c].bytesSent \in Nat /\ io[c].bytesReceived \in Nat
      /\ io[c].buf \in Nat /\ io[c].len \in Nat /\ n \in Nat \ {0}
  BY BufferAssumption DEF IoData
<1>2. CASE io[c].bytesReceived = 0
  <2>1. io'[c].buf = io[c].buf /\ io'[c].len = n /\ io'[c].bytesSent = 0 /\ io'[c].bytesReceived = n
    BY <1>2 DEF AfterTransfer, NewData, IoData
  <2>2. io[c].buf = 0 BY <1>2 DEF RecordCoherent
  <2>3. Filled(c, n)' BY <1>2 DEF Landed, Filled
  <2>4. Len(outbound[c]) = taken[c] - n BY <1>2 DEF Landed
  <2> QED BY <1>1, <2>1, <2>2, <2>3, <2>4 DEF Settled, RecordCoherent
<1>3. CASE io[c].bytesReceived # 0 /\ io[c].bytesSent + n < io[c].bytesReceived
  <2>1. /\ io'[c].buf = io[c].bytesSent + n
        /\ io'[c].len = io[c].bytesReceived - (io[c].bytesSent + n)
        /\ io'[c].bytesSent = io[c].bytesSent + n
        /\ io'[c].bytesReceived = io[c].bytesReceived
    BY <1>3 DEF AfterTransfer, SendRest, IoData
  <2>2. Filled(c, io[c].bytesReceived)' BY <1>3, <2>1 DEF Landed, Filled
  <2>3. Len(outbound[c]) = taken[c] - io[c].bytesReceived + io[c].bytesSent + n
    BY <1>3 DEF Landed
  <2> QED BY <1>1, <1>3, <2>1, <2>2, <2>3 DEF Settled, RecordCoherent, Filled
<1>4. CASE io[c].bytesReceived # 0 /\ ~(io[c].bytesSent + n < io[c].bytesReceived)
  <2>1. io'[c].buf = 0 /\ io'[c].len = BUFFER_SIZE /\ io'[c].bytesSent = 0 /\ io'[c].bytesReceived = 0
    BY <1>4 DEF AfterTransfer, BackToReceive, IoData
  <2>2. n <= io[c].bytesReceived - io[c].bytesSent
    BY <1>4 DEF Landed, RecordCoherent
  <2>3. Len(outbound[c]) = taken[c] - io[c].bytesReceived + io[c].bytesSent + n
    BY <1>4 DEF Landed
  <2>4. Len(outbound[c]) = taken[c] BY <1>1, <1>4, <2>2, <2>3
  <2> QED BY <1>1, <2>1, <2>4 DEF Settled, RecordCoherent, Filled
<1> QED BY <1>2, <1>3, <1>4

LEMMA UpdateStream == ASSUME IInv, NEW w \in Workers, Update(w) PROVE StreamPosition'
<1> USE DEF IInv
<1>1. Held BY DEF Held
<1>0. PICK x \in Conns, n \in 1..BUFFER_SIZE : x = worker[w].conn /\ n = worker[w].bytes
  <2>1. worker[w].pc = "check" /\ worker[w].bytes > 0 BY DEF Update
  <2>2. worker[w].bytes \in 1..BUFFER_SIZE
    BY <2>1, BufferAssumption DEF TypeOK, ServerTypeOK
  <2> QED BY <1>1, <2>1, <2>2, HeldConns
<1>2. /\ worker[w].pc = "check" /\ n > 0
      /\ io' = [io EXCEPT ![x] = AfterTransfer(io[x], n)]
      /\ worker' = [worker EXCEPT ![w].pc = "post"]
      /\ UNCHANGED <<main, data, posted, completed, taken, outbound, sent>>
  BY <1>0 DEF Update, kernelVars, clientVars
<1>3. io \in [Conns -> IoData] BY DEF TypeOK, ServerTypeOK
<1>4. \A c \in Conns \ {x} : SameStream(c) BY <1>2, <1>3 DEF SameStream
<1>5. /\ \A r \in posted : r.conn # x
      /\ \A p \in completed : p.conn # x
      /\ \A v \in Workers \ {w} : worker[v].conn # x
      /\ main.pc = "post" => main.conn # x
  BY <1>0, <1>2 DEF OneHolder, WorkerHoldsAlone, MainHoldsAlone
<1>6. Settled(x)' /\ RecordCoherent(io'[x])
  <2>1. io[x] \in IoData /\ io'[x] = AfterTransfer(io[x], n) BY <1>2, <1>3
  <2>2. taken[x] \in Nat /\ Len(outbound[x]) \in Nat BY <1>3 DEF TypeOK, KernelTypeOK
  <2>3. RecordCoherent(io[x]) BY <1>0, <1>2 DEF NoUseAfterRelease, Usable, StreamPosition, RecordsCoherent
  <2>4. Landed(x, n) BY <1>0, <1>2 DEF StreamPosition, WorkerPosition
  <2> QED BY <1>2, <1>3, <2>1, <2>2, <2>3, <2>4, AfterTransferSettles
<1>7. EchoInOrder' BY <1>2 DEF StreamPosition, EchoInOrder
<1>8. RecordsCoherent'
  BY <1>4, <1>6 DEF SameStream, StreamPosition, RecordsCoherent, RecordCoherent
<1>9. MainPosition' /\ PostedPosition' /\ CompletedPosition'
  BY <1>1, <1>2, <1>4, <1>5, HeldConns, SameStreamKeeps
  DEF StreamPosition, MainPosition, PostedPosition, CompletedPosition
<1>10. ASSUME NEW v \in Workers, v # w
       PROVE  /\ worker'[v].pc = "post" => Settled(worker[v].conn)'
              /\ worker'[v].pc = "check" => Landed(worker[v].conn, worker[v].bytes)'
  <2>1. worker'[v] = worker[v] BY <1>2, <1>10 DEF TypeOK, ServerTypeOK
  <2> QED BY <1>1, <1>4, <1>5, <1>10, <2>1, HeldConns, SameStreamKeeps
          DEF StreamPosition, WorkerPosition
<1>11. worker'[w].pc = "post" /\ worker'[w].conn = x
  BY <1>0, <1>2 DEF TypeOK, ServerTypeOK
<1>12. WorkerPosition' BY <1>6, <1>10, <1>11 DEF WorkerPosition
<1> QED BY <1>7, <1>8, <1>9, <1>12 DEF StreamPosition

(***************************************************************************)
(* A completion leaves every stream but its own where it was, and lands on *)
(* its own.                                                                *)
(***************************************************************************)
LEMMA CompletionStream ==
  ASSUME IInv, NEW r \in posted, NEW n, NEW ok, Complete(r, n, ok),
         UNCHANGED <<main, worker, io, sent>>,
         \A c \in Conns \ {r.conn} : SameStream(c),
         EchoInOrder', ok => Landed(r.conn, n)'
  PROVE  StreamPosition'
<1> USE DEF IInv
<1>1. Held BY DEF Held
<1>2. PICK x \in Conns : x = r.conn BY <1>1, HeldConns
<1>3. /\ posted' = posted \ {r}
      /\ completed' = completed \cup {Packet(x, n, ok)}
  BY <1>2 DEF Complete
<1>4. /\ \A q \in posted' : q \in posted /\ q.conn # x
      /\ \A p \in completed : p.conn # x
      /\ \A w \in Workers : worker[w].pc # "get" => worker[w].conn # x
      /\ main.pc = "post" => main.conn # x
  BY <1>2, <1>3 DEF OneHolder, KernelHoldsOnce, WorkerHoldsAlone, MainHoldsAlone
<1>5. RecordsCoherent' BY DEF StreamPosition, RecordsCoherent, RecordCoherent
<1>6. MainPosition' BY <1>1, <1>2, <1>4, HeldConns, SameStreamKeeps DEF StreamPosition, MainPosition
<1>7. PostedPosition'
  BY <1>1, <1>2, <1>4, HeldConns, SameStreamKeeps DEF StreamPosition, PostedPosition
<1>8. CompletedPosition'
  <2>1. ASSUME NEW p \in completed, p.ok PROVE Landed(p.conn, p.bytes)'
    BY <1>1, <1>2, <1>4, <2>1, HeldConns, SameStreamKeeps DEF StreamPosition, CompletedPosition
  <2>2. /\ Packet(x, n, ok).conn = r.conn /\ Packet(x, n, ok).bytes = n
        /\ Packet(x, n, ok).ok = ok
    BY <1>2 DEF Packet
  <2> QED BY <1>3, <2>1, <2>2 DEF CompletedPosition
<1>9. WorkerPosition'
  BY <1>1, <1>2, <1>4, HeldConns, SameStreamKeeps DEF StreamPosition, WorkerPosition
<1> QED BY <1>5, <1>6, <1>7, <1>8, <1>9 DEF StreamPosition

\* What the invariant says of the connection a request is about.
LEMMA RequestFacts ==
  ASSUME IInv, NEW r \in posted
  PROVE  /\ r.conn \in Conns /\ io[r.conn] \in IoData /\ data[r.conn] \in [Offsets -> Nat]
         /\ taken[r.conn] \in Nat /\ outbound[r.conn] \in Seq(Nat) /\ sent[r.conn] \in Nat
         /\ RecordCoherent(io[r.conn]) /\ Settled(r.conn)
         /\ r.buf = io[r.conn].buf /\ r.len = io[r.conn].len
         /\ r.kind = IF io[r.conn].bytesReceived = 0 THEN "recv" ELSE "send"
<1> USE DEF IInv
<1>1. r.conn \in Conns BY DEF TypeOK, KernelTypeOK
<1>2. RecordCoherent(io[r.conn])
  BY <1>1 DEF NoUseAfterRelease, Usable, StreamPosition, RecordsCoherent
<1>3. r = Request(r.conn) /\ Settled(r.conn) BY DEF StreamPosition, PostedPosition
<1>4. /\ r.buf = io[r.conn].buf /\ r.len = io[r.conn].len
      /\ r.kind = IF io[r.conn].bytesReceived = 0 THEN "recv" ELSE "send"
  BY <1>3 DEF Request
<1>5. /\ io[r.conn] \in IoData /\ data[r.conn] \in [Offsets -> Nat]
      /\ taken[r.conn] \in Nat /\ outbound[r.conn] \in Seq(Nat) /\ sent[r.conn] \in Nat
  BY <1>1 DEF TypeOK, ServerTypeOK, KernelTypeOK, ClientTypeOK
<1> QED BY <1>1, <1>2, <1>3, <1>4, <1>5

LEMMA RecvStream ==
  ASSUME IInv, NEW r \in posted, NEW k \in 1..r.len, CompleteRecv(r, k) PROVE StreamPosition'
<1>1. PICK x \in Conns : x = r.conn BY RequestFacts
<1>2. /\ r.kind = "recv" /\ taken[x] + k <= sent[x] /\ Complete(r, k, TRUE)
      /\ taken' = [taken EXCEPT ![x] = @ + k]
      /\ data' = [data EXCEPT ![x] = [i \in Offsets |->
           IF i \in r.buf .. r.buf + k - 1 THEN taken[x] + (i - r.buf) + 1 ELSE data[x][i]]]
      /\ UNCHANGED <<main, worker, io, outbound, sent>>
  BY <1>1 DEF CompleteRecv, clientVars
<1>3. /\ taken \in [Conns -> Nat] /\ data \in [Conns -> [Offsets -> Nat]]
      /\ outbound \in [Conns -> Seq(Nat)] /\ sent \in [Conns -> Nat]
  BY DEF IInv, TypeOK, ServerTypeOK, KernelTypeOK, ClientTypeOK
<1>4. \A c \in Conns \ {x} : SameStream(c) BY <1>2, <1>3 DEF SameStream
<1>5. /\ io[x].bytesReceived = 0 /\ io[x].bytesSent = 0
      /\ r.buf = 0 /\ r.len = BUFFER_SIZE /\ io[x].len = BUFFER_SIZE
  BY <1>1, <1>2, RequestFacts DEF RecordCoherent
<1>6. k \in Nat /\ k <= BUFFER_SIZE BY <1>5, BufferAssumption
<1>7. taken'[x] = taken[x] + k /\ taken[x] \in Nat BY <1>2, <1>3
<1>8. Len(outbound[x]) = taken[x]
  <2>1. Settled(x) BY <1>1, RequestFacts
  <2> QED BY <1>5, <1>7, <2>1 DEF Settled
<1>9. \A i \in 0 .. k - 1 : data'[x][i] = taken'[x] - k + i + 1
  <2> TAKE i \in 0 .. k - 1
  <2>1. i \in Offsets /\ i \in r.buf .. r.buf + k - 1
    BY <1>5, <1>6, BufferAssumption DEF Offsets
  <2>2. data'[x][i] = taken[x] + (i - r.buf) + 1 BY <1>2, <1>3, <2>1
  <2> QED BY <1>5, <1>6, <1>7, <2>2
<1>10. Landed(x, k)'
  <2>1. Filled(x, k)' BY <1>6, <1>7, <1>9 DEF Filled
  <2>2. io'[x] = io[x] /\ outbound'[x] = outbound[x] BY <1>2
  <2>3. Len(outbound'[x]) = taken'[x] - k BY <1>6, <1>7, <1>8, <2>2
  <2> QED BY <1>5, <1>6, <2>1, <2>2, <2>3 DEF Landed
<1>11. EchoInOrder'
  <2>1. EchoInOrder BY DEF IInv, StreamPosition
  <2>2. ASSUME NEW c \in Conns
        PROVE  /\ Len(outbound[c]) <= taken'[c] /\ taken'[c] <= sent[c]
               /\ outbound[c] = [i \in 1..Len(outbound[c]) |-> i]
    <3>1. CASE c = x BY <1>2, <1>6, <1>7, <1>8, <2>1, <3>1 DEF EchoInOrder
    <3>2. CASE c # x BY <1>4, <2>1, <3>2 DEF EchoInOrder, SameStream
    <3> QED BY <3>1, <3>2
  <2> QED BY <1>2, <2>2 DEF EchoInOrder
<1> QED BY <1>1, <1>2, <1>4, <1>10, <1>11, CompletionStream

LEMMA EofStream == ASSUME IInv, NEW r \in posted, CompleteEof(r) PROVE StreamPosition'
<1>1. PICK x \in Conns : x = r.conn BY RequestFacts
<1>2. /\ r.kind = "recv" /\ Complete(r, 0, TRUE)
      /\ UNCHANGED <<main, worker, io, data, taken, outbound, sent>>
  BY DEF CompleteEof, serverVars, clientVars
<1>3. \A c \in Conns : SameStream(c) BY <1>2 DEF SameStream
<1>4. Landed(x, 0)
  <2>1. io[x].bytesReceived = 0 /\ io[x].bytesSent = 0 /\ io[x].len = BUFFER_SIZE
    BY <1>1, <1>2, RequestFacts DEF RecordCoherent
  <2>2. taken[x] \in Nat /\ Settled(x) BY <1>1, RequestFacts
  <2>3. Len(outbound[x]) = taken[x] - 0 BY <2>1, <2>2 DEF Settled
  <2> QED BY <2>1, <2>2, <2>3, BufferAssumption DEF Landed, Filled
<1>5. Landed(x, 0)' BY <1>3, <1>4, SameStreamKeeps
<1>6. EchoInOrder' BY <1>2 DEF IInv, StreamPosition, EchoInOrder
<1> QED BY <1>1, <1>2, <1>3, <1>5, <1>6, CompletionStream

LEMMA AbortStream == ASSUME IInv, NEW r \in posted, Abort(r) PROVE StreamPosition'
<1>1. /\ Complete(r, 0, FALSE)
      /\ UNCHANGED <<main, worker, io, data, taken, outbound, sent>>
  BY DEF Abort, serverVars, clientVars
<1>2. \A c \in Conns : SameStream(c) BY <1>1 DEF SameStream
<1>3. EchoInOrder' BY <1>1 DEF IInv, StreamPosition, EchoInOrder
<1> QED BY <1>1, <1>2, <1>3, CompletionStream

(***************************************************************************)
(* A send hands the client exactly the next k bytes of its stream.         *)
(***************************************************************************)
LEMMA SendIsNextBytes ==
  ASSUME IInv, NEW r \in posted, NEW k \in 1..r.len, CompleteSend(r, k)
  PROVE  /\ outbound' = [outbound EXCEPT ![r.conn] =
                           @ \o [i \in 1..k |-> Len(@) + i]]
         /\ Len(outbound[r.conn]) + k <= taken[r.conn]
<1>1. PICK x \in Conns : x = r.conn BY RequestFacts
<1>2. /\ r.kind = "send"
      /\ outbound' = [outbound EXCEPT ![x] = @ \o [i \in 1..k |-> data[x][r.buf + i - 1]]]
  BY <1>1 DEF CompleteSend
<1>3. /\ io[x] \in IoData /\ taken[x] \in Nat /\ outbound[x] \in Seq(Nat)
      /\ Settled(x) /\ RecordCoherent(io[x])
      /\ r.buf = io[x].buf /\ r.len = io[x].len /\ io[x].bytesReceived # 0
  BY <1>1, <1>2, RequestFacts
<1>4. /\ io[x].bytesSent \in Nat /\ io[x].bytesReceived \in Nat
      /\ r.buf = io[x].bytesSent /\ r.len = io[x].bytesReceived - io[x].bytesSent
  BY <1>3, BufferAssumption DEF RecordCoherent, IoData
<1>5. k \in Nat \ {0} /\ k <= io[x].bytesReceived - io[x].bytesSent BY <1>4
<1>6. Len(outbound[x]) = taken[x] - io[x].bytesReceived + io[x].bytesSent
  BY <1>3 DEF Settled
<1>7. \A i \in 1..k : data[x][r.buf + i - 1] = Len(outbound[x]) + i
  <2> TAKE i \in 1..k
  <2>1. r.buf + i - 1 \in 0 .. io[x].bytesReceived - 1 BY <1>4, <1>5
  <2>2. data[x][r.buf + i - 1] = taken[x] - io[x].bytesReceived + (r.buf + i - 1) + 1
    BY <1>3, <2>1 DEF Settled, Filled
  <2> QED BY <1>3, <1>4, <1>5, <1>6, <2>2
<1>8. [i \in 1..k |-> data[x][r.buf + i - 1]] = [i \in 1..k |-> Len(outbound[x]) + i]
  BY <1>7
<1>9. Len(outbound[x]) + k <= taken[x] BY <1>3, <1>4, <1>5, <1>6
<1> QED BY <1>1, <1>2, <1>8, <1>9

LEMMA SendStream ==
  ASSUME IInv, NEW r \in posted, NEW k \in 1..r.len, CompleteSend(r, k) PROVE StreamPosition'
<1>1. PICK x \in Conns : x = r.conn BY RequestFacts
<1>2. /\ r.kind = "send" /\ Complete(r, k, TRUE)
      /\ UNCHANGED <<main, worker, io, data, taken, sent>>
  BY DEF CompleteSend, serverVars, clientVars
<1>3. /\ outbound' = [outbound EXCEPT ![x] = @ \o [i \in 1..k |-> Len(@) + i]]
      /\ Len(outbound[x]) + k <= taken[x]
  <2>1. /\ outbound' = [outbound EXCEPT ![r.conn] = @ \o [i \in 1..k |-> Len(@) + i]]
        /\ Len(outbound[r.conn]) + k <= taken[r.conn]
    BY SendIsNextBytes, Zenon
  <2> QED BY <1>1, <2>1
<1>4. outbound \in [Conns -> Seq(Nat)] /\ taken \in [Conns -> Nat] /\ sent \in [Conns -> Nat]
  BY DEF IInv, TypeOK, KernelTypeOK, ClientTypeOK
<1>5. \A c \in Conns \ {x} : SameStream(c) BY <1>2, <1>3, <1>4 DEF SameStream
<1>6. EchoInOrder BY DEF IInv, StreamPosition
<1>7. k \in Nat \ {0} /\ k <= io[x].len
  <2>1. r.len = io[x].len /\ io[x] \in IoData BY <1>1, RequestFacts
  <2>2. r.len \in 0..BUFFER_SIZE BY <2>1 DEF IoData
  <2> QED BY <2>1, <2>2, BufferAssumption
<1>8. /\ Len(outbound'[x]) = Len(outbound[x]) + k
      /\ outbound'[x] = [i \in 1..Len(outbound'[x]) |-> i]
  <2>1. outbound'[x] = outbound[x] \o [i \in 1..k |-> Len(outbound[x]) + i] BY <1>3, <1>4
  <2>2. outbound[x] \in Seq(Nat) /\ outbound[x] = [i \in 1..Len(outbound[x]) |-> i]
    BY <1>4, <1>6 DEF EchoInOrder
  <2> QED BY <1>7, <2>1, <2>2, ExtendPrefix
<1>9. EchoInOrder'
  <2>1. ASSUME NEW c \in Conns
        PROVE  /\ Len(outbound'[c]) <= taken[c] /\ taken[c] <= sent[c]
               /\ outbound'[c] = [i \in 1..Len(outbound'[c]) |-> i]
    <3>1. CASE c = x BY <1>3, <1>6, <1>8, <3>1 DEF EchoInOrder
    <3>2. CASE c # x BY <1>5, <1>6, <3>2 DEF EchoInOrder, SameStream
    <3> QED BY <3>1, <3>2
  <2> QED BY <1>2, <2>1 DEF EchoInOrder
<1>10. Landed(x, k)'
  <2>1. /\ io[x] \in IoData /\ taken[x] \in Nat /\ Settled(x) /\ io[x].bytesReceived # 0
    BY <1>1, <1>2, RequestFacts
  <2>2. io[x].bytesReceived \in Nat /\ io[x].bytesSent \in Nat
    BY <2>1, BufferAssumption DEF IoData
  <2>3. /\ Len(outbound[x]) = taken[x] - io[x].bytesReceived + io[x].bytesSent
        /\ Filled(x, io[x].bytesReceived)
    BY <2>1 DEF Settled
  <2>4. Filled(x, io[x].bytesReceived)' BY <1>2, <2>3 DEF Filled
  <2>5. Len(outbound'[x]) = taken[x] - io[x].bytesReceived + io[x].bytesSent + k
    BY <1>8, <2>3
  <2> QED BY <1>2, <1>7, <2>1, <2>4, <2>5 DEF Landed
<1> QED BY <1>1, <1>2, <1>5, <1>9, <1>10, CompletionStream

-----------------------------------------------------------------------------
\* The three ways a connection is released find no other holder of it.
LEMMA ReleaseSteps ==
  ASSUME IInv,
         PostFirstFails \/ \E w \in Workers : Disconnect(w) \/ PostFails(w)
  PROVE  StreamPosition'
<1> USE DEF IInv
<1>1. Held BY DEF Held
<1>2. CASE PostFirstFails
  <2>1. main.conn \in Conns BY <1>1, <1>2, HeldConns DEF PostFirstFails
  <2>2. PICK x \in Conns : x = main.conn BY <2>1
  <2>3. /\ main.pc = "post" /\ Release(x) /\ main'.pc = "accept"
        /\ UNCHANGED <<worker, data, kernelVars, sent>>
    BY <1>2, <2>2 DEF PostFirstFails, clientVars
  <2>4. /\ \A r \in posted : r.conn # x
        /\ \A p \in completed : p.conn # x
        /\ \A w \in Workers : worker[w].conn # x
    BY <2>2, <2>3 DEF OneHolder, MainHoldsAlone
  <2> QED BY <2>3, <2>4, ReleaseStream
<1>3. ASSUME NEW w \in Workers, Disconnect(w) \/ PostFails(w) PROVE StreamPosition'
  <2>1. worker[w].pc # "get" BY <1>3 DEF Disconnect, PostFails
  <2>2. PICK x \in Conns : x = worker[w].conn BY <1>1, <2>1, HeldConns
  <2>3. /\ Release(x) /\ worker' = [worker EXCEPT ![w] = Idle]
        /\ UNCHANGED <<main, data, kernelVars, sent>>
    BY <1>3, <2>2 DEF Disconnect, PostFails, clientVars
  <2>4. /\ \A r \in posted : r.conn # x
        /\ \A p \in completed : p.conn # x
        /\ \A v \in Workers \ {w} : worker[v].conn # x
        /\ main.pc = "post" => main.conn # x
    BY <2>1, <2>2 DEF OneHolder, WorkerHoldsAlone, MainHoldsAlone
  <2>5. ASSUME NEW v \in Workers, worker'[v].pc # "get"
        PROVE  worker'[v] = worker[v] /\ worker[v].conn # x
    <3>1. v # w BY <2>3, <2>5 DEF TypeOK, ServerTypeOK, Idle
    <3> QED BY <2>3, <2>4, <3>1 DEF TypeOK, ServerTypeOK
  <2> QED BY <2>3, <2>4, <2>5, ReleaseStream
<1> QED BY <1>2, <1>3

LEMMA StreamStep == IInv /\ [Next]_vars => StreamPosition'
<1> SUFFICES ASSUME IInv, [Next]_vars PROVE StreamPosition'
  OBVIOUS
<1>1. ASSUME NEW c \in Conns, Client(c) PROVE StreamPosition'
  <2>1. UNCHANGED <<main, worker, io, data, posted, completed, taken, outbound>>
    BY <1>1 DEF Client, Write, Shutdown, Reset, serverVars, kernelVars
  <2>2. \A d \in Conns : SameStream(d) BY <2>1 DEF SameStream
  <2>3. \A d \in Conns : sent[d] \in Nat /\ sent'[d] >= sent[d] /\ sent'[d] \in Nat
    BY <1>1 DEF Client, Write, Shutdown, Reset, IInv, TypeOK, ClientTypeOK
  <2>4. EchoInOrder'
    BY <2>1, <2>3 DEF IInv, StreamPosition, EchoInOrder, TypeOK, KernelTypeOK
  <2>5. Held BY DEF Held, IInv
  <2>6. RecordsCoherent' /\ MainPosition' /\ PostedPosition' /\ CompletedPosition' /\ WorkerPosition'
    BY <2>1, <2>2, <2>5, HeldConns, SameStreamKeeps
    DEF IInv, StreamPosition, RecordsCoherent, RecordCoherent, MainPosition, PostedPosition,
        CompletedPosition, WorkerPosition
  <2> QED BY <2>4, <2>6 DEF StreamPosition
<1>2. CASE UNCHANGED vars
  BY <1>2 DEF vars, serverVars, kernelVars, clientVars, IInv, StreamPosition, EchoInOrder,
       RecordsCoherent, RecordCoherent, MainPosition, PostedPosition, CompletedPosition,
       WorkerPosition, Settled, Landed, Filled, Request
<1> QED
  BY <1>1, <1>2, AcceptStream, PostFirstStream, PostStream, DequeueStream, UpdateStream,
     RecvStream, EofStream, SendStream, AbortStream, ReleaseSteps
  DEF Next, Main, Worker, Kernel

(***************************************************************************)
(* The record of a connection has one holder, is never used after it was   *)
(* released, and every holder finds its stream where its next step         *)
(* supposes, in every reachable state.                                     *)
(***************************************************************************)
LEMMA SpecIInv == Spec => []IInv
<1>1. IInv /\ [Next]_vars => IInv'
  BY ServerTypeStep, KernelTypeStep, ClientTypeStep, UnheldStep, KernelHoldsOnceStep,
     WorkerHoldsAloneStep, MainHoldsAloneStep, NoUseStep, StreamStep
  DEF IInv, TypeOK, OneHolder
<1> QED BY <1>1, InitIInv, PTL DEF Spec

\* All variables keep their types, the counters of a record within its buffer.
THEOREM TypeCorrect == Spec => []TypeOK
BY SpecIInv, PTL DEF IInv

\* A connection's record is never with two of main, the workers, the kernel
\* and the port: WorkerThread needs no lock (lines 30-89).
THEOREM RecordHasOneHolder == Spec => []OneHolder
BY SpecIInv, PTL DEF IInv

\* No record or socket is used after it was released (lines 45-46, 85-86).
THEOREM ReleasedIsNotUsed == Spec => []NoUseAfterRelease
BY SpecIInv, PTL DEF IInv

\* Every overlapped request stays inside dataBuffer and is never empty.
THEOREM RequestsStayInBuffer == Spec => []RequestInBuffer
BY SpecIInv, InvImpliesInBuffer, PTL

\* The server on the completion port implements the echo service: what each
\* client gets back is its own stream, in order and without a gap, whatever
\* the number of workers and however sends are split.
THEOREM ImplementsEcho == Spec => EchoSpec
<1>1. Init => Echo!Init BY DEF Init, Echo!Init
<1>2. ASSUME IInv, [Next]_vars PROVE [Echo!Next]_(Echo!vars)
  <2>1. ASSUME NEW c \in Conns, Client(c) PROVE [Echo!Next]_(Echo!vars)
    <3>1. CASE Write(c)
      <4>1. sent' = [sent EXCEPT ![c] = sent[c] + 1] /\ sent \in [Conns -> Nat]
        BY <1>2, <3>1 DEF Write, IInv, TypeOK, ClientTypeOK
      <4>2. sent'[c] > sent[c] /\ sent' = [sent EXCEPT ![c] = sent'[c]] BY <4>1
      <4>3. UNCHANGED outbound BY <3>1 DEF Write, kernelVars
      <4> QED BY <4>2, <4>3 DEF Echo!Next, Echo!Submit
    <3>2. CASE Shutdown(c) \/ Reset(c)
      BY <3>2 DEF Shutdown, Reset, kernelVars, Echo!vars
    <3> QED BY <2>1, <3>1, <3>2 DEF Client
  <2>2. ASSUME NEW r \in posted, NEW k \in 1..r.len, CompleteSend(r, k)
        PROVE  [Echo!Next]_(Echo!vars)
    <3>1. PICK x \in Conns : x = r.conn BY <1>2, RequestFacts
    <3>2. /\ outbound' = [outbound EXCEPT ![r.conn] = @ \o [i \in 1..k |-> Len(@) + i]]
          /\ Len(outbound[r.conn]) + k <= taken[r.conn]
      BY <1>2, <2>2, SendIsNextBytes, Zenon
    <3>3. taken[x] <= sent[x] /\ taken[x] \in Nat /\ sent[x] \in Nat /\ Len(outbound[x]) \in Nat
      BY <1>2, <3>1 DEF IInv, StreamPosition, EchoInOrder, TypeOK, KernelTypeOK, ClientTypeOK
    <3>4. k \in Nat \ {0}
      <4>1. r.len \in 0..BUFFER_SIZE BY <1>2 DEF IInv, TypeOK, KernelTypeOK
      <4> QED BY <4>1, BufferAssumption
    <3>5. k \in 1 .. sent[x] - Len(outbound[x]) BY <3>1, <3>2, <3>3, <3>4
    <3>6. UNCHANGED sent BY <2>2 DEF CompleteSend, clientVars
    <3>7. Echo!Echo(x) BY <3>1, <3>2, <3>5, <3>6 DEF Echo!Echo
    <3> QED BY <3>7 DEF Echo!Next
  <2>3. ASSUME NEW r \in posted,
               CompleteEof(r) \/ Abort(r) \/ \E k \in 1..r.len : CompleteRecv(r, k)
        PROVE  UNCHANGED <<sent, outbound>>
    BY <2>3 DEF CompleteEof, Abort, CompleteRecv, clientVars
  <2>4. ASSUME Main \/ \E w \in Workers : Worker(w)
        PROVE  UNCHANGED <<sent, outbound>>
    BY <2>4 DEF Main, Worker, Accept, PostFirst, PostFirstFails, Dequeue, Disconnect, Update,
         Post, PostFails, kernelVars, clientVars
  <2>5. CASE UNCHANGED vars
    BY <2>5 DEF vars, kernelVars, clientVars, Echo!vars
  <2> QED BY <1>2, <2>1, <2>2, <2>3, <2>4, <2>5 DEF Next, Kernel, Echo!vars
<1> QED BY <1>1, <1>2, SpecIInv, PTL DEF Spec, EchoSpec, Echo!Spec
=============================================================================
