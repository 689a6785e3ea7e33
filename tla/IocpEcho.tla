------------------------------ MODULE IocpEcho ------------------------------
(***************************************************************************)
(* completionIo_server.cpp: an echo server on a Windows I/O completion     *)
(* port.  The main thread accepts connections and posts the first receive  *)
(* of each; WORKER_THREADS workers take completions off the port and post  *)
(* the next operation of the connection they are about.                    *)
(*                                                                         *)
(* Every connection has one heap record, PER_IO_OPERATION_DATA, and no     *)
(* lock: it is handed from main to the kernel to a worker and back.  The   *)
(* question is whether two of them ever hold it at once.                   *)
(*                                                                         *)
(* Bytes are numbered: the i-th byte a client writes is the number i.  The *)
(* port hands out packets in any order (the code relies on none).          *)
(***************************************************************************)
EXTENDS Integers, Sequences

CONSTANTS Conns,         \* connections, one per accept() that succeeds
          Workers,       \* the threads started at line 149
          BUFFER_SIZE,   \* bytes in dataBuffer
          MaxBytes,      \* bound: bytes one client writes
          NoConn         \* "holds no connection"

ASSUME BufferAssumption == BUFFER_SIZE \in Nat \ {0}
ASSUME BytesAssumption == MaxBytes \in Nat
ASSUME NoConnAssumption == NoConn \notin Conns

VARIABLES
  main,       \* the accept loop: [pc, conn]
  worker,     \* worker[w]: [pc, conn, bytes] (perIoData and bytesTransferred)
  io,         \* io[c]: the PER_IO_OPERATION_DATA of c
  data,       \* data[c]: its dataBuffer
  sock,       \* sock[c]: "none", "open" or "closed"
  posted,     \* overlapped requests the kernel is working on
  completed,  \* packets queued on completionPort
  sent,       \* sent[c]: bytes client c has written
  taken,      \* taken[c]: bytes of c the kernel has given to the server
  outbound,   \* outbound[c]: the bytes the server has sent to c
  eof,        \* eof[c]: client c has shut its side down
  reset       \* reset[c]: the connection was reset

serverVars == <<main, worker, io, data, sock>>
kernelVars == <<posted, completed, taken, outbound>>
clientVars == <<sent, eof, reset>>
vars == <<serverVars, kernelVars, clientVars>>

Offsets == 0 .. BUFFER_SIZE - 1

\* A completion whose result is FALSE carries no byte count worth reading.
Packet(c, bytes, ok) == [conn |-> c, bytes |-> bytes, ok |-> ok]
Idle == [pc |-> "get", conn |-> NoConn, bytes |-> 0]

Init ==
  /\ main = [pc |-> "accept", conn |-> NoConn]
  /\ worker = [w \in Workers |-> Idle]
  /\ io = [c \in Conns |-> [mem |-> "none", buf |-> 0, len |-> 0,
                            bytesSent |-> 0, bytesReceived |-> 0]]
  /\ data = [c \in Conns |-> [i \in Offsets |-> 0]]
  /\ sock = [c \in Conns |-> "none"]
  /\ posted = {} /\ completed = {}
  /\ sent = [c \in Conns |-> 0] /\ taken = [c \in Conns |-> 0]
  /\ outbound = [c \in Conns |-> <<>>]
  /\ eof = [c \in Conns |-> FALSE] /\ reset = [c \in Conns |-> FALSE]

(***************************************************************************)
(* The accept loop, lines 155-182.  A failed accept() changes nothing.     *)
(***************************************************************************)
Accept(c) ==
  /\ main.pc = "accept" /\ sock[c] = "none"
  /\ main' = [pc |-> "post", conn |-> c]
  /\ sock' = [sock EXCEPT ![c] = "open"]
  /\ io' = [io EXCEPT ![c] = [mem |-> "live", buf |-> 0, len |-> BUFFER_SIZE,
                              bytesSent |-> 0, bytesReceived |-> 0]]
  /\ UNCHANGED <<worker, data, kernelVars, clientVars>>

\* closesocket(socket); delete perIoData
Release(c) == /\ sock' = [sock EXCEPT ![c] = "closed"]
              /\ io' = [io EXCEPT ![c].mem = "freed"]

\* WSARecv when nothing of the last buffer is left to send, else WSASend.
Request(c) == [conn |-> c, kind |-> IF io[c].bytesReceived = 0 THEN "recv" ELSE "send",
               buf |-> io[c].buf, len |-> io[c].len]

\* An overlapped call fails at once only on a connection already reset.
PostFirst ==
  /\ main.pc = "post"
  /\ posted' = posted \cup {Request(main.conn)}
  /\ main' = [pc |-> "accept", conn |-> NoConn]
  /\ UNCHANGED <<worker, io, data, sock, completed, taken, outbound, clientVars>>

PostFirstFails ==
  /\ main.pc = "post" /\ reset[main.conn]
  /\ Release(main.conn)
  /\ main' = [pc |-> "accept", conn |-> NoConn]
  /\ UNCHANGED <<worker, data, kernelVars, clientVars>>

(***************************************************************************)
(* WorkerThread, lines 30-89.                                              *)
(***************************************************************************)
\* GetQueuedCompletionStatus; on FALSE the loop just continues (line 40).
Dequeue(w, p) ==
  /\ worker[w].pc = "get" /\ p \in completed
  /\ completed' = completed \ {p}
  /\ worker' = [worker EXCEPT ![w] =
       IF p.ok THEN [pc |-> "check", conn |-> p.conn, bytes |-> p.bytes] ELSE Idle]
  /\ UNCHANGED <<main, io, data, sock, posted, taken, outbound, clientVars>>

DisconnectNoClose(w) ==
  /\ worker[w].pc = "check" /\ worker[w].bytes = 0
  /\ io' = [io EXCEPT ![worker[w].conn].mem = "freed"]
  /\ worker' = [worker EXCEPT ![w] = Idle]
  /\ UNCHANGED <<main, data, sock, kernelVars, clientVars>>
Disconnect(w) ==
  /\ worker[w].pc = "check" /\ worker[w].bytes = 0
  /\ Release(worker[w].conn)
  /\ worker' = [worker EXCEPT ![w] = Idle]
  /\ UNCHANGED <<main, data, kernelVars, clientVars>>

\* Lines 51-54: a receive has filled n bytes of the buffer, send them.
NewDataNoLen(d, n) == [d EXCEPT !.bytesSent = 0, !.bytesReceived = n]
NewData(d, n) == [d EXCEPT !.len = n, !.bytesSent = 0, !.bytesReceived = n]

\* Lines 58-62: part of the buffer is sent, send what is left.
SendRestWholeLength(d, n) == [d EXCEPT !.bytesSent = n, !.buf = n]
SendRestSwapped(d, n) == [d EXCEPT !.bytesSent = n, !.buf = n, !.len = n - d.bytesReceived]
SendRest(d, n) == [d EXCEPT !.bytesSent = n, !.buf = n, !.len = d.bytesReceived - n]

\* Lines 65-69: everything is sent, receive again.
BackToReceive(d) == [d EXCEPT !.buf = 0, !.len = BUFFER_SIZE,
                              !.bytesReceived = 0, !.bytesSent = 0]

\* Lines 50-71: what the record says once n bytes were transferred.
AfterTransferUnchecked(d, n) ==
  IF d.bytesReceived = 0 THEN NewData(d, n) ELSE BackToReceive(d)
AfterTransfer(d, n) ==
  IF d.bytesReceived = 0 THEN NewData(d, n)
  ELSE IF d.bytesSent + n < d.bytesReceived THEN SendRest(d, d.bytesSent + n)
  ELSE BackToReceive(d)

Update(w) ==
  LET c == worker[w].conn IN
  /\ worker[w].pc = "check" /\ worker[w].bytes > 0
  /\ io' = [io EXCEPT ![c] = AfterTransfer(@, worker[w].bytes)]
  /\ worker' = [worker EXCEPT ![w].pc = "post"]
  /\ UNCHANGED <<main, data, sock, kernelVars, clientVars>>

PostReadAhead(w) ==
  LET c == worker[w].conn IN
  /\ worker[w].pc = "post"
  /\ posted' = posted \cup {Request(c),
                 [conn |-> c, kind |-> "recv", buf |-> 0, len |-> BUFFER_SIZE]}
  /\ worker' = [worker EXCEPT ![w] = Idle]
  /\ UNCHANGED <<main, io, data, sock, completed, taken, outbound, clientVars>>
PostPendingIsError(w) ==
  /\ worker[w].pc = "post"
  /\ posted' = posted \cup {Request(worker[w].conn)}
  /\ Release(worker[w].conn)
  /\ worker' = [worker EXCEPT ![w] = Idle]
  /\ UNCHANGED <<main, data, completed, taken, outbound, clientVars>>
Post(w) ==
  /\ worker[w].pc = "post"
  /\ posted' = posted \cup {Request(worker[w].conn)}
  /\ worker' = [worker EXCEPT ![w] = Idle]
  /\ UNCHANGED <<main, io, data, sock, completed, taken, outbound, clientVars>>

PostFails(w) ==
  /\ worker[w].pc = "post" /\ reset[worker[w].conn]
  /\ Release(worker[w].conn)
  /\ worker' = [worker EXCEPT ![w] = Idle]
  /\ UNCHANGED <<main, data, kernelVars, clientVars>>

(***************************************************************************)
(* The kernel, as the code uses it: a posted request completes once, with  *)
(* 1 to len bytes, with 0 bytes at the end of the stream, or in failure.   *)
(***************************************************************************)
Complete(r, bytes, ok) ==
  /\ r \in posted
  /\ posted' = posted \ {r}
  /\ completed' = completed \cup {Packet(r.conn, bytes, ok)}

CompleteRecv(r, k) ==
  LET c == r.conn IN
  /\ r.kind = "recv" /\ ~reset[c] /\ taken[c] + k <= sent[c]
  /\ Complete(r, k, TRUE)
  /\ taken' = [taken EXCEPT ![c] = @ + k]
  /\ data' = [data EXCEPT ![c] = [i \in Offsets |->
       IF i \in r.buf .. r.buf + k - 1 THEN taken[c] + (i - r.buf) + 1 ELSE data[c][i]]]
  /\ UNCHANGED <<main, worker, io, sock, outbound, clientVars>>

CompleteEof(r) ==
  /\ r.kind = "recv" /\ ~reset[r.conn] /\ eof[r.conn] /\ taken[r.conn] = sent[r.conn]
  /\ Complete(r, 0, TRUE)
  /\ UNCHANGED <<serverVars, taken, outbound, clientVars>>

CompleteSend(r, k) ==
  LET c == r.conn IN
  /\ r.kind = "send" /\ ~reset[c]
  /\ Complete(r, k, TRUE)
  /\ outbound' = [outbound EXCEPT ![c] = @ \o [i \in 1..k |-> data[c][r.buf + i - 1]]]
  /\ UNCHANGED <<serverVars, taken, clientVars>>

Abort(r) ==
  /\ reset[r.conn]
  /\ Complete(r, 0, FALSE)
  /\ UNCHANGED <<serverVars, taken, outbound, clientVars>>

(***************************************************************************)
(* The clients.                                                            *)
(***************************************************************************)
Write(c) ==
  /\ ~eof[c] /\ ~reset[c] /\ sent[c] < MaxBytes
  /\ sent' = [sent EXCEPT ![c] = @ + 1]
  /\ UNCHANGED <<serverVars, kernelVars, eof, reset>>

Shutdown(c) ==
  /\ ~eof[c] /\ ~reset[c]
  /\ eof' = [eof EXCEPT ![c] = TRUE]
  /\ UNCHANGED <<serverVars, kernelVars, sent, reset>>

Reset(c) ==
  /\ ~reset[c]
  /\ reset' = [reset EXCEPT ![c] = TRUE]
  /\ UNCHANGED <<serverVars, kernelVars, sent, eof>>

Main == (\E c \in Conns : Accept(c)) \/ PostFirst \/ PostFirstFails
Worker(w) == \/ \E p \in completed : Dequeue(w, p)
             \/ Disconnect(w) \/ Update(w) \/ Post(w) \/ PostFails(w)
Kernel(r) == \/ \E k \in 1..r.len : CompleteRecv(r, k) \/ CompleteSend(r, k)
             \/ CompleteEof(r) \/ Abort(r)
Client(c) == Write(c) \/ Shutdown(c) \/ Reset(c)

Next == \/ Main
        \/ \E w \in Workers : Worker(w)
        \/ \E r \in posted : Kernel(r)
        \/ \E c \in Conns : Client(c)

Spec == Init /\ [][Next]_vars

(***************************************************************************)
(* Fairness.  accept() returns a waiting connection, a started thread      *)
(* keeps running, a queued packet is handed to some worker (the port is a  *)
(* FIFO queue), and the kernel completes a request once it can, which for  *)
(* a send supposes a client that keeps reading.  Clients owe nothing.      *)
(***************************************************************************)
Fairness ==
  /\ WF_vars(PostFirst \/ PostFirstFails)
  /\ \A c \in Conns :
       /\ WF_vars(Accept(c))
       /\ WF_vars(\E w \in Workers, p \in completed : p.conn = c /\ Dequeue(w, p))
       /\ WF_vars(\E r \in posted : r.conn = c /\ Kernel(r))
  /\ \A w \in Workers : WF_vars(Disconnect(w) \/ Update(w) \/ Post(w) \/ PostFails(w))

FairSpec == Spec /\ Fairness

-----------------------------------------------------------------------------
IoData == [mem : {"none", "live", "freed"}, buf : 0..BUFFER_SIZE, len : 0..BUFFER_SIZE,
           bytesSent : 0..BUFFER_SIZE, bytesReceived : 0..BUFFER_SIZE]

ServerTypeOK ==
  /\ main \in [pc : {"accept", "post"}, conn : Conns \cup {NoConn}]
  /\ worker \in [Workers -> [pc : {"get", "check", "post"},
                             conn : Conns \cup {NoConn}, bytes : 0..BUFFER_SIZE]]
  /\ io \in [Conns -> IoData]
  /\ data \in [Conns -> [Offsets -> Nat]]
  /\ sock \in [Conns -> {"none", "open", "closed"}]

KernelTypeOK ==
  /\ posted \subseteq [conn : Conns, kind : {"recv", "send"},
                       buf : 0..BUFFER_SIZE, len : 0..BUFFER_SIZE]
  /\ completed \subseteq [conn : Conns, bytes : 0..BUFFER_SIZE, ok : BOOLEAN]
  /\ taken \in [Conns -> Nat]
  /\ outbound \in [Conns -> Seq(Nat)]

ClientTypeOK ==
  /\ sent \in [Conns -> Nat]
  /\ eof \in [Conns -> BOOLEAN]
  /\ reset \in [Conns -> BOOLEAN]

\* Every variable keeps its type; in particular the offset, the length and
\* the byte counters of a record never leave 0..BUFFER_SIZE (lines 15-22,
\* 50-71), where the code computes with unsigned DWORDs.
TypeOK == ServerTypeOK /\ KernelTypeOK /\ ClientTypeOK

KernelHoldsOnce ==
  /\ \A r, q \in posted : r.conn = q.conn => r = q
  /\ \A p, q \in completed : p.conn = q.conn => p = q
  /\ \A r \in posted, p \in completed : r.conn # p.conn

WorkerHoldsAlone ==
  \A w \in Workers : worker[w].pc # "get" =>
    /\ \A v \in Workers \ {w} : worker[v].conn # worker[w].conn
    /\ \A r \in posted : r.conn # worker[w].conn
    /\ \A p \in completed : p.conn # worker[w].conn

MainHoldsAlone ==
  main.pc = "post" =>
    /\ \A w \in Workers : worker[w].conn # main.conn
    /\ \A r \in posted : r.conn # main.conn
    /\ \A p \in completed : p.conn # main.conn

\* The record of a connection is with at most one of: main, a worker, the
\* kernel (a posted request), the port (a queued packet).  This is what
\* stands in for a lock in lines 30-89 and 155-182.
OneHolder == KernelHoldsOnce /\ WorkerHoldsAlone /\ MainHoldsAlone

Usable(c) == io[c].mem = "live" /\ sock[c] = "open"

\* Whoever is about to touch a record or its socket finds it allocated and
\* open: nothing is used after lines 45-46, 85-86 or 179-180 released it.
NoUseAfterRelease ==
  /\ \A w \in Workers : worker[w].pc # "get" => Usable(worker[w].conn)
  /\ \A r \in posted : Usable(r.conn)
  /\ \A p \in completed : Usable(p.conn)
  /\ main.pc = "post" => Usable(main.conn)

\* No request lets the kernel read or write outside dataBuffer, and none
\* asks for zero bytes (lines 52, 61-62, 66-67, 169-170).
RequestInBuffer ==
  \A r \in posted : r.len > 0 /\ r.buf + r.len <= BUFFER_SIZE

\* What a client gets back is its own stream from the first byte on: no byte
\* is lost, repeated or reordered by a partial send (lines 56-71).
EchoInOrder ==
  \A c \in Conns : /\ Len(outbound[c]) <= taken[c] /\ taken[c] <= sent[c]
                   /\ outbound[c] = [i \in 1..Len(outbound[c]) |-> i]

\* The first n bytes of the buffer are the last n the kernel handed over.
Filled(c, n) == n <= taken[c] /\ \A i \in 0 .. n - 1 : data[c][i] = taken[c] - n + i + 1

\* Everything of c transferred so far is accounted for in its record.
Settled(c) ==
  /\ Len(outbound[c]) = taken[c] - io[c].bytesReceived + io[c].bytesSent
  /\ Filled(c, io[c].bytesReceived)

\* A transfer of n bytes on c is reported but not yet in its record.
Landed(c, n) ==
  /\ n <= io[c].len
  /\ IF io[c].bytesReceived = 0
     THEN Len(outbound[c]) = taken[c] - n /\ Filled(c, n)
     ELSE /\ n > 0 /\ Filled(c, io[c].bytesReceived)
          /\ Len(outbound[c]) = taken[c] - io[c].bytesReceived + io[c].bytesSent + n

\* The offset, length and counters of a record say the same thing about what
\* is left to send, whoever holds it.
RecordCoherent(d) ==
  IF d.bytesReceived = 0
  THEN d.buf = 0 /\ d.len = BUFFER_SIZE /\ d.bytesSent = 0
  ELSE d.bytesSent < d.bytesReceived /\ d.buf = d.bytesSent
       /\ d.len = d.bytesReceived - d.bytesSent

RecordsCoherent == \A c \in Conns : io[c].mem = "live" => RecordCoherent(io[c])
MainPosition == main.pc = "post" => Settled(main.conn)
PostedPosition == \A r \in posted : r = Request(r.conn) /\ Settled(r.conn)
CompletedPosition == \A p \in completed : p.ok => Landed(p.conn, p.bytes)
WorkerPosition ==
  \A w \in Workers : /\ worker[w].pc = "post" => Settled(worker[w].conn)
                     /\ worker[w].pc = "check" => Landed(worker[w].conn, worker[w].bytes)

\* Each holder of a record finds it in the state its next step supposes: the
\* next byte a send takes from the buffer is the next byte of the stream
\* (lines 50-81).
StreamPosition ==
  /\ EchoInOrder /\ RecordsCoherent
  /\ MainPosition /\ PostedPosition /\ CompletedPosition /\ WorkerPosition

\* A thread between two records holds none; a connection not yet accepted
\* has transferred nothing.
Unheld ==
  /\ main.pc = "accept" <=> main.conn = NoConn
  /\ \A w \in Workers : worker[w].pc = "get" <=> worker[w].conn = NoConn
  /\ \A c \in Conns : /\ sock[c] = "none" <=> io[c].mem = "none"
                      /\ io[c].mem = "none" => taken[c] = 0 /\ outbound[c] = <<>>

IInv == TypeOK /\ Unheld /\ OneHolder /\ NoUseAfterRelease /\ StreamPosition

\* The server implements the echo service.
Echo == INSTANCE EchoService WITH submitted <- sent, echoed <- outbound
EchoSpec == Echo!Spec

\* Every byte written on a connection that is never reset comes back, also
\* when the client shuts down right after writing (lines 43-81).
EveryByteEchoed ==
  \A c \in Conns, n \in 1..MaxBytes :
    sent[c] >= n ~> (Len(outbound[c]) >= n \/ reset[c])

\* A client that says goodbye gets its socket closed and its record deleted.
ReleasedAfterShutdown ==
  \A c \in Conns : eof[c] ~> ((io[c].mem = "freed" /\ sock[c] = "closed") \/ reset[c])

\* Line 44 takes "client disconnected" to be a transfer of zero bytes and
\* releases the connection there: so every client that is gone is released.
ReleasedAfterDisconnect ==
  \A c \in Conns : reset[c] ~> (io[c].mem = "freed" /\ sock[c] = "closed")
=============================================================================
