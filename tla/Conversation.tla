---------------------------- MODULE Conversation ----------------------------
(***************************************************************************)
(* Two of the programs of module Programs, run against each other: two     *)
(* processes with their threads, what each process holds, and the network  *)
(* between them.                                                           *)
(*                                                                         *)
(* A byte stream keeps no message boundaries.  A message is two pieces,    *)
(* and one recv() takes any non-empty run of pieces that fits its buffer:  *)
(* half a message, a message, or a message and part of the next.  A        *)
(* datagram is lost or arrives whole, a pipe's message arrives whole.      *)
(***************************************************************************)
EXTENDS Programs

CONSTANTS Pairs,        \* the pairs of programs to look at
          MaxPieces     \* bound: pieces on their way in one direction

\* (A message is two pieces.)
ASSUME PairsAssumption == Pairs \subseteq DOMAIN Programs /\ MaxPieces \in Nat /\ MaxPieces >= 2

Procs == {"server", "client"}
Other(p) == IF p = "server" THEN "client" ELSE "server"
Threads == {"main", "receiver", "sender"}

VARIABLES
  pair,     \* the pair of programs that runs
  pc,       \* pc[p][t]: index of the next step of thread t of process p, or where it ended
  held,     \* held[p]: what p has acquired and not released
  running,  \* running[p]: the flag that stops the threads of p
  got,      \* got[p]: the pieces p received last, and keeps
  wire,     \* wire[p]: the pieces on their way to p
  ended,    \* ended[p]: p has shut down its side of the connection
  link      \* the connection: "none", "listening", "pending", "up" or "lost"

vars == <<pair, pc, held, running, got, wire, ended, link>>

Code(p) == Programs[pair][p]
Here(p, t) == Code(p)[pc[p][t]]

\* When main() returns the process ends, and its other threads with it.
Alive(p) == pc[p]["main"] \notin {Return, Crashed}
Runs(p, t) == Alive(p) /\ pc[p][t] \in DOMAIN Code(p)
At(p, t, op) == Runs(p, t) /\ Here(p, t).op = op

Msg(m) == <<<<m, 1>>, <<m, 2>>>>
NoBytes == <<"no bytes", 0>>    \* a pipe's message may be empty

\* Line 31 of server_validation_crc.cpp.  Only the two texts that are sent
\* encrypted matter; any other text is turned into neither of them.
Xored(m) == CASE m = "handshake" -> "xhandshake" [] m = "xhandshake" -> "handshake"
              [] m = "data" -> "xdata" [] m = "xdata" -> "data" [] OTHER -> m

\* crc32(): equal on equal texts, different on the texts told apart here.
Crc(s) == CASE s = Msg("data") -> "crc data" [] s = Msg("xdata") -> "crc xdata"
            [] s = Msg("file") -> "crc file" [] OTHER -> "crc of something else"

\* What a send step may put on the wire.  A line that was typed may be empty,
\* and send() of no bytes sends nothing; there may be no token to send.
Payloads(p, m) == CASE m = "echo" -> {got[p]}
                    [] m = "crc"  -> {Msg(Crc(got[p]))}
                    [] m = "pipe line" -> {<<NoBytes>>, Msg("line")}
                    [] m \in {"line", "token"} -> {<<>>, Msg(m)}
                    [] OTHER      -> {Msg(m)}

\* Leave the step by its normal way, or by the branch b.  A thread may end the
\* process it belongs to.
Below(p, t) == IF pc[p][t] = Len(Code(p)) THEN Return ELSE pc[p][t] + 1
Jump(p, t, to) ==
  pc' = IF to = Crashed THEN [pc EXCEPT ![p]["main"] = Crashed] ELSE [pc EXCEPT ![p][t] = to]
Advance(p, t) == Jump(p, t, IF Here(p, t).ok # Thru THEN Here(p, t).ok ELSE Below(p, t))
Branch(p, t, b) ==
  /\ Jump(p, t, IF b.to # Thru THEN b.to ELSE Below(p, t))
  /\ held' = [held EXCEPT ![p] = @ \ b.rel]

Init ==
  /\ pair \in Pairs
  /\ pc = [p \in Procs |-> [t \in Threads |-> IF t = "main" THEN 1 ELSE Unstarted]]
  /\ held = [p \in Procs |-> {}]
  /\ running = [p \in Procs |-> TRUE]
  /\ got = [p \in Procs |-> <<>>]
  /\ wire = [p \in Procs |-> <<>>]
  /\ ended = [p \in Procs |-> FALSE]
  /\ link = "none"

(***************************************************************************)
(* What the steps do when they succeed.                                    *)
(***************************************************************************)
Acquired(p, t) ==
  /\ At(p, t, "acquire")
  /\ held' = [held EXCEPT ![p] = @ \cup {Here(p, t).arg}]
  /\ Advance(p, t)
  /\ UNCHANGED <<pair, running, got, wire, ended, link>>

Called(p, t) ==
  /\ At(p, t, "call") /\ Advance(p, t)
  /\ UNCHANGED <<pair, held, running, got, wire, ended, link>>

Released(p, t) ==
  /\ At(p, t, "release")
  /\ held' = [held EXCEPT ![p] = @ \ Here(p, t).fail.rel]
  /\ Advance(p, t)
  /\ UNCHANGED <<pair, running, got, wire, ended, link>>

Listening(p, t) ==
  /\ At(p, t, "listen") /\ Advance(p, t)
  /\ link' = "listening"
  /\ UNCHANGED <<pair, held, running, got, wire, ended>>

\* The queue of connections is that of the listening socket: no socket, no
\* connection.
Listens == Alive("server") /\ "listen" \in held["server"] /\ link = "listening"

Connected(p, t) ==
  /\ At(p, t, "connect") /\ Listens
  /\ link' = "pending" /\ Advance(p, t)
  /\ UNCHANGED <<pair, held, running, got, wire, ended>>

\* WSAEWOULDBLOCK: the system goes on connecting.
ConnectStarted(p, t) ==
  /\ At(p, t, "connectNow") /\ Advance(p, t)
  /\ link' = IF Listens THEN "pending" ELSE link
  /\ UNCHANGED <<pair, held, running, got, wire, ended>>

Accepted(p, t) ==
  /\ At(p, t, "accept") /\ link = "pending"
  /\ link' = "up" /\ Advance(p, t)
  /\ held' = [held EXCEPT ![p] = @ \cup {"conn"}]
  /\ UNCHANGED <<pair, running, got, wire, ended>>

ShutDown(p, t) ==
  /\ At(p, t, "shutdown") /\ Advance(p, t)
  /\ ended' = [ended EXCEPT ![p] = TRUE]
  /\ UNCHANGED <<pair, held, running, got, wire, link>>

\* A call on a socket the process has closed, or whose connection is lost or
\* was never made, fails.
Linked(p) == "conn" \in held[p] /\ link \in {"pending", "up"}
RoomBefore(p, s) == Len(wire[Other(p)]) <= MaxPieces
Room(p, s) == Len(wire[Other(p)]) + Len(s) <= MaxPieces

Sent(p, t) ==
  /\ At(p, t, "send") \/ At(p, t, "sendNow")
  /\ Linked(p)
  /\ \E s \in Payloads(p, Here(p, t).arg) :
       /\ Room(p, s)
       /\ wire' = [wire EXCEPT ![Other(p)] = @ \o s]
  /\ Advance(p, t)
  /\ UNCHANGED <<pair, held, running, got, ended, link>>

\* WSAEWOULDBLOCK from a send() in non-blocking mode: any failure is the end.
NoRoom(p, t) ==
  /\ At(p, t, "sendNow") /\ Linked(p) /\ ~Room(p, Msg(Here(p, t).arg))
  /\ Branch(p, t, Here(p, t).fail)
  /\ UNCHANGED <<pair, running, got, wire, ended, link>>

\* A datagram is lost, or arrives if the other end is bound (the client's
\* own sendto() binds it; a raw socket need not be).
SentTo(p, t) ==
  /\ At(p, t, "sendto") /\ "conn" \in held[p]
  /\ \E s \in {<<>>, Msg(Here(p, t).arg)} :
       /\ s # <<>> => (pair = "icmp" \/ link = "listening") /\ "conn" \in held[Other(p)]
       /\ Room(p, s)
       /\ wire' = [wire EXCEPT ![Other(p)] = @ \o s]
  /\ Advance(p, t)
  /\ UNCHANGED <<pair, held, running, got, ended, link>>

SizeOfBuffer(p, step) == CASE step.op \in {"recvfrom", "read"} -> 2
                           [] step.arg = "piece" -> 1
                           [] step.arg = "rest"  -> 2 - Len(got[p])
                           [] OTHER              -> MaxPieces
Size(p, step) == CASE step.op \in {"recvfrom", "read"} -> 2
                   [] step.arg = "piece"    -> 1
                   [] step.arg = "message"  -> 2
                   [] step.arg = "rest"     -> 2 - Len(got[p])
                   [] OTHER                 -> MaxPieces

\* What the program keeps of the pieces s: nothing if it only prints them;
\* "rest" is a receive into the buffer behind what is there.
Kept(p, step, s) == CASE step.arg = "shown" -> got[p]
                      [] step.arg = "rest"  -> got[p] \o s
                      [] OTHER              -> s

\* Bytes arrived.
Received(p, t) ==
  /\ At(p, t, "recv") \/ At(p, t, "recvNow") \/ At(p, t, "recvfrom") \/ At(p, t, "read")
  /\ "conn" \in held[p]
  /\ wire[p] # <<>> => Head(wire[p]) # NoBytes
  /\ \E n \in 1..Len(wire[p]) :
       /\ n <= Size(p, Here(p, t))
       /\ Here(p, t).op \in {"recvfrom", "read"} => n = 2
       /\ got' = [got EXCEPT ![p] = Kept(p, Here(p, t), SubSeq(wire[p], 1, n))]
       /\ wire' = [wire EXCEPT ![p] = SubSeq(@, n + 1, Len(@))]
  /\ Advance(p, t)
  /\ UNCHANGED <<pair, held, running, ended, link>>

\* p can still send: a process that returned or died has its sockets closed
\* by the system, and a connection nobody accepted ends with the listener.
Open(p) ==
  /\ Alive(p) /\ ~ended[p]
  /\ IF p = "server" /\ link = "pending" THEN "listen" \in held[p] ELSE "conn" \in held[p]

\* recv() returned 0.
ReceivedEnd(p, t) ==
  /\ At(p, t, "recv") \/ At(p, t, "recvNow") \/ At(p, t, "read")
  /\ Linked(p) /\ wire[p] = <<>> /\ ~Open(Other(p))
  /\ Branch(p, t, Here(p, t).zero)
  /\ UNCHANGED <<pair, running, got, wire, ended, link>>

\* ReadFile returned no bytes, as one message has none.
ReadNoBytes(p, t) ==
  /\ At(p, t, "read") /\ "conn" \in held[p] /\ wire[p] # <<>> /\ Head(wire[p]) = NoBytes
  /\ wire' = [wire EXCEPT ![p] = Tail(@)]
  /\ Branch(p, t, Here(p, t).zero)
  /\ UNCHANGED <<pair, running, got, ended, link>>

\* WSAEWOULDBLOCK: the programs treat it as any failure.
NothingYet(p, t) ==
  /\ At(p, t, "recvNow") /\ "conn" \in held[p] /\ wire[p] = <<>>
  /\ Branch(p, t, Here(p, t).fail)
  /\ UNCHANGED <<pair, running, got, wire, ended, link>>

Compared(p, t) ==
  /\ At(p, t, "match") \/ At(p, t, "matchPrefix") \/ At(p, t, "full")
  /\ LET m == Msg(Here(p, t).arg)
         same == CASE Here(p, t).op = "match" -> got[p] = m
                   [] Here(p, t).op = "full"  -> Len(got[p]) >= 2
                   [] OTHER -> Len(got[p]) <= Len(m) /\ SubSeq(m, 1, Len(got[p])) = got[p]
     IN  IF same THEN Advance(p, t) /\ UNCHANGED held ELSE Branch(p, t, Here(p, t).fail)
  /\ UNCHANGED <<pair, running, got, wire, ended, link>>

Decrypted(p, t) ==
  /\ At(p, t, "xor") /\ Advance(p, t)
  /\ got' = [got EXCEPT ![p] = [i \in DOMAIN @ |-> <<Xored(@[i][1]), @[i][2]>>]]
  /\ UNCHANGED <<pair, held, running, wire, ended, link>>

DidNothing(p, t) ==
  /\ At(p, t, "undefined") /\ Advance(p, t)
  /\ UNCHANGED <<pair, held, running, got, wire, ended, link>>

NotConnected(p, t) ==
  /\ \E op \in {"send", "sendNow", "recv", "recvNow", "read"} : At(p, t, op)
  /\ ~Linked(p)
  /\ Branch(p, t, Here(p, t).fail)
  /\ UNCHANGED <<pair, running, got, wire, ended, link>>

\* Calls on the handle of a pipe that was opened without FILE_FLAG_OVERLAPPED
\* are made one after another: one that another thread has begun and not ended
\* is waited for, and a read does not end before there is something to read.
InCall(p, t) == At(p, t, "send") \/ At(p, t, "recv")
HandleBusy(p, t) == \E u \in Threads \ {t} : InCall(p, u)

Begun(p, t) ==
  /\ At(p, t, "begin") /\ ~HandleBusy(p, t)
  /\ Advance(p, t)
  /\ UNCHANGED <<pair, held, running, got, wire, ended, link>>

(***************************************************************************)
(* Threads.                                                                *)
(***************************************************************************)
Spawned(p, t) ==
  /\ At(p, t, "spawn")
  /\ LET new == Here(p, t).arg
     IN  pc' = [pc EXCEPT ![p][t] = @ + 1, ![p][new[1]] = new[2]]
  /\ UNCHANGED <<pair, held, running, got, wire, ended, link>>

JoinedAtOnce(p, t) ==
  /\ At(p, t, "join")
  /\ Advance(p, t)
  /\ UNCHANGED <<pair, held, running, got, wire, ended, link>>
Joined(p, t) ==
  /\ At(p, t, "join") /\ pc[p][Here(p, t).arg] = Left
  /\ Advance(p, t)
  /\ UNCHANGED <<pair, held, running, got, wire, ended, link>>

LookedAtFlag(p, t) ==
  /\ At(p, t, "while")
  /\ IF running[p] THEN Advance(p, t) /\ UNCHANGED held ELSE Branch(p, t, Here(p, t).fail)
  /\ UNCHANGED <<pair, running, got, wire, ended, link>>

ClearedFlag(p, t) ==
  /\ At(p, t, "stop") /\ Advance(p, t)
  /\ running' = [running EXCEPT ![p] = FALSE]
  /\ UNCHANGED <<pair, held, got, wire, ended, link>>

(***************************************************************************)
(* What may go wrong: the connection is lost, and both ends will notice;   *)
(* or a call fails for whatever reason the system has.                     *)
(***************************************************************************)
Lose ==
  /\ link \in {"pending", "up"}
  /\ link' = "lost"
  /\ UNCHANGED <<pair, pc, held, running, got, wire, ended>>

\* Bytes for a process that has closed the connection are answered by a reset.
Reset(p) ==
  /\ link = "up" /\ wire[p] # <<>> /\ ~(Alive(p) /\ "conn" \in held[p])
  /\ link' = "lost"
  /\ UNCHANGED <<pair, pc, held, running, got, wire, ended>>

Fallible == {"acquire", "call", "listen", "connect", "connectNow", "accept", "shutdown",
             "sendto", "recvfrom", "undefined", "spawn"}

FailedKeeps(p, t) ==
  /\ Runs(p, t) /\ Here(p, t).op \in Fallible
  /\ Branch(p, t, [Here(p, t).fail EXCEPT !.rel = {}])
  /\ UNCHANGED <<pair, running, got, wire, ended, link>>
Failed(p, t) ==
  /\ Runs(p, t) /\ Here(p, t).op \in Fallible
  /\ Branch(p, t, Here(p, t).fail)
  /\ UNCHANGED <<pair, running, got, wire, ended, link>>

Goes(p, t) ==
  \/ Acquired(p, t) \/ Called(p, t) \/ Released(p, t) \/ Listening(p, t)
  \/ Connected(p, t) \/ ConnectStarted(p, t) \/ Accepted(p, t) \/ ShutDown(p, t)
  \/ Sent(p, t) \/ NoRoom(p, t) \/ SentTo(p, t) \/ Received(p, t) \/ ReceivedEnd(p, t)
  \/ ReadNoBytes(p, t) \/ NothingYet(p, t) \/ NotConnected(p, t) \/ Compared(p, t) \/ Decrypted(p, t)
  \/ DidNothing(p, t) \/ Begun(p, t) \/ Spawned(p, t) \/ Joined(p, t)
  \/ LookedAtFlag(p, t) \/ ClearedFlag(p, t)

Next == \/ Lose
        \/ \E p \in Procs : Reset(p)
        \/ \E p \in Procs, t \in Threads : Goes(p, t) \/ Failed(p, t)

Spec == Init /\ [][Next]_vars

\* The threads keep running, whoever sits at the keyboard types a line in the
\* end, and a reset gets through; that a call fails is never promised.
FairSpec == /\ Spec
            /\ \A p \in Procs, t \in Threads : WF_vars(Goes(p, t))
            /\ \A p \in Procs : WF_vars(Reset(p))

-----------------------------------------------------------------------------
Resources == {"wsa", "addr", "listen", "conn"}

\* Pairs that talk until somebody goes, and those that come to an end.
Chats == {"crc", "cng", "chatbox", "pipe", "polling"}
Exchanges == {"winsock", "sample", "auth", "validation", "file", "tls"}
Streams == Exchanges \cup Chats

TypeOK ==
  /\ pair \in Pairs
  /\ \A p \in Procs : \A t \in Threads :
       pc[p][t] \in DOMAIN Code(p) \cup {Return, Crashed, Left, Unstarted}
  /\ held \in [Procs -> SUBSET Resources]
  /\ running \in [Procs -> BOOLEAN]
  /\ \A p \in Procs : Len(wire[p]) <= MaxPieces /\ Len(got[p]) <= MaxPieces
  /\ ended \in [Procs -> BOOLEAN]
  /\ link \in {"none", "listening", "pending", "up", "lost"}

\* Whatever fails, a main() that returns has closed its sockets and left
\* Winsock.  (Not so the address list: see SampleClient, UdpClient and
\* NonBlockingClient.  And not the pthread programs, which leave what their
\* threads hold, and in the chat client everything, to the system.)
SocketsReleased ==
  pair \notin {"pthread", "descriptor"} =>
    \A p \in Procs : pc[p]["main"] = Return => held[p] \subseteq {"addr"}

\* No thread calls the system for a socket another thread of its process has
\* closed: main() joins its threads before it closes what they use.  (Not
\* PollingClient, whose receiver is detached.)
UsesOpen ==
  pair # "polling" =>
    \A p \in Procs, t \in Threads :
      (\E op \in {"send", "recv", "recvNow", "read", "sendto", "recvfrom", "shutdown"} : At(p, t, op))
        => "conn" \in held[p]

\* A server that got the whole header at once saves the file that was sent,
\* however the stream was cut (file_send_over_socket_s.cpp:64-98).
SavedIsSent == (pair = "file" /\ pc["server"]["main"] = 10) => got["server"] = Msg("file")

\* p has nothing to read, and each of its threads is held up: in a receive, in
\* a call that waits for its handle, for a thread that has not returned, or for
\* a client to accept.
HeldUp(p, t) ==
  \/ At(p, t, "recv") \/ At(p, t, "read") \/ At(p, t, "accept")
  \/ At(p, t, "begin") /\ HandleBusy(p, t)
  \/ At(p, t, "join") /\ pc[p][Here(p, t).arg] # Left
Waiting(p) ==
  /\ Open(p) /\ wire[p] = <<>>
  /\ \A t \in Threads : Runs(p, t) => HeldUp(p, t)

\* The two programs of a stream never both wait for the other to speak; but
\* those with the pipe do, see PipeIsEchoed.  (A main() at the keyboard waits
\* for nobody.  Both being held up in a send() without room is left out: it
\* depends on how much the network holds.)
NoMutualWait ==
  ~(pair \in Streams \ {"pipe"} /\ link = "up" /\ \A p \in Procs : Waiting(p))

\* server_af_unix.cpp:25, "Echo the message back to the client": a line that
\* the client writes gets to the server, and neither of them waits for ever.
PipeIsEchoed == ~(pair = "pipe" /\ link = "up" /\ \A p \in Procs : Waiting(p))

\* An exchange that has begun ends on both sides, also when one side gives up
\* in the middle of it; and when one side of a chat goes, whoever listens on
\* the other side notices.
Noticed(p) == ~Alive(p) \/ (pair \in {"chatbox", "pipe", "polling"} /\ pc[p]["receiver"] = Left)
BothEnd ==
  (pair \in Streams /\ link = "up" /\ (pair \in Exchanges \/ \E p \in Procs : ~Alive(p)))
    ~> (\A p \in Procs : Noticed(p))

\* When receiving fails, the flag stops the other thread as soon as it has
\* sent its line, and main() closes the socket and returns
\* (udp_multithreaded_server_chat.cpp:22-26, 37, 115-121).
FailureStopsChat ==
  \A p \in Procs : (pair = "udpchat" /\ pc[p]["receiver"] = Left) ~> ~Alive(p)

\* client_Code_with_crc.cpp:86-92: the file is resent only when the server
\* got something else than what was sent; once it has all of it, a CRC that
\* came whole agrees.
CrcFindsDamage ==
  (pair = "crc" /\ At("client", "main", "match") /\ wire["server"] = <<>>
     /\ got["client"] \in {Msg("crc file"), Msg("crc of something else")})
  => got["client"] = Msg("crc file")

\* logging_enabled_auth_client.cpp:39-42: the client says the server rejected
\* it only when the server did, which then never goes on to its handshake.
RejectionIsServers ==
  (pair = "auth" /\ pc["client"]["main"] = 8 /\ got["client"] # Msg("authenticated"))
  => pc["server"]["main"] \notin 10..15
=============================================================================
