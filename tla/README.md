# Verification of Prashant_Soni_embedded

The repository is a collection of small network and threading programs in C and
C++, most of them for Winsock, many of them a server with the client written for
it. There are no tests and no documents beyond comments. This directory holds
TLA+ models of the programs, the TLC runs that check them on small instances,
and TLAPS proofs for every component that is modelled: of all safety properties
the runs check, except one (section 5), and of one piece of arithmetic.

`PROJECT.json` is the index: components, runs, the source lines every definition
stands for, hazards, findings and theorems.

## 1. The system

| Program(s) | State | Operations | What is hard |
|---|---|---|---|
| `completionIo_server.cpp` (+ `_client`) | completion port, one heap record per connection | accept, post a receive or send, take a completion | no lock: the record is handed from main to the kernel to a worker; partial sends; failed completions |
| `synchronized_all_thread.cpp`, `synchronized_thread.cpp` | a counter, a mutex, a critical section, a semaphore | start threads, increment, wait, display, reset | lost updates, phases that overlap |
| `increment_decrement_thread.cpp` | a number, a critical section, two thread handles | increment, decrement, delete the critical section | unchecked handles, deletion under use |
| `server_multithreaded.c` | array of descriptors, count, mutex | accept, broadcast, disconnect | descriptor closed before it is taken out of the array, numbers used again, array limit |
| `ioctl_nonblocking_socket_server.cpp` | set of sockets, mutex | accept, poll, broadcast, disconnect | handle reuse, a thread that starts before its registration is over |
| `Asyn_non_blocking_winsock_server.cpp` | arrays of events and sockets | wait, accept, enumerate events, echo, close | stale entries, uninitialised event records, lost wake-ups |
| `ipv6_server.cpp` | slot array, `readfds` | select, accept, echo, close | uninitialised and stale slots, full array, a failed `select` that is gone on from |
| request/answer, authenticated, validated, TLS, AES pairs (`winsock_*`, `sample_ipv6_*`, `logging_enabled_auth_*`, `*_validation_crc`, `client_schannel` and `s_channel_server`, `CNG_*`) | what each process holds; the bytes on the wire | the calls of two `main()`s | error branches, who speaks next, split and merged receives, lost connections |
| `*_Code_with_crc.cpp` | a file, a CRC | send, check, resend | a CRC for what one receive returned against a CRC of the file |
| `file_send_over_socket_*.cpp` | header, body | send, receive | a header in parts, bytes of the body behind the header |
| `server_non_blocking.cpp`, `cllient_non_blcoking.txt`, chat clients (`client_multithreaded.c`, `ioctl_*_client.cpp`, `Asyn_*_client.cpp`), `ipv6_client.cpp` | one connection, sometimes a thread | send, receive | calls that would block, a socket closed under a detached thread |
| datagram programs (`server_udp`, `upp_client`, `broadcast_*`, `multicast_*`, `raw_*_icmp`) | one socket | send, receive | loss; the ICMP checksum |
| `udp_multithreaded_*_chat.cpp` | `running` flag, two threads | send, receive, join | threads nobody wakes |
| `Ipv6_chatbox_*`, `socket_ipv6*` | vector of threads | accept, echo | early return with joinable threads |
| `server_af_unix.cpp`, `client_af_unix.cpp` | vector of pipe handles | accept, echo | empty messages, two threads on one synchronous handle, unlocked vector |
| `threading_cpp.*` | - | five threads that print | nothing shared but the output |

Components interact over sockets (a server and its client, modelled as the two
processes of one module, or as the server and its environment), over locks and
shared variables (threads of one program), and through the operating system
(completion port, event objects, descriptor tables), which is modelled from how
the code uses it and marked external in the map.

What makes each correct, and what the modules below state:

* echo server: exclusive ownership of records, no use after release, a byte
  stream that comes back as it went in, release of every connection;
* counters: mutual exclusion, no lost update, exact totals, no phase left locked;
* chat servers: the registry and the open handles agree whatever number is
  reused, a message reaches everybody but its sender, the gone are removed;
* event server: every open connection is watched and no wake-up is lost;
* select server: a slot that is served holds an open socket, once; `recv` makes
  the server wait for one client only after a `select` that failed (its `send`,
  line 106, blocks for a client that does not read, and is not looked at);
* program pairs: whatever fails, sockets are released, and not while another
  thread uses them; the two sides never wait for each other, but for the pair
  with the pipe, which does (section 4); both end; a file is saved as it was
  sent.

## 2. Modules

| Module | Models | Notes |
|---|---|---|
| `EchoService` | what an echo server promises | abstract specification |
| `IocpEcho` | `completionIo_server.cpp` | refines `EchoService` |
| `IocpEchoProofs` | | proofs |
| `SyncCounters`, `MCSyncCounters` | `synchronized_all_thread.cpp`, `synchronized_thread.cpp` | `Phases` is the sequence of locks |
| `SyncCountersProofs` | | proofs |
| `IncrementDecrement`, `IncrementDecrementProofs` | `increment_decrement_thread.cpp` | |
| `ChatServer`, `ChatServerProofs` | `server_multithreaded.c` | any number of clients, descriptors and messages |
| `IoctlChat`, `IoctlChatProofs` | `ioctl_nonblocking_socket_server.cpp` | |
| `EventServer`, `MCEventServer`, `EventServerProofs` | `Asyn_non_blocking_winsock_server.cpp` | any number of clients, handles and events |
| `SelectServer`, `SelectServerProofs` | `ipv6_server.cpp` | any number of clients, slots and reused numbers |
| `Programs` | twenty pairs of programs, threads included, as step tables | data of `Conversation` |
| `Conversation`, `MCConversation` | a pair of those programs: two processes with their threads, and the network | |
| `ProgramLines` | | what the tables say line by line: an analysis of `Programs`, no model of its own |
| `ProgramTurns` | | whose turn it is to speak: what is to be seen of a pair at once, and all such views a pair comes to; again an analysis |
| `ProgramProofs` | | proofs about `Conversation`, from `ProgramLines` and `ProgramTurns`, and about `IcmpChecksum` |
| `IcmpChecksum` | the checksum of `raw_client_icmp.cpp` | operators only, proved about in `ProgramProofs` |

Definitions right above one whose name they extend (`SendRestWholeLength`,
`JoinedAtOnce`, ...) are deliberately wrong variants of it. They are no part of any
specification; putting one in the place of the right definition must make TLC
find a stated property violated, which shows that the property depends on that
piece of the code.

### How state and actions correspond to code

**IocpEcho.** `io[c]` is the `PER_IO_OPERATION_DATA` of connection `c` with
`buf` as an offset into `dataBuffer`; `data[c]` is that buffer; `worker[w]` holds
a worker's `perIoData`, `bytesTransferred` and program counter. A worker's turn
is `Dequeue` (37-41), then `Disconnect` (43-48) or `Update` (50-71), then `Post`
or `PostFails` (73-87). `posted` are overlapped requests the kernel works on,
`completed` the packets on the port, taken in any order. Bytes are numbered by
their position in the client's stream. The only immediate failure of an
overlapped call that is modelled is that of a reset connection.

**SyncCounters / IncrementDecrement.** One action per source line that touches
shared state; `x++` is `Read` then `Write`. `Wait...` is the infinite wait,
which in `IncrementDecrement` fails at once on a NULL handle, as the code does
not look at what `CreateThread` returned. `return 1` in main stops all threads.
Critical sections and mutexes are recursive in Windows; no thread here takes one
twice, so ownership is a single name.

**ChatServer.** `clients` is the part of the array in use, `fds` the kernel's
descriptor table. `Close` (line 46) and `Deregister` (48-59) are separate steps
since the lock is taken in between. Sending to a client that is gone may raise
SIGPIPE and end the process (`up`). A failed `pthread_create` is not noticed by
the code (positive error numbers) and neither by the model. Connections are
numbered in the order they are accepted, which only fixes their names.

**IoctlChat.** `open` is the system's handle table, `handler[c].todo` the rest
of the walk over the set. The critical section of main is three actions:
`Register` takes the lock and puts the handle into the set (115-116),
`StartThread` starts the thread (117-118), `UnlockMain` leaves (119). The thread
runs as soon as it is started, and may find its client gone while main still has
the lock. When the thread cannot be started the process ends (`Stop`).

**EventServer.** `entries` are the two parallel arrays. `signalled` are the set
events, `recorded` the network events of a connection not yet enumerated,
`enabled` those whose FD_READ (or FD_ACCEPT) will be posted again, re-enabled by
`recv` and `accept` as Winsock does. `Enum` on a closed handle yields any
network events, since `networkEvents` is uninitialised then.

**SelectServer.** `slot` is `client_sockets`, `readfds` what `select` left of the
set, `owner` the system's table of sockets, `peer` and `unread` the far ends. One
turn is `Select` (53-68), `Accept` or `AcceptFails` (68-85) if the listener is
readable, then one `Receive`, `Disconnect` or `Drop` (87-109) per readable slot, and
`EndTurn`. A set with anything in it that is no open socket makes `select` fail at
once and leaves `readfds` whole; the code prints that and goes on, so that
`accept` and `recv` are called on sockets that are not ready and block: their
actions then wait for a client to connect, speak or leave. The array starts as
any mixture of zeros and garbage. Garbage is supposed to be no socket's number.
A client accepted into a full array is in slot 0 only and is forgotten, still
open, with the next `accept`; since nobody can touch it any more, the model
gives its number and its client back.

**Programs / Conversation.** Every `main()` of these files is a sequence of
blocking calls, each with an error branch that releases some resources and
returns. A program is therefore a table with one row per call: what it does,
where it goes, and what its error branch releases; a thread function is a part
of the table that a `Spawn` row starts a thread at. `Conversation` has one
action per kind of call.

* `pc[p][t]` is where thread `t` of process `p` is: a row, `Unstarted`, `Left` (the
  thread function returned), or for main `Return` and `Crashed` (an exception
  nobody catches, `std::terminate`, SIGPIPE, `exit`). All threads end with their
  process. `Join` waits for `Left`; `WhileRunning` and `StopRunning` are the flag of
  the UDP chat programs.
* `held[p]` is what the process has acquired; `got[p]` the buffer it received
  into last; `wire[p]` what is on its way to it, in order.
* A message is two pieces, so that a receive can return half a message, one, or
  parts of two. A datagram is lost or arrives whole. A pipe keeps messages
  apart, and one of them may be empty (an empty line typed by the user).
* The client of the pipe opens it without `FILE_FLAG_OVERLAPPED`
  (`client_af_unix.cpp:29-37`), and Windows makes calls on such a handle one after
  another. A `Begin` row in front of its `WriteFile` and of its `ReadFile` is where a
  call waits for its handle: `Begun` is possible while no other thread of the
  process is in a call (`HandleBusy`). The server's handler has the handle of its
  instance to itself, and sockets are overlapped as `socket` makes them, so no
  other program has such rows.
* A program written to talk to a threaded server that is a model of its own
  (`ChatServer`, `IoctlChat`, `EventServer`) is run against `ChatPeer`, a server that
  accepts one client, sends and reads; `ipv6_client` is run against `SelectOne`,
  `ipv6_server` as its only client sees it. `ChatPeer` is modelled from what the
  clients expect of a server and marked external.
* main's `closesocket` and `WSACleanup` at the end are steps of their own where
  another thread can run in between; a call on a socket already closed fails.
* `NoRoom` is a non-blocking `send` whose bytes do not fit, which ends the client's
  conversation.
* What the ciphers, SSPI and Schannel compute is external: their calls succeed
  or fail, and their tokens are messages that may be empty.

**IcmpChecksum.** `checksum` is the function of that name on a header of four
16-bit words; `Once` and `Folded` are its two additions of the carry.

## 3. Runs

| Run | Instance | Shows |
|---|---|---|
| `iocp` | 2 connections, 2 workers, buffer 2, 2 bytes per client | ownership, no use after release, requests in bounds, refinement of `EchoService`; every byte is echoed, every goodbye releases |
| `iocp_abort` | 1 connection | finding: a reset connection is never released |
| `sync_all` | 3 threads, 2 increments, 3 phases | no lost update, totals, unlocked starts, termination of each phase |
| `inc_dec` | 3 iterations | exact result, safe deletion, termination |
| `chat` | 3 clients, 3 descriptors | array exact as a bag, a message reaches every client it should and never its sender, the gone are removed |
| `ioctl` | 3 clients, 2 handles | registry, handles and threads agree; addressing; broadcast; removal |
| `event` | 3 connections, 2 handles, 3 events | every open connection watched once, no lost wake-up, gone are closed or the server stopped |
| `select` | 3 clients, 3 handles, `MAX_CLIENTS = 3` | served slots are open and differ, waits only after a failed `select`, the gone are closed, no deadlock |
| `conversation` | 20 pairs, 4 pieces on the wire | sockets released and not used after, the file saved is the file sent, no mutual wait (the pipe aside), both end, a failure stops both threads |
| `pipe_hangs` | the pipe pair | finding: client and server wait for each other for ever |
| `crc_resend` | the CRC pair | finding: an undamaged file is sent again |
| `auth_rejected` | authenticated pair | finding: a rejection that never happened |

### Why the bounds are enough

* `iocp`: two workers can meet over one record and two records can be mixed up;
  a buffer of two bytes has a full buffer, a partial send and a second use.
  The theorems hold for every size.
* `sync_all`, `inc_dec`: three threads let one wait while two race; two
  increments let a thread meet the lock again. `NUM_ITERATIONS` is a million in
  the code; the theorems do not depend on it.
* `chat`: three descriptors are a sender, one that leaves and one that must
  still be reached. The array has no end in the model; the unchecked index at
  its limit is listed as a hazard (line 101) and not modelled, since what the
  write behind the array destroys is open.
* `ioctl`: fewer handles than clients force reuse.
* `event`: `MaxEvents = 3` is the listener and two entries, so that stale
  entries run into the limit (64 in Winsock).
* `select`: `MaxClients = 3` are slot 0 and two that are served, of which any may
  hold garbage at the start; three clients and three handles fill them, overflow
  into slot 0, and use numbers again that `readfds` may still list.
* `conversation`: a message has to fit the network (`MaxPieces >= 2`, an
  assumption), and four pieces are two messages under way in one direction. A
  sender that has more waits, so that the CRC pair can pile up answers until
  both block in `send`, and a non-blocking `send` can find no room.
* `crc_resend`: a file of two pieces is enough for two answers.

`CHECK_DEADLOCK FALSE` is set where the system may really stop: clients that do
nothing more, a server whose process has ended, programs that have returned. The
two counter programs and the select server are checked for deadlock (the end of
the former is a stuttering step).

### Fairness

* Threads and processes that are started keep running: weak fairness of each
  thread's own steps. Failures (`CreateThreadFails`, `Failed`, `Lose`, `Reset`)
  and everything clients do carry no fairness at all.
* `iocp`: the port hands every queued packet to some worker, so fairness is per
  connection and not per worker; the kernel completes what can complete, which
  for sends supposes a client that reads.
* `chat`, `ioctl`: strong fairness of a thread that queues for the mutex. Every
  holder gives it back after a bounded loop of sends; for `chat` this supposes
  clients that read, since `send` blocks with the lock held.
* `event`: the one thread keeps running.
* `select`: the one thread keeps running, and clients come and go: one that is
  connected leaves in the end and one that has left may come again. That is
  needed since a server whose `select` fails blocks in `accept` and `recv` until
  somebody connects or speaks, and only then gets on to the client that left.
  `accept` is strongly fair, as it is not supposed to fail for ever.
* `conversation`: every thread keeps running, which supposes that who sits at the
  keyboard types a line in the end, and a reset (`Reset`) gets through. Failures
  carry no fairness.

## 4. Findings

1. `completionIo_server.cpp:38` - a failed completion is taken for a failure of
   the dequeuing call and its record is dropped: socket and record of a reset
   connection leak. (`iocp_abort`)
2. `client_Code_with_crc.cpp:88` - the server answers every receive with the CRC of
   what it returned; a file that arrives undamaged but in two parts is taken for
   damaged and sent again. (`crc_resend`)
3. `client_validation_crc.cpp:143` - the CRC is computed over text encrypted in
   place 21 lines above, the server's over the decrypted text, so that a right
   acknowledgment is always found invalid. (No run: theorem `AckIsFoundInvalid`.)
4. `logging_enabled_auth_client.cpp:35` - the client expects a text the server
   never sends and reports a rejection. (`auth_rejected`)
5. `client_af_unix.cpp:48` - the write of a line waits until the receiver's pending
   read on the same handle ends, the read ends when the server echoes something,
   and the server (`server_af_unix.cpp:16`, and line 25, "Echo the message back to
   the client") waits for the line. Both hang, unless the line was written before
   the receiver came to its first read, and then with the next one. (`pipe_hangs`)

## 5. Proofs

All proofs are for every value of the constants under the named assumptions of
the component (bounds are naturals, names are distinct, the buffer is not empty).

* **IocpEchoProofs.** `IInv` is the conjunction of types, `Unheld` (who holds
  nothing says so), `OneHolder`, `NoUseAfterRelease` and `StreamPosition`.
  `OneHolder` alone is not inductive: a step is only known to touch a record
  nobody else holds if program counters and the held connection agree, and the
  types need that offsets and counters fit together. `StreamPosition` carries,
  for each holder, where in the stream the record stands: settled when a request
  is or can be posted, landed when a transfer is reported but not yet entered.
  From `IInv` follow `TypeCorrect`, `RecordHasOneHolder`, `ReleasedIsNotUsed`,
  `RequestsStayInBuffer`; and `ImplementsEcho`: a `CompleteSend` is an `Echo`
  since the bytes at the record's offset are the next of the stream, a `Write`
  is a `Submit`, everything else stutters.
* **SyncCountersProofs.** `LockInv` adds to mutual exclusion that the lock of the
  current phase is taken while a thread is inside, that what a thread has read
  is still the counter when it writes, and that all threads are back between
  phases; without the last, changing the phase would change the lock under a
  thread. From it `OneThreadInside` and the action property `IncrementsAreKept`,
  for any sequence of phases, so for both programs. `TotalInv` adds that no lock
  of any phase is taken by a thread that is not inside, and that a thread starts
  a phase with all its iterations to do; from it `NoLockLeftTaken`. `TotalIsExact`
  needs a sum over the threads, which no prover here can do by induction.
  Instead the counter is the number of elements of a set, `Work`: one pair of a
  thread and a number for each increment it has made. An increment adds one
  pair, and a thread that is done has all of its `NUM_ITERATIONS`, so that the
  set ends as a product of two intervals, whose cardinality is a theorem of the
  library.
* **IncrementDecrementProofs.** `CountInv`: the number is the difference of the
  updates made so far, and main is past a wait only if that thread is done or was
  never started. From it `PrintsDifference` and `DeletesUnused`.
* **IoctlChatProofs.** `RegistryInv`: the lock is held exactly by a thread that
  walks, a walk stays inside the set, and what main has accepted is nobody
  else's yet. From it `RegistryAgrees` (`RegistryExact`: the registered handles are
  the open handles of served connections, and none is lost) and
  `MessagesAddressed`. For `EverybodyIsTold`, `WalkCovers` says of a walk in
  progress that whoever is being served stands in what is left of the walk or
  has been sent the message; it holds as nobody comes or goes under the lock.
* **ChatServerProofs.** `ArrayExact` compares the number of places of a descriptor
  in the array with the number of those who have it listed, and the array
  changes by moving its last entry into a gap (`TakeOutCounts`). It is inductive
  only with `ThreadHolds` (until it closes it, a thread's descriptor stands for its
  own client) and `MainHolds` (what main has accepted is served by nobody yet);
  without these a number used again could be taken out for somebody else.
  `Covered` carries a broadcast: who awaits the message is in the part of the array
  the loop has yet to visit, or has it. From `IInv` follow `TypeCorrect`,
  `ArrayIsExact` and the action property `EverybodyIsTold`.
* **EventServerProofs.** Entries of connections that are gone stay in the arrays,
  so `OpenIsWatched` is not inductive. `EntriesOK`: no two entries have the same
  event, and the first is the listener, which is never served.
  `EveryOpenHasEntry`: every open handle has an entry with its own event, whatever
  older entries say of the same handle; removing one entry moves the others up
  and loses none (`RemoveKeepsOthers`). `AllNoted`: what happened to an open connection
  is recorded or will be when it comes, and a record has its event set, except
  on the turn that is about to enumerate or close it. From `IInv` follow
  `TypeCorrect`, `EveryOpenIsWatched` and `NoWakeupIsLost`.
* **SelectServerProofs.** `IInv` adds to types, `SlotsAreOpen` and
  `BlocksOnlyAfterError` what these leave out. `OwnersDiffer`: a client has one open
  handle; without it the end of one conversation could take the bytes of
  another, and a slot that was ready would no longer be. `ReadableSpeaks`: between
  `select` and `accept`, what a successful `select` listed can be read from, hence is
  open, hence is not the number `accept` returns; without it the reading loop
  could find a new and silent client under a number in the old `readfds`. From it
  `ServedSlotsAreOpen` and `WaitsOnlyAfterError`.
* **ProgramLines, ProgramProofs.** Twenty pairs of programs, one argument. Every
  step of a thread is a *way* on from its line: to the next line or to the target
  of a branch, with what it adds to and releases from what is held
  (`EveryStepIsAWay`). What the tables have to meet is then a matter of single lines,
  and stated in `ProgramLines` as three closed assumptions, which TLC evaluates in
  the run `conversation`. `TablesConnect`: every way leads to a line of the same
  function or ends it. `TablesTidy`: what some way can bring to a line, found by
  going all ways at once (`MayHold`), is little enough that `main()` returns with
  nothing but address lists. `TablesStayOpen`: from the line that starts a thread to
  the one that joins it `main()` keeps the connection open, and where a thread
  closes it `main()` makes a new one before it uses it; a server with threads
  never listens for a second client. The proof lifts this to runs: `OnLines`,
  `HoldsLittle`, `OpenWhereNeeded` and `TakesOne` hold whatever fails and however the
  threads and the two processes are interleaved. They give `TypeCorrect`,
  `MainReleases` and `ThreadsUseOpen` for any set of the pairs and any capacity of the
  network. What is assumed there are facts about constants, not about behaviour;
  a table that breaks one makes TLC stop before the run begins, which is why the
  wrong variants for these properties are variants of `Conversation`.
* **ProgramProofs**, on the file transfer. `FileIsSaved` is about data, and needs the
  position in the stream. `InOrder(n, k)`: the client has sent `n` of the four pieces of
  header and file, the server has taken `k`, the wire holds exactly those between,
  and the server's buffer the last it took. A receive of the header takes at most
  two pieces and `Full` goes on only with two, so that the file starts where the
  header ends; the rows of the two tables it uses are proved from their
  definitions. A server that went on with less than the header has left the
  claim (row 12, `new char[filesize]` with an indeterminate size).
* **ProgramTurns, ProgramProofs**, on `NoMutualWait`. That two programs do not wait
  for each other relates the lines of both, and differs from pair to pair. The pair
  with the pipe is left out, as its two programs do (finding 5). What counts as
  waiting is a thread in a receive, in a call that waits for its handle, in a join
  of a thread that has not returned, or in `accept` (`HeldUp`); a `main()` at the
  keyboard waits for nobody, so that for the chats whose `main()` only sends the
  claim is about those that have stopped sending and join; and that both may be
  held up in a `send` without room depends on how much the network holds, and is
  left out. It is
  proved in two parts. A *view* of a stream is the lines of the two `main()`, the
  state of the connection, and how many pieces are on the way and were read,
  counted as far as the pair needs it (`Counted`): not at all where threads or
  one-sided talk make it needless, up to one where question and answer
  alternate, up to seven for `validation`, whose receives of half messages decide
  who speaks next. There are few views, and TLC finds all a pair comes to
  (`Views`) and checks in `TablesTakeTurns` that no step leads out of them (`Behind`)
  and that in none of them, the pipe's aside, both `main()` wait (`Stuck`). The proof shows the
  rest, for any capacity of the network, any contents and any interleaving:
  every step of `Conversation`, of `main()` or of a thread, of a failing call or
  of a lost connection, is a step from view to view or none (`ViewStep`). It
  takes two invariants beside `OnView`. `OpenWhereNeeded`: a `send` on a live
  connection does not fail, as its socket is open; a server whose answer could
  get lost without the connection would leave the client waiting. `Unheard`: a
  process does not hold a text the other side has not sent (`Unsaid`), so that a
  comparison with it fails; without it a client would go on past a question that
  was not asked. `Views` cuts the search off after `MaxTurns` rounds; that it was not cut
  short is a part of the assumption. The deliberately wrong variant for it is one
  of `Size`, as one of a table would break the assumption before the run begins.
* **ProgramProofs**, on the two exchanges that do not work (findings 3 and 4). The
  run `auth_rejected` shows one execution in which a correct peer is turned away;
  the theorems say that there is no other, for either exchange. `NobodyChats`: of the programs with the log
  neither comes to its chat, as no view is behind "authenticated" or behind the
  server's handshake; the client does not send the secret for want of the one
  text, the server does not go on for want of the other, and each is an unsaid
  text by the other's account, which is why `SpeaksInTurn` looks at the lines that
  are reached only. `AckIsFoundInvalid`: whatever the server took for the data,
  the client finds the acknowledgment invalid. `DataAreDecrypted` follows the text
  through the server: nothing on the wire is plain (line 14 receives), so nothing
  is encrypted behind the decryption (line 15), so no CRC of encrypted data is
  sent (line 16). The CRC is taken to differ on the texts told apart (`Crc`).
* **ProgramProofs**, on `IcmpChecksum`. Folding keeps the remainder by 65535 (`FoldedIsCongruent`) and
  gives zero for a sum of zero only; so the words of a header with its checksum
  add up to a multiple of 65535 that is not zero, and the checksum over it is
  zero (`SealedVerifies`). Two headers that differ in one word differ by that in
  their sums, which is a multiple of 65535 only for 0 against 65535
  (`DamageIsSeen`).

Model-checked only:

* Liveness (`EveryByteEchoed`, `ReleasedAfterShutdown`, `AllDisplayed`, `Terminates`,
  `GoneIsRemoved`, `GoneIsClosed`, `BothEnd`, `FailureStopsChat`): the provers have no
  ENABLED, which fairness is defined with.
Every invariant and every action property of a passing run has a theorem. What
the theorems about `Conversation` take from TLC are the closed assumptions on its
tables (`TablesConnect`, `TablesTidy`, `TablesStayOpen`, `TablesTakeTurns`), which do not
mention a variable of the model: that the views of a pair are found by a
recursion is induction over data, which the provers do not do.

`OneThreadInside`, `NobodyIsLetIn`, `NoAckIsFoundValid` and `StreamPosition` are proved and
have no run of their own.
`LeastIndex`, a fact about the `Min` that `ChatServer` and `EventServer` define, is
proved in both proof modules, as neither knows the other.

## 6. Not modelled, and why

* Contents and lengths of text buffers, formatting and logging. In particular
  the terminating zero written behind a completely filled buffer, which most of
  the programs have, is listed as a hazard and not modelled.
* Whether a non-blocking `send` of a server takes all of its bytes (`IoctlChat`,
  `EventServer`).
* The write behind the full array `clients` of `server_multithreaded.c`.
* The vector of handles of `server_af_unix.cpp`, which handler threads change
  without a lock: it takes two clients, and what a race does to `std::vector` is
  open, so nothing could be said behind it. For the same reason the handlers of
  several chat box or pthread clients are not put side by side: but for that
  vector they share nothing.
* Several clients one after another of `server_non_blocking.cpp`; group membership
  and several receivers of the multicast and broadcast programs.
* Leaked address lists (`SampleClient`, `UdpClient`, `NonBlockingClient`): the
  property is about sockets and Winsock, and says so.
* Two things the code plainly does and no property says more about: `upp_client`
  waits for ever for the answer to a lost datagram, and `ipv6_client` repeats a
  failed receive for ever. Both can happen in the model; `BothEnd` is about
  stream pairs without `ipv6_client`.
* The cipher and TLS libraries, and `threading_cpp`, whose threads only print.

## 7. Plan

All components with behaviour are modelled. Left, in this order:

1. Two clients of the named-pipe server, with the vector supposed intact, to say
   which handles it lists.
2. Several clients, one after another, of the non-blocking server.
