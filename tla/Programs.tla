------------------------------ MODULE Programs ------------------------------
(***************************************************************************)
(* The repository's pairs of programs, a server and the client written for *)
(* it, as data.  Every main() is straight-line code of blocking calls,     *)
(* each followed by the same kind of error branch: release some of what is *)
(* held and return.  So a program is a sequence of steps, one per call; a  *)
(* thread function is a part of the sequence that main() spawns a thread   *)
(* at.  Conversation says what a step does.                                *)
(***************************************************************************)
EXTENDS Integers, Sequences

Return == 99            \* main() has returned
Crashed == 98           \* the process died, or called exit() with all it held
Left == 97              \* the thread function has returned
Unstarted == 96         \* no such thread yet
Thru == 0               \* on to the step below

(***************************************************************************)
(* Steps.  arg is what the step is about; ok is where it goes when it      *)
(* succeeds; fail is what the error branch releases and where it goes;     *)
(* zero is the branch of recv() that returned 0.                           *)
(***************************************************************************)
Quit(R) == [rel |-> R, to |-> Return]
Leave(R) == [rel |-> R, to |-> Left]
Die(R) == [rel |-> R, to |-> Crashed]
Crash == Die({})
Goto(n) == [rel |-> {}, to |-> n]

Step(op, arg, fail) == [op |-> op, arg |-> arg, ok |-> Thru, fail |-> fail, zero |-> fail]
Acquire(r, fail) == Step("acquire", r, fail)      \* WSAStartup, getaddrinfo, socket
Call(fail) == Step("call", "", fail)              \* bind, setsockopt, ioctlsocket, inet_pton
Release(R) == [Step("release", "", Quit({})) EXCEPT !.fail = [rel |-> R, to |-> Thru]]
Listen(fail) == Step("listen", "", fail)          \* listen; bind for datagrams
Accept(fail) == Step("accept", "", fail)
Connect(fail) == Step("connect", "", fail)
ConnectNow(fail) == Step("connectNow", "", fail)  \* connect in non-blocking mode
Shutdown(fail) == Step("shutdown", "", fail)
Send(m, fail) == Step("send", m, fail)
SendNow(m, fail) == Step("sendNow", m, fail)      \* send in non-blocking mode
Recv(size, zero, fail) == [Step("recv", size, fail) EXCEPT !.zero = zero]
RecvNow(fail) == Step("recvNow", "buffer", fail)  \* recv in non-blocking mode
Read(end) == Step("read", "", end)                \* ReadFile on a pipe, whole messages
Begin == Step("begin", "", Quit({}))              \* the next step's call gets at its handle
SendTo(m, fail) == Step("sendto", m, fail)
RecvFrom(fail) == Step("recvfrom", "", fail)
Show(fail) == Step("recvfrom", "shown", fail)     \* recvfrom of a text that is only printed
Match(m, fail) == Step("match", m, fail)          \* the text received is m
MatchPrefix(m, fail) == Step("matchPrefix", m, fail)  \* strncmp over what came
Full(more) == Step("full", "", more)              \* as many bytes came as a message has
Xor == Step("xor", "", Quit({}))                  \* xor_encrypt_decrypt on what came
Undefined(fail) == Step("undefined", "", fail)    \* the language leaves the outcome open
Spawn(t, n, fail) == Step("spawn", <<t, n>>, fail)    \* thread t starts at step n
Join(t) == Step("join", t, Quit({}))
WhileRunning == Step("while", "", Leave({}))      \* while (running)
StopRunning == Step("stop", "", Quit({}))         \* running = false
Then(step, n) == [step EXCEPT !.ok = n]

(***************************************************************************)
(* Request and answer over TCP.                                            *)
(***************************************************************************)
ServerSetup == <<
  Acquire("wsa", Quit({})),
  Acquire("addr", Quit({"wsa"})),
  Acquire("listen", Quit({"addr", "wsa"})),
  Call(Quit({"addr", "listen", "wsa"})),
  Release({"addr"}),
  Listen(Quit({"listen", "wsa"})),
  Accept(Quit({"listen", "wsa"})) >>

ClientSetup == <<
  Acquire("wsa", Quit({})),
  Acquire("addr", Quit({"wsa"})),
  Acquire("conn", Quit({"addr", "wsa"})),
  Connect(Quit({"conn", "addr", "wsa"})),
  Release({"addr"}) >>

WinsockServer == ServerSetup \o <<
  Release({"listen"}),                              \* 8
  Recv("buffer", Goto(11), Quit({"conn", "wsa"})),
  Send("hello", Quit({"conn", "wsa"})),
  Shutdown(Quit({"conn", "wsa"})),                  \* 11
  Release({"conn", "wsa"}) >>

WinsockClient == ClientSetup \o <<
  Send("hello", Quit({"conn", "wsa"})),
  Recv("buffer", Goto(8), Goto(8)),
  Shutdown(Quit({"conn", "wsa"})),                  \* 8
  Release({"conn", "wsa"}) >>

SampleServer == WinsockServer

\* The list of addresses of "::1" has one element, so the loop over it runs
\* once.  The error branch of socket() forgets the list.
SampleClientIgnoresEnd == <<
  Acquire("wsa", Quit({})),
  Acquire("addr", Quit({"wsa"})),
  Acquire("conn", Quit({"wsa"})),
  Connect(Quit({"conn", "addr", "wsa"})),
  Release({"addr"}),
  Send("hello", Quit({"conn", "wsa"})),
  Then(Recv("buffer", Goto(7), Goto(8)), 7),
  Shutdown(Quit({"conn", "wsa"})),
  Release({"conn", "wsa"}) >>
SampleClient == <<
  Acquire("wsa", Quit({})),
  Acquire("addr", Quit({"wsa"})),
  Acquire("conn", Quit({"wsa"})),
  Connect(Quit({"conn", "addr", "wsa"})),
  Release({"addr"}),
  Send("hello", Quit({"conn", "wsa"})),
  Then(Recv("buffer", Goto(8), Goto(8)), 7),        \* 7
  Shutdown(Quit({"conn", "wsa"})),                  \* 8
  Release({"conn", "wsa"}) >>

(***************************************************************************)
(* Authentication, handshake and chat.                                     *)
(***************************************************************************)
AuthServer == LET all == Quit({"conn", "listen", "wsa"}) IN ServerSetup \o <<
  Recv("buffer", all, all),                         \* 8, authenticate
  Match("credentials", all),
  Send("secret", Goto(11)),                         \* 10, handshake
  Recv("buffer", all, all),
  Match("secret", all),
  Recv("buffer", [rel |-> {"conn"}, to |-> 15], [rel |-> {"conn"}, to |-> 15]),  \* 13, chat
  Then(Send("line", Goto(13)), 13),
  Release({"listen", "wsa"}) >>                     \* 15

AuthClient == LET all == Quit({"conn", "wsa"}) IN ClientSetup \o <<
  Send("credentials", Goto(7)),                     \* 6, authenticate
  Recv("buffer", all, all),
  Match("authenticated", all),
  Recv("buffer", all, all),                         \* 9, handshake
  Match("secret", all),
  Send("secret", Goto(12)),
  Send("line", Goto(13)),                           \* 12, chat
  Then(Recv("buffer", [rel |-> {"conn"}, to |-> 14], [rel |-> {"conn"}, to |-> 14]), 12),
  Release({"conn", "wsa"}) >>                       \* 14

(***************************************************************************)
(* Validation structures, an encrypted handshake and a CRC for the data.   *)
(* Both programs encrypt a string literal in place (undefined: it may be   *)
(* read-only, and the one compared with may be the one changed), and both  *)
(* decrypt before they look whether recv() failed, over (size_t)-1 bytes.  *)
(***************************************************************************)
ValidationServer == LET all == Quit({"conn", "listen", "wsa"}) IN <<
  Acquire("wsa", Quit({})),
  Acquire("listen", Quit({"wsa"})),
  Call(Quit({"listen", "wsa"})),
  Listen(Quit({"listen", "wsa"})),
  Accept(Quit({"listen", "wsa"})),
  Recv("message", all, all),
  Send("structure", all),
  Undefined(Crash),
  Send("xhandshake", all),
  Recv("buffer", all, Crash), Xor,
  Undefined(all), MatchPrefix("handshake", all),
  Recv("buffer", all, Crash), Xor,
  Send("crc", Goto(17)),
  Release({"conn", "listen", "wsa"}) >>             \* 17

ValidationClient == LET all == Quit({"conn", "wsa"}) IN <<
  Acquire("wsa", Quit({})),
  Acquire("conn", Quit({"wsa"})),
  Call(all),
  Connect(all),
  Send("structure", all),
  Recv("message", all, all),
  Recv("buffer", all, Crash), Xor, MatchPrefix("handshake", all),
  Undefined(Crash),
  Send("xhandshake", all),
  Send("xdata", all),
  Recv("message", all, all),
  Match("crc xdata", Goto(15)),                     \* 14, the text is encrypted by now
  Release({"conn", "wsa"}) >>                       \* 15

(***************************************************************************)
(* Sockets in non-blocking mode.                                           *)
(***************************************************************************)
NonBlockingServer == LET all == Quit({"listen", "wsa"}) IN <<
  Acquire("wsa", Quit({})),
  Acquire("listen", Quit({"wsa"})),
  Call(all), Call(all),
  Listen(all),
  Accept(Goto(6)),                                  \* 6, polled once a second
  RecvNow(Goto(9)),
  Send("echo", Goto(9)),
  Then(Release({"conn"}), 6) >>

NonBlockingClient == LET all == Quit({"conn", "wsa"}) IN <<
  Acquire("wsa", Quit({})),
  Acquire("conn", Quit({"wsa"})),
  Call(all),
  Acquire("addr", all),
  ConnectNow(all),
  Release({"addr"}),
  Send("hello", all),
  RecvNow(Goto(9)),
  Release({"conn", "wsa"}) >>

(***************************************************************************)
(* Datagrams.  Here the one that waits is the server.                      *)
(***************************************************************************)
UdpServer == LET all == Quit({"conn", "wsa"}) IN <<
  Acquire("wsa", Quit({})),
  Acquire("addr", Quit({"wsa"})),
  Acquire("conn", Quit({"addr", "wsa"})),
  Listen(Quit({"addr", "conn", "wsa"})),
  Release({"addr"}),
  RecvFrom(all),                                    \* 6
  Then(SendTo("hello", all), 6) >>

UdpClient == LET all == Quit({"conn", "wsa"}) IN <<
  Acquire("wsa", Quit({})),
  Acquire("addr", Quit({"wsa"})),
  Acquire("conn", Quit({"addr", "wsa"})),
  SendTo("hello", all),
  Release({"addr"}),
  RecvFrom(all),
  Release({"conn", "wsa"}) >>

BroadcastReceiver == LET all == Quit({"conn", "wsa"}) IN <<
  Acquire("wsa", Quit({})),
  Acquire("conn", Quit({"wsa"})),
  Listen(all),
  RecvFrom(Goto(5)),
  Release({"conn", "wsa"}) >>

BroadcastSender == LET all == Quit({"conn", "wsa"}) IN <<
  Acquire("wsa", Quit({})),
  Acquire("conn", Quit({"wsa"})),
  Call(all),
  SendTo("hello", all),
  Release({"conn", "wsa"}) >>

MulticastReceiver == LET all == Quit({"conn", "wsa"}) IN <<
  Acquire("wsa", Quit({})),
  Acquire("conn", Quit({"wsa"})),
  Listen(all),
  Call(all),
  RecvFrom(Goto(6)),
  Release({"conn", "wsa"}) >>

MulticastSender == LET all == Quit({"conn", "wsa"}) IN <<
  Acquire("wsa", Quit({})),
  Acquire("conn", Quit({"wsa"})),
  SendTo("hello", all),
  Release({"conn", "wsa"}) >>

(***************************************************************************)
(* A file sent whole, to be answered with the CRC of what was received:    *)
(* the server answers every recv(), the client resends until a CRC agrees. *)
(* The file is not empty.                                                  *)
(***************************************************************************)
CrcServer == LET all == Quit({"conn", "listen", "wsa"}) IN <<
  Acquire("wsa", Quit({})),
  Acquire("listen", Quit({"wsa"})),
  Call(Quit({"listen", "wsa"})),
  Listen(Quit({"listen", "wsa"})),
  Accept(Quit({"listen", "wsa"})),
  Recv("buffer", all, all),                         \* 6
  Then(Send("crc", all), 6) >>

CrcClient == LET all == Quit({"conn", "wsa"}) IN <<
  Acquire("wsa", Quit({})),
  Acquire("conn", Quit({"wsa"})),
  Connect(all),
  Call(all),
  Send("file", all),                                \* 5
  Recv("message", all, all),
  Match("crc file", Goto(5)),
  Release({"conn", "wsa"}) >>

(***************************************************************************)
(* A header that says how long the file is, then the file.  One recv() is  *)
(* trusted to bring the whole header: if it brings less, filesize is       *)
(* indeterminate, and the array may be impossible to allocate or the loop  *)
(* wait for any number of bytes.                                           *)
(***************************************************************************)
FileServerShortHeader == LET all == Quit({"conn", "listen", "wsa"}) IN <<
  Acquire("wsa", Quit({})),
  Acquire("listen", Quit({"wsa"})),
  Call(Quit({"listen", "wsa"})),
  Listen(Quit({"listen", "wsa"})),
  Accept(Quit({"listen", "wsa"})),
  Recv("piece", all, all),
  Recv("message", all, all),
  Full(Goto(11)),
  Call(all),
  Then(Release({"conn", "listen", "wsa"}), Return),
  Then(Recv("rest", all, all), 8) >>
FileServer == LET all == Quit({"conn", "listen", "wsa"}) IN <<
  Acquire("wsa", Quit({})),
  Acquire("listen", Quit({"wsa"})),
  Call(Quit({"listen", "wsa"})),
  Listen(Quit({"listen", "wsa"})),
  Accept(Quit({"listen", "wsa"})),
  Recv("message", all, all),                        \* 6, the header
  Full(Goto(12)),
  Recv("message", all, all),                        \* 8, the file
  Full(Goto(15)),
  Call(all),                                        \* 10, it is saved
  Then(Release({"conn", "listen", "wsa"}), Return),
  Undefined(Crash),                                 \* 12, new char[filesize]
  Then(Undefined(Goto(14)), 16),                    \* bytesReceived < filesize?
  Then(Recv("buffer", all, all), 13),
  Then(Recv("rest", all, all), 9),                  \* 15
  Then(Call(all), 11) >>                            \* 16, something is saved

FileClient == LET all == Quit({"conn", "wsa"}) IN <<
  Acquire("wsa", Quit({})),
  Acquire("conn", Quit({"wsa"})),
  Connect(all),
  Call(all),
  Send("header", all),
  Send("file", all),
  Release({"conn", "wsa"}) >>

(***************************************************************************)
(* Lines encrypted with AES.  An error of the library ends in exit(1); a   *)
(* part of a ciphertext may be refused, or taken for a whole one.  Nobody  *)
(* looks at what send() returns.                                           *)
(***************************************************************************)
CngServer == ServerSetup \o <<
  Call(Crash), Call(Crash),                         \* 8, algorithm and key
  Recv("buffer", Goto(14), Goto(14)),               \* 10
  Call(Crash),                                      \* DecryptData
  Call(Crash),                                      \* EncryptData
  Then(Send("cipher", Goto(10)), 10),
  Release({"conn"}),                                \* 14
  Release({"listen", "wsa"}) >>

CngClient == ClientSetup \o <<
  Call(Crash), Call(Crash),                         \* 6, algorithm and key
  Call(Crash),                                      \* 8, EncryptData
  Send("cipher", Goto(10)),
  Recv("buffer", Goto(12), Goto(12)),               \* 10
  Then(Call(Crash), 8),                             \* DecryptData
  Release({"conn"}),                                \* 12, and once more below
  Release({"conn", "wsa"}) >>

(***************************************************************************)
(* The first token of a TLS handshake from either side, which nobody       *)
(* reads.  (The server is in client_schannel.cpp, the client in            *)
(* s_channel_server.cpp.)                                                  *)
(***************************************************************************)
TlsServer == ServerSetup \o <<
  Call(Crash), Call(Crash),                         \* credentials, AcceptSecurityContext
  Send("token", Goto(11)),
  Release({"conn", "listen", "wsa"}) >>             \* 11

TlsClient == ClientSetup \o <<
  Call(Crash), Call(Crash),                         \* credentials, InitializeSecurityContext
  Send("token", Goto(9)),
  Release({"conn", "wsa"}) >>                       \* 9

(***************************************************************************)
(* A thread per client.  A std::thread that is not joined ends the process *)
(* in its destructor; a pthread ends with the process.                     *)
(***************************************************************************)
ChatboxServer == LET setup == Quit({"addr", "listen", "wsa"}) IN <<
  Acquire("wsa", Quit({})),
  Acquire("addr", Quit({"wsa"})),
  Acquire("listen", Quit({"addr", "wsa"})),
  Call(setup), Call(setup),
  Release({"addr"}),
  Listen(Quit({"listen", "wsa"})),
  Accept(Quit({"listen", "wsa"})),
  Spawn("receiver", 11, Crash),                     \* 9
  Then(Accept(Die({"listen", "wsa"})), 9),
  Recv("buffer", Goto(13), Leave({"conn"})),        \* 11, handleClient
  Then(Send("echo", Leave({"conn"})), 11),
  Shutdown(Leave({"conn"})),                        \* 13
  Then(Release({"conn"}), Left) >>

ChatboxClient == <<
  Acquire("wsa", Quit({})),
  Acquire("addr", Quit({"wsa"})),
  Acquire("conn", Quit({"wsa"})),
  Connect(Quit({"conn", "addr", "wsa"})),
  Release({"addr"}),
  Spawn("receiver", 11, Crash),
  Then(Send("line", Goto(8)), 7),                   \* 7
  Join("receiver"),                                 \* 8
  Release({"conn"}), Then(Release({"wsa"}), Return),
  Then(Recv("shown", Leave({}), Leave({})), 11) >>  \* 11, receiveMessages

PthreadServer == <<
  Acquire("wsa", Quit({})),
  Acquire("listen", Quit({"wsa"})),
  Call(Quit({"listen", "wsa"})),
  Listen(Quit({"listen", "wsa"})),
  Accept(Quit({"listen", "wsa"})),                  \* 5
  Spawn("receiver", 8, Goto(7)),                    \* a failure is not noticed
  Then(Accept(Quit({"listen", "wsa"})), 6),
  Recv("buffer", Goto(10), Goto(10)),               \* 8, handle_client
  Then(Send("echo", Goto(8)), 8),
  Then(Release({"conn"}), Left) >>                  \* 10

PthreadClient == <<
  Acquire("wsa", Quit({})),
  Acquire("conn", Quit({"wsa"})),
  Connect(Quit({"conn", "wsa"})),
  Spawn("receiver", 6, Goto(5)),                    \* a failure is not noticed
  Then(Send("line", Goto(5)), 5),
  Then(Recv("shown", Leave({}), Leave({})), 6) >>   \* 6, receive_messages

(***************************************************************************)
(* A named pipe.  The instance a client is connected to becomes its        *)
(* connection; the server goes on with another.  A line without a          *)
(* character is a message of no bytes, which is taken for the end.  The    *)
(* client opens the pipe without FILE_FLAG_OVERLAPPED: Windows then does   *)
(* one call on the handle at a time, whichever thread makes it.            *)
(***************************************************************************)
PipeServer == <<
  Acquire("listen", Quit({})),                      \* CreateNamedPipe
  Listen([rel |-> {"listen"}, to |-> 1]),
  Accept([rel |-> {"listen"}, to |-> 1]),           \* ConnectNamedPipe
  Release({"listen"}),
  Spawn("receiver", 8, Crash),
  Acquire("listen", Crash),                         \* 6, its threads are not joined
  Then(Accept([rel |-> {"listen"}, to |-> 6]), 4),
  Read(Goto(10)),                                   \* 8, handleClient
  Then(Send("echo", Goto(10)), 8),
  Then(Release({"conn"}), Left) >>                  \* 10

PipeClient == <<
  Acquire("conn", Quit({})),
  Connect(Quit({"conn"})),                          \* CreateFile
  Spawn("receiver", 9, Crash),
  Call(Goto(5)),                                    \* 4, a line is typed, or none
  Begin,
  Then(Send("pipe line", Goto(7)), 4),
  Join("receiver"),                                 \* 7
  Then(Release({"conn"}), Return),
  Begin,                                            \* 9, receiveMessages
  Then(Recv("shown", Leave({}), Leave({})), 9) >>

(***************************************************************************)
(* What a chat server is to one of its clients: it passes on lines of      *)
(* others and reads what the client writes.                                *)
(***************************************************************************)
ChatPeer == LET all == Quit({"conn", "listen"}) IN <<
  Acquire("listen", Quit({})),
  Listen(Quit({"listen"})),
  Accept(Quit({"listen"})),
  Spawn("receiver", 6, all),
  Then(Send("line", all), 5),
  Then(Recv("shown", Leave({}), Leave({})), 6) >>

\* Clients of the non-blocking servers.  Their receiver is detached.
PollingClient == <<
  Acquire("wsa", Quit({})),
  Acquire("addr", Quit({"wsa"})),
  Acquire("conn", Quit({"addr", "wsa"})),
  Connect(Quit({"conn", "addr", "wsa"})),
  Release({"addr"}),
  Spawn("receiver", 10, Crash),
  Then(SendNow("line", Goto(8)), 7),                \* 7
  Release({"conn"}), Then(Release({"wsa"}), Return),  \* 8
  Then(Recv("shown", Leave({}), Leave({})), 10) >>  \* 10, receiveMessages

\* Early returns leave the descriptor to the system; SIGPIPE ends the process.
DescriptorClient == <<
  Acquire("conn", Quit({})),
  Call(Quit({})),
  Connect(Quit({})),
  Spawn("receiver", 6, Goto(5)),                    \* a failure is not noticed
  Then(Send("line", Crash), 5),
  Then(Recv("shown", Leave({}), Leave({})), 6) >>   \* 6, receive_messages

(***************************************************************************)
(* The select() loops.  The client's always fails, since standard input is *)
(* no socket, which makes it write and read in turn.  The server, with     *)
(* this one client: it is never read from if client_sockets, which is not  *)
(* initialised, has no zero.                                               *)
(***************************************************************************)
SelectOne == LET close == [rel |-> {"conn"}, to |-> 9] IN <<
  Acquire("wsa", Quit({})),
  Acquire("listen", Quit({"wsa"})),
  Call(Quit({"listen", "wsa"})),
  Listen(Quit({"listen", "wsa"})),
  Accept(Goto(5)),
  Undefined(Goto(9)),
  Recv("buffer", close, close),                     \* 7
  Then(Send("echo", Goto(7)), 7),
  Then(Accept(Goto(9)), 6) >>                       \* 9

SelectClient == LET all == Quit({"conn", "wsa"}) IN <<
  Acquire("wsa", Quit({})),
  Acquire("conn", Quit({"wsa"})),
  Call(all),
  Connect(all),
  Send("line", Goto(6)),                            \* 5
  Then(Recv("shown", Goto(7), Goto(5)), 5),
  Release({"conn", "wsa"}) >>

(***************************************************************************)
(* Datagrams, with a thread that receives and one that sends.  One flag    *)
(* stops both; main() joins both.                                          *)
(***************************************************************************)
UdpChatThreadsForEver(n) == <<
  WhileRunning,
  Then(Show(Goto(n + 4)), n),
  WhileRunning,
  Then(SendTo("line", Goto(n + 4)), n + 3),
  Then(StopRunning, Left) >>
UdpChatThreads(n) == <<
  WhileRunning,                                     \* n, receiveMessages
  Then(Show(Goto(n + 4)), n),
  WhileRunning,                                     \* n + 2, sendMessages
  Then(SendTo("line", Goto(n + 4)), n + 2),
  Then(StopRunning, Left) >>                        \* n + 4

UdpChatServer == LET all == Quit({"conn", "wsa"}) IN <<
  Acquire("wsa", Quit({})),
  Acquire("addr", Quit({"wsa"})),
  Acquire("conn", Quit({"addr", "wsa"})),
  Listen(Quit({"addr", "conn", "wsa"})),
  Release({"addr"}),
  RecvFrom(all),
  Spawn("receiver", 13, Crash),
  Spawn("sender", 15, Crash),
  Join("receiver"), Join("sender"),
  Release({"conn"}), Then(Release({"wsa"}), Return) >> \o UdpChatThreads(13)

UdpChatClient == LET all == Quit({"conn", "wsa"}) IN <<
  Acquire("wsa", Quit({})),
  Acquire("addr", Quit({"wsa"})),
  Acquire("conn", Quit({"addr", "wsa"})),
  Release({"addr"}),
  SendTo("hello", all),
  Spawn("receiver", 12, Crash),
  Spawn("sender", 14, Crash),
  Join("receiver"), Join("sender"),
  Release({"conn"}), Then(Release({"wsa"}), Return) >> \o UdpChatThreads(12)

(***************************************************************************)
(* ICMP over a raw socket, which receives without being bound.             *)
(***************************************************************************)
IcmpReceiver == <<
  Acquire("wsa", Quit({})),
  Acquire("conn", Quit({"wsa"})),
  Spawn("receiver", 7, Crash),
  Join("receiver"),
  Release({"conn"}), Then(Release({"wsa"}), Return),
  Then(Show(Leave({})), 7) >>                       \* 7, receivePackets

IcmpSender == LET all == Quit({"conn", "wsa"}) IN <<
  Acquire("wsa", Quit({})),
  Acquire("conn", Quit({"wsa"})),
  SendTo("hello", all),
  Release({"conn", "wsa"}) >>

Programs ==
  [winsock     |-> [server |-> WinsockServer, client |-> WinsockClient],
   sample      |-> [server |-> SampleServer, client |-> SampleClient],
   auth        |-> [server |-> AuthServer, client |-> AuthClient],
   validation  |-> [server |-> ValidationServer, client |-> ValidationClient],
   nonblocking |-> [server |-> NonBlockingServer, client |-> NonBlockingClient],
   udp         |-> [server |-> UdpServer, client |-> UdpClient],
   broadcast   |-> [server |-> BroadcastReceiver, client |-> BroadcastSender],
   multicast   |-> [server |-> MulticastReceiver, client |-> MulticastSender],
   crc         |-> [server |-> CrcServer, client |-> CrcClient],
   file        |-> [server |-> FileServer, client |-> FileClient],
   cng         |-> [server |-> CngServer, client |-> CngClient],
   tls         |-> [server |-> TlsServer, client |-> TlsClient],
   chatbox     |-> [server |-> ChatboxServer, client |-> ChatboxClient],
   pthread     |-> [server |-> PthreadServer, client |-> PthreadClient],
   pipe        |-> [server |-> PipeServer, client |-> PipeClient],
   polling     |-> [server |-> ChatPeer, client |-> PollingClient],
   descriptor  |-> [server |-> ChatPeer, client |-> DescriptorClient],
   select      |-> [server |-> SelectOne, client |-> SelectClient],
   udpchat     |-> [server |-> UdpChatServer, client |-> UdpChatClient],
   icmp        |-> [server |-> IcmpReceiver, client |-> IcmpSender]]
=============================================================================
