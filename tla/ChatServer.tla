----------------------------- MODULE ChatServer -----------------------------
(***************************************************************************)
(* server_multithreaded.c: a chat server.  main accepts clients, writes    *)
(* their descriptors in the array clients and starts one thread for each;  *)
(* a thread passes every message of its client on to all the others.       *)
(*                                                                         *)
(* A thread closes its descriptor (line 46) before it takes it out of the  *)
(* array (lines 48-56).  In between the kernel may give the same number to *)
(* the next client, so the model keeps descriptors and connections apart:  *)
(* fds[f] is the connection descriptor f stands for at the moment.         *)
(***************************************************************************)
EXTENDS Integers, Sequences, FiniteSets, SequencesExt

CONSTANTS NumConns,     \* bound: connections, numbered as they are accepted
          MaxFd,        \* bound: descriptors the process may have open
          MaxMessages,  \* bound: messages one client sends
          None          \* no connection, no descriptor, no thread

Conns == 1..NumConns
Fds == 1..MaxFd

ASSUME BoundsAssumption == {NumConns, MaxFd, MaxMessages} \subseteq Nat
ASSUME NoneAssumption == None \notin Conns

VARIABLES
  up,         \* the process runs
  main,       \* [pc, fd, conn]: the accept loop
  handler,    \* handler[c]: [pc, sock, msg, i] of the thread serving c
  mutex,      \* the thread holding clients_mutex
  clients,    \* clients[0 .. client_count - 1] as a sequence
  fds,        \* the kernel's descriptor table
  peer,       \* peer[c]: "new", "open" or "gone": the other end
  sentBy,     \* sentBy[c]: messages client c has written
  delivered,  \* delivered[c]: the messages sent to c, as <<sender, number>>
  unserved    \* connections whose pthread_create failed

vars == <<up, main, handler, mutex, clients, fds, peer, sentBy, delivered, unserved>>

NoThread == [pc |-> "none", sock |-> None, msg |-> 0, i |-> 1]
Accepting == [pc |-> "accept", fd |-> None, conn |-> None]

Init ==
  /\ up = TRUE /\ main = Accepting
  /\ handler = [c \in Conns |-> NoThread]
  /\ mutex = None /\ clients = <<>>
  /\ fds = [f \in Fds |-> None]
  /\ peer = [c \in Conns |-> "new"]
  /\ sentBy = [c \in Conns |-> 0]
  /\ delivered = [c \in Conns |-> <<>>]
  /\ unserved = {}

(***************************************************************************)
(* main, lines 97-114.                                                     *)
(***************************************************************************)
\* accept() gives the lowest descriptor that is free.
Accept(c) ==
  /\ up /\ main.pc = "accept"
  /\ peer[c] = "new" /\ \A d \in 1..c-1 : peer[d] # "new"
  /\ \E f \in Fds : /\ fds[f] = None /\ \A g \in 1..f-1 : fds[g] # None
                    /\ fds' = [fds EXCEPT ![f] = c]
                    /\ main' = [pc |-> "register", fd |-> f, conn |-> c]
  /\ peer' = [peer EXCEPT ![c] = "open"]
  /\ UNCHANGED <<up, handler, mutex, clients, sentBy, delivered, unserved>>

\* Lines 100-102.  The index is not compared with MAX_CLIENTS; the
\* model's array has no end.
RegisterNextSlot ==
  /\ up /\ main.pc = "register" /\ mutex = None
  /\ clients' = Append(clients, 0)
  /\ main' = [main EXCEPT !.pc = "create"]
  /\ UNCHANGED <<up, handler, mutex, fds, peer, sentBy, delivered, unserved>>
Register ==
  /\ up /\ main.pc = "register" /\ mutex = None
  /\ clients' = Append(clients, main.fd)
  /\ main' = [main EXCEPT !.pc = "create"]
  /\ UNCHANGED <<up, handler, mutex, fds, peer, sentBy, delivered, unserved>>

CreateThread ==
  /\ up /\ main.pc = "create"
  /\ handler' = [handler EXCEPT ![main.conn] = [NoThread EXCEPT !.pc = "recv", !.sock = main.fd]]
  /\ main' = Accepting
  /\ UNCHANGED <<up, mutex, clients, fds, peer, sentBy, delivered, unserved>>

\* pthread_create reports a failure by a positive number, which line 108 does
\* not take for one: main goes on, and no thread serves the client.  Line 113
\* then detaches a pthread_t nobody wrote, which may kill the process.
CreateThreadFails ==
  /\ up /\ main.pc = "create"
  /\ unserved' = unserved \cup {main.conn}
  /\ main' = Accepting /\ up' \in BOOLEAN
  /\ UNCHANGED <<handler, mutex, clients, fds, peer, sentBy, delivered>>

\* A failed accept() ends the process (lines 116-120).
AcceptFails ==
  /\ up /\ main.pc = "accept"
  /\ up' = FALSE
  /\ UNCHANGED <<main, handler, mutex, clients, fds, peer, sentBy, delivered, unserved>>

(***************************************************************************)
(* handle_client and send_message_to_all.                                  *)
(***************************************************************************)
At(c, pc) == up /\ handler[c].pc = pc
Goto(c, pc) == handler' = [handler EXCEPT ![c].pc = pc]

\* Lines 33-35: a message of client c.
Recv(c) ==
  /\ At(c, "recv") /\ peer[c] = "open" /\ sentBy[c] < MaxMessages
  /\ sentBy' = [sentBy EXCEPT ![c] = @ + 1]
  /\ handler' = [handler EXCEPT ![c].pc = "lock", ![c].msg = sentBy[c] + 1]
  /\ UNCHANGED <<up, main, mutex, clients, fds, peer, delivered, unserved>>

\* Line 17.
LockToSend(c) ==
  /\ At(c, "lock") /\ mutex = None
  /\ mutex' = c
  /\ handler' = [handler EXCEPT ![c].pc = "send", ![c].i = 1]
  /\ UNCHANGED <<up, main, clients, fds, peer, sentBy, delivered, unserved>>

\* One turn of the loop in lines 19-23.  A descriptor that is closed makes
\* send() fail; a client that is gone makes it fail or raise SIGPIPE, which
\* ends the process.
Skips(c, f) == f = handler[c].sock
SendOne(c) ==
  LET f == clients[handler[c].i]
      reached == IF Skips(c, f) THEN {} ELSE {fds[f]} \ {None}
  IN
  /\ At(c, "send") /\ handler[c].i <= Len(clients)
  /\ handler' = [handler EXCEPT ![c].i = @ + 1]
  /\ delivered' = [d \in Conns |-> IF d \in reached /\ peer[d] = "open"
                                   THEN Append(delivered[d], <<c, handler[c].msg>>)
                                   ELSE delivered[d]]
  /\ up' \in {TRUE} \cup {FALSE : d \in {d \in reached : peer[d] = "gone"}}
  /\ UNCHANGED <<main, mutex, clients, fds, peer, sentBy, unserved>>

\* Line 25, and the memset that follows.
UnlockForgotten(c) ==
  /\ At(c, "send") /\ handler[c].i > Len(clients)
  /\ handler' = [handler EXCEPT ![c].pc = "recv", ![c].msg = 0]
  /\ UNCHANGED <<up, main, mutex, clients, fds, peer, sentBy, delivered, unserved>>
UnlockAfterSend(c) ==
  /\ At(c, "send") /\ handler[c].i > Len(clients)
  /\ mutex' = None
  /\ handler' = [handler EXCEPT ![c].pc = "recv", ![c].msg = 0]
  /\ UNCHANGED <<up, main, clients, fds, peer, sentBy, delivered, unserved>>

\* Lines 33 and 40-46: recv() returns 0 or -1.
Close(c) ==
  /\ At(c, "recv") /\ peer[c] = "gone"
  /\ fds' = [fds EXCEPT ![handler[c].sock] = None]
  /\ Goto(c, "remove")
  /\ UNCHANGED <<up, main, mutex, clients, peer, sentBy, delivered, unserved>>

\* Lines 49-55: the first entry that is f is overwritten by the last.
TakeOutAll(s, f) == SelectSeq(s, LAMBDA g : g # f)
TakeOut(s, f) ==
  IF f \notin ToSet(s) THEN s
  ELSE LET i == SelectInSeq(s, LAMBDA g : g = f)
       IN  SubSeq([s EXCEPT ![i] = Last(s)], 1, Len(s) - 1)

\* Lines 48-59.
DeregisterUnlocked(c) ==
  /\ At(c, "remove")
  /\ clients' = TakeOut(clients, handler[c].sock)
  /\ Goto(c, "done")
  /\ UNCHANGED <<up, main, mutex, fds, peer, sentBy, delivered, unserved>>
Deregister(c) ==
  /\ At(c, "remove") /\ mutex = None
  /\ clients' = TakeOut(clients, handler[c].sock)
  /\ Goto(c, "done")
  /\ UNCHANGED <<up, main, mutex, fds, peer, sentBy, delivered, unserved>>

(***************************************************************************)
(* The clients only come, talk and go.                                     *)
(***************************************************************************)
Leave(c) ==
  /\ peer[c] = "open"
  /\ peer' = [peer EXCEPT ![c] = "gone"]
  /\ UNCHANGED <<up, main, handler, mutex, clients, fds, sentBy, delivered, unserved>>

Main == Register \/ CreateThread \/ CreateThreadFails
Serve(c) == LockToSend(c) \/ SendOne(c) \/ UnlockAfterSend(c) \/ Close(c) \/ Deregister(c)
Handler(c) == Recv(c) \/ Serve(c)

Next == \/ Main \/ AcceptFails
        \/ \E c \in Conns : Accept(c) \/ Handler(c) \/ Leave(c)

Spec == Init /\ [][Next]_vars

(***************************************************************************)
(* Fairness.  Every thread keeps running while the process is up; no send  *)
(* blocks for ever, which supposes clients that read; and a thread waiting *)
(* for the mutex gets it in the end, since no holder keeps it.  Nothing is *)
(* asked of main, and nobody need ever connect, talk or leave.             *)
(***************************************************************************)
FairSpec == Spec /\ \A c \in Conns : SF_vars(Serve(c))

-----------------------------------------------------------------------------
TypeOK ==
  /\ up \in BOOLEAN
  /\ main \in [pc : {"accept", "register", "create"}, fd : Fds \cup {None},
               conn : Conns \cup {None}]
  /\ handler \in [Conns -> [pc : {"none", "recv", "lock", "send", "remove", "done"},
                            sock : Fds \cup {None}, msg : 0..MaxMessages, i : Nat]]
  /\ mutex \in Conns \cup {None}
  /\ clients \in Seq(Fds)
  /\ fds \in [Fds -> Conns \cup {None}]
  /\ peer \in [Conns -> {"new", "open", "gone"}]
  /\ sentBy \in [Conns -> 0..MaxMessages]
  /\ delivered \in [Conns -> Seq(Conns \X (1..MaxMessages))]
  /\ unserved \subseteq Conns

\* The connections that should stand in the array under descriptor f: the
\* one main has just written there, those with a thread that has not taken
\* itself out yet, and those no thread was created for.
Listed(f) ==
  {c \in Conns : \/ handler[c].pc \in {"recv", "lock", "send", "remove"} /\ handler[c].sock = f
                 \/ main.pc = "create" /\ main.conn = c /\ main.fd = f
                 \/ c \in unserved /\ fds[f] = c}

\* The array holds each descriptor as often as there are connections listed
\* under it: also when the number of a closed descriptor was given to the
\* next client before the old entry was taken out (lines 46-55, 100-102).
ArrayExact ==
  \A f \in Fds : Cardinality({i \in DOMAIN clients : clients[i] = f}) = Cardinality(Listed(f))

\* When the loop of line 19 has run to its end, every other client that has
\* a thread and is there has the message, and its sender has not, whatever the
\* descriptors of those that left in the meantime stand for by now.
BroadcastReachesAll ==
  [][\A c \in Conns : UnlockAfterSend(c) =>
       /\ <<c, handler[c].msg>> \notin ToSet(delivered[c])
       /\ \A d \in Conns \ {c} :
            handler[d].pc \in {"recv", "lock"} /\ peer[d] = "open"
              => <<c, handler[c].msg>> \in ToSet(delivered[d])]_vars

\* A client that is gone is out of the array in the end, its descriptor free.
GoneIsRemoved ==
  \A c \in Conns :
    (up /\ handler[c].pc # "none" /\ peer[c] = "gone")
       ~> ((handler[c].pc = "done" /\ \A f \in Fds : fds[f] # c) \/ ~up)
=============================================================================
