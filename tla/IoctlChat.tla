------------------------------ MODULE IoctlChat ------------------------------
(***************************************************************************)
(* ioctl_nonblocking_socket_server.cpp: a chat server with one thread per  *)
(* client on a socket in non-blocking mode, and the set clients of their   *)
(* socket handles under clientsMutex.                                      *)
(*                                                                         *)
(* A handle that was closed may be given to a later connection, so handles *)
(* and connections are kept apart: open[h] is the connection behind h.     *)
(* Unlike server_multithreaded.c a thread takes its handle out of the set  *)
(* and closes it in one critical section (lines 50-52).                    *)
(***************************************************************************)
EXTENDS Integers, FiniteSets

CONSTANTS Conns,        \* connections, each made and ended once
          Handles,      \* SOCKET values the system hands out
          MaxMessages,  \* bound: messages one client sends
          Main,         \* main() as the thread that holds clientsMutex
          None          \* no connection, no handle, no thread

ASSUME MessagesAssumption == MaxMessages \in Nat
ASSUME NoneAssumption == None \notin Conns /\ None \notin Handles
ASSUME MainAssumption == Main \notin Conns /\ Main # None

VARIABLES
  main,       \* [pc, sock, conn]; pc "exit" once the server returned
  handler,    \* handler[c]: [pc, sock, msg, todo] of the thread serving c
  lock,       \* the thread holding clientsMutex
  clients,    \* the set of registered handles
  open,       \* open[h]: the connection behind handle h
  peer,       \* peer[c]: "new", "open" or "gone"
  sentBy,     \* sentBy[c]: messages client c has written
  tried       \* messages <<to, from, number>> handed to send()

vars == <<main, handler, lock, clients, open, peer, sentBy, tried>>

NoThread == [pc |-> "none", sock |-> None, msg |-> 0, todo |-> {}]
Accepting == [pc |-> "accept", sock |-> None, conn |-> None]

Init ==
  /\ main = Accepting
  /\ handler = [c \in Conns |-> NoThread]
  /\ lock = None /\ clients = {}
  /\ open = [h \in Handles |-> None]
  /\ peer = [c \in Conns |-> "new"]
  /\ sentBy = [c \in Conns |-> 0]
  /\ tried = {}

(***************************************************************************)
(* main, lines 104-120.                                                    *)
(***************************************************************************)
Accept(c, h) ==
  /\ main.pc = "accept" /\ peer[c] = "new" /\ open[h] = None
  /\ open' = [open EXCEPT ![h] = c]
  /\ main' = [pc |-> "register", sock |-> h, conn |-> c]
  /\ peer' = [peer EXCEPT ![c] = "open"]
  /\ UNCHANGED <<handler, lock, clients, sentBy, tried>>

\* Lines 115-118 are one critical section; the new thread runs as soon as it
\* is started, while main still holds the lock.
RegisterInvalid ==
  /\ main.pc = "register" /\ lock = None
  /\ lock' = Main
  /\ clients' = clients \cup {main.sock, None}
  /\ main' = [main EXCEPT !.pc = "start"]
  /\ UNCHANGED <<handler, open, peer, sentBy, tried>>
RegisterNoInsert ==
  /\ main.pc = "register" /\ lock = None
  /\ lock' = Main
  /\ main' = [main EXCEPT !.pc = "start"]
  /\ UNCHANGED <<handler, clients, open, peer, sentBy, tried>>
Register ==
  /\ main.pc = "register" /\ lock = None
  /\ lock' = Main
  /\ clients' = clients \cup {main.sock}
  /\ main' = [main EXCEPT !.pc = "start"]
  /\ UNCHANGED <<handler, open, peer, sentBy, tried>>

StartThread ==
  /\ main.pc = "start"
  /\ handler' = [handler EXCEPT ![main.conn] =
                   [pc |-> "recv", sock |-> main.sock, msg |-> 0, todo |-> {}]]
  /\ main' = [main EXCEPT !.pc = "unlock"]
  /\ UNCHANGED <<lock, clients, open, peer, sentBy, tried>>

UnlockMain ==
  /\ main.pc = "unlock"
  /\ lock' = None
  /\ main' = Accepting
  /\ UNCHANGED <<handler, clients, open, peer, sentBy, tried>>

\* accept() fails, or line 117 throws as no thread can be started: the process
\* ends.
Stop ==
  /\ main.pc \in {"accept", "start"}
  /\ main' = [main EXCEPT !.pc = "exit"]
  /\ UNCHANGED <<handler, lock, clients, open, peer, sentBy, tried>>

(***************************************************************************)
(* handleClient, lines 18-53.                                              *)
(***************************************************************************)
At(c, pc) == main.pc # "exit" /\ handler[c].pc = pc

\* Lines 26-29.  WSAEWOULDBLOCK sends the loop round again and changes nothing.
Recv(c) ==
  /\ At(c, "recv") /\ peer[c] = "open" /\ sentBy[c] < MaxMessages
  /\ sentBy' = [sentBy EXCEPT ![c] = @ + 1]
  /\ handler' = [handler EXCEPT ![c].pc = "lock", ![c].msg = sentBy[c] + 1]
  /\ UNCHANGED <<main, lock, clients, open, peer, tried>>

\* Line 31: the walk over clients starts with all of them.
LockToSend(c) ==
  /\ At(c, "lock") /\ lock = None
  /\ lock' = c
  /\ handler' = [handler EXCEPT ![c].pc = "send", ![c].todo = clients]
  /\ UNCHANGED <<main, clients, open, peer, sentBy, tried>>

\* One turn of lines 32-36.  Whether the bytes fit in the socket's buffer is
\* not looked at, so what is recorded is that send() was called.
SendOne(c, h) ==
  /\ At(c, "send") /\ h \in handler[c].todo
  /\ handler' = [handler EXCEPT ![c].todo = @ \ {h}]
  /\ tried' = IF h = handler[c].sock THEN tried
              ELSE tried \cup {<<open[h], c, handler[c].msg>>}
  /\ UNCHANGED <<main, lock, clients, open, peer, sentBy>>

Unlock(c) ==
  /\ At(c, "send") /\ handler[c].todo = {}
  /\ lock' = None
  /\ handler' = [handler EXCEPT ![c].pc = "recv", ![c].msg = 0]
  /\ UNCHANGED <<main, clients, open, peer, sentBy, tried>>

\* Lines 38-52: recv() returned 0 or failed.
LeaveUnlocked(c) ==
  /\ At(c, "recv") /\ peer[c] = "gone"
  /\ clients' = clients \ {handler[c].sock}
  /\ open' = [open EXCEPT ![handler[c].sock] = None]
  /\ handler' = [handler EXCEPT ![c].pc = "done"]
  /\ UNCHANGED <<main, lock, peer, sentBy, tried>>
LeaveCloseOnly(c) ==
  /\ At(c, "recv") /\ peer[c] = "gone" /\ lock = None
  /\ open' = [open EXCEPT ![handler[c].sock] = None]
  /\ handler' = [handler EXCEPT ![c].pc = "done"]
  /\ UNCHANGED <<main, lock, clients, peer, sentBy, tried>>
LeaveKeepsHandle(c) ==
  /\ At(c, "recv") /\ peer[c] = "gone" /\ lock = None
  /\ clients' = clients \ {handler[c].sock}
  /\ handler' = [handler EXCEPT ![c].pc = "done"]
  /\ UNCHANGED <<main, lock, open, peer, sentBy, tried>>
Leave(c) ==
  /\ At(c, "recv") /\ peer[c] = "gone" /\ lock = None
  /\ clients' = clients \ {handler[c].sock}
  /\ open' = [open EXCEPT ![handler[c].sock] = None]
  /\ handler' = [handler EXCEPT ![c].pc = "done"]
  /\ UNCHANGED <<main, lock, peer, sentBy, tried>>

\* The other end goes away.
Hangup(c) ==
  /\ peer[c] = "open"
  /\ peer' = [peer EXCEPT ![c] = "gone"]
  /\ UNCHANGED <<main, handler, lock, clients, open, sentBy, tried>>

Sending(c) == LockToSend(c) \/ (\E h \in Handles : SendOne(c, h)) \/ Unlock(c)
Handler(c) == Recv(c) \/ Sending(c) \/ Leave(c)

Next == \/ \E c \in Conns, h \in Handles : Accept(c, h)
        \/ Register \/ StartThread \/ UnlockMain \/ Stop
        \/ \E c \in Conns : Handler(c) \/ Hangup(c)

Spec == Init /\ [][Next]_vars

\* Threads keep running, and one that waits for clientsMutex gets it in the
\* end: every holder gives it back after a loop that cannot block, or, if it is
\* main, once it has started a thread or died of it.
FairSpec == /\ Spec
            /\ WF_vars(StartThread \/ UnlockMain)
            /\ \A c \in Conns : SF_vars(Sending(c) \/ Leave(c))

-----------------------------------------------------------------------------
Serving == {"recv", "lock", "send"}

ServerTypeOK ==
  /\ main \in [pc : {"accept", "register", "start", "unlock", "exit"}, sock : Handles \cup {None},
               conn : Conns \cup {None}]
  /\ handler \in [Conns -> [pc : {"none", "done"} \cup Serving, sock : Handles \cup {None},
                            msg : 0..MaxMessages, todo : SUBSET Handles]]
  /\ lock \in Conns \cup {Main, None}
  /\ clients \subseteq Handles

SystemTypeOK ==
  /\ open \in [Handles -> Conns \cup {None}]
  /\ peer \in [Conns -> {"new", "open", "gone"}]
  /\ sentBy \in [Conns -> 0..MaxMessages]

TypeOK == ServerTypeOK /\ SystemTypeOK

\* main has put c under h into the set and has not started its thread yet.
Starting(c, h) == main.pc \in {"start", "exit"} /\ main.conn = c /\ main.sock = h

\* Every registered handle is open and stands for a connection that has its
\* thread, or is about to: nothing is ever sent to a closed handle or, through
\* a number used again, to somebody else (lines 31-36, 50-52).
RegisteredIsServed ==
  \A h \in clients : \E c \in Conns :
    /\ open[h] = c
    /\ (handler[c].sock = h /\ handler[c].pc \in Serving) \/ Starting(c, h)

\* Every connection that is served is registered, under a handle of its own.
ServedIsRegistered ==
  \A c \in Conns : handler[c].pc \in Serving =>
    handler[c].sock \in clients /\ open[handler[c].sock] = c

\* No handle is lost: one that is open is being registered or is served.
NoHandleLeak ==
  \A h \in Handles : open[h] # None =>
    h \in clients \/ (main.sock = h /\ main.conn = open[h] /\ main.pc = "register")

\* However a handle is used again, the set, the open handles and the running
\* threads agree: the lock in lines 50-52 closes and erases in one step, also
\* for a thread that finds its client gone before main has left the lock.
RegistryExact == RegisteredIsServed /\ ServedIsRegistered /\ NoHandleLeak

\* No message goes to a closed handle or back to its sender (line 33).
AddressedRight == \A m \in tried : m[1] \in Conns /\ m[1] # m[2]

\* The set is not changed while a thread walks over it (lines 31-36).
WalkIsSound == \A c \in Conns : handler[c].pc = "send" => handler[c].todo \subseteq clients

\* Whoever is being served when a message is passed on has been sent it.
BroadcastReachesAll ==
  [][\A c \in Conns : Unlock(c) =>
       \A d \in Conns \ {c} : handler[d].pc \in Serving
                                => <<d, c, handler[c].msg>> \in tried]_vars

\* A client that is gone is unregistered and its handle closed in the end.
GoneIsClosed ==
  \A c \in Conns :
    (handler[c].pc \in Serving /\ peer[c] = "gone")
      ~> ((handler[c].pc = "done" /\ \A h \in Handles : open[h] # c) \/ main.pc = "exit")

\* The lock is held exactly by a thread that is sending, or by main.
LockHeld ==
  /\ \A c \in Conns : handler[c].pc = "send" <=> lock = c
  /\ main.pc \in {"start", "unlock"} => lock = Main

\* From accept() to the start of the thread main holds a handle that no thread
\* has, and which is not in the set before it is registered.
Accepted ==
  /\ main.pc \in {"register", "start"} =>
       /\ main.sock \in Handles /\ main.conn \in Conns
       /\ open[main.sock] = main.conn /\ handler[main.conn].pc = "none"
  /\ main.pc = "register" => main.sock \notin clients
  /\ main.pc = "start" => main.sock \in clients
  /\ \A c \in Conns : peer[c] = "new" =>
       handler[c].pc = "none" /\ \A h \in Handles : open[h] # c

RegistryInv == /\ TypeOK /\ RegisteredIsServed /\ ServedIsRegistered /\ NoHandleLeak
               /\ AddressedRight /\ WalkIsSound /\ LockHeld /\ Accepted
=============================================================================
