---------------------------- MODULE SelectServer ----------------------------
(***************************************************************************)
(* ipv6_server.cpp: one thread, select(), and the array client_sockets,    *)
(* here slot.  The array is never initialised.  Slot 0 holds what accept() *)
(* returned last, for ever; clients are served from the other slots.       *)
(*                                                                         *)
(* A set that holds anything but open sockets makes select() fail at once  *)
(* and leaves readfds as it was, and the program goes on all the same: it  *)
(* takes every socket in the set for readable, and blocks in accept() and  *)
(* in recv() until that is so.                                             *)
(***************************************************************************)
EXTENDS Integers

CONSTANTS
  Clients,      \* clients, each with one connection at a time
  Handles,      \* socket numbers accept() may return
  MaxClients,   \* MAX_CLIENTS, 10 in the code
  MaxMessages,  \* bound: messages of a client that are not read yet
  Listener,     \* listen_socket
  Garbage,      \* what an uninitialised slot may hold: no socket's number
  Invalid,      \* INVALID_SOCKET
  None          \* zero in a slot, nobody at a handle

ASSUME SelectAssumption ==
  /\ MaxClients \in Nat /\ MaxClients > 0 /\ MaxMessages \in Nat
  /\ {Listener, Garbage, Invalid, None} \cap Handles = {}
  /\ Listener \notin {Garbage, Invalid, None}
  /\ None \notin {Garbage, Invalid} \cup Clients

VARIABLES
  slot,      \* client_sockets
  readfds,   \* readfds after select()
  activity,  \* what select() returned: "ok" or "error"
  pc,        \* "select", "accept" or "read"
  at,        \* the i of the reading loop
  owner,     \* owner[h]: the client at the other end of h, None if h is closed
  peer,      \* peer[c]: "new", "waiting" for accept(), "open" or "gone"
  unread     \* unread[c]: messages of c that wait to be received

server == <<slot, readfds, activity, pc, at>>
vars == <<slot, readfds, activity, pc, at, owner, peer, unread>>

Slots == 0..(MaxClients - 1)
Served == 1..(MaxClients - 1)

IsOpen(h) == h = Listener \/ (h \in Handles /\ owner[h] # None)
Lists(h) == \E i \in Served : slot[i] = h

\* A connection can be read from when bytes or its end have come.
Speaks(h) == unread[owner[h]] > 0 \/ peer[owner[h]] = "gone"
Ready(h) == IF h = Listener THEN \E c \in Clients : peer[c] = "waiting"
            ELSE h \in Handles /\ owner[h] # None /\ Speaks(h)

Init ==
  /\ slot \in [Slots -> {None, Garbage}]
  /\ readfds = {} /\ activity = "ok" /\ pc = "select" /\ at = 1
  /\ owner = [h \in Handles |-> None]
  /\ peer = [c \in Clients |-> "new"]
  /\ unread = [c \in Clients |-> 0]

(***************************************************************************)
(* One turn of the loop.                                                   *)
(***************************************************************************)
Asked == ({Listener} \cup {slot[i] : i \in Slots}) \ {None}

SelectTrusts ==
  /\ pc = "select"
  /\ readfds' = Asked /\ activity' = "ok"
  /\ pc' = IF Listener \in readfds' THEN "accept" ELSE "read"
  /\ at' = 1
  /\ UNCHANGED <<slot, owner, peer, unread>>
SelectStartsOver ==
  /\ pc = "select"
  /\ IF \A h \in Asked : IsOpen(h)
     THEN /\ readfds' = {h \in Asked : Ready(h)} /\ readfds' # {}
          /\ activity' = "ok"
          /\ pc' = IF Listener \in readfds' THEN "accept" ELSE "read"
     ELSE readfds' = Asked /\ activity' = "error" /\ pc' = "select"
  /\ at' = 1
  /\ UNCHANGED <<slot, owner, peer, unread>>

\* Lines 53-68.
Select ==
  /\ pc = "select"
  /\ IF \A h \in Asked : IsOpen(h)
     THEN /\ readfds' = {h \in Asked : Ready(h)} /\ readfds' # {}
          /\ activity' = "ok"
     ELSE readfds' = Asked /\ activity' = "error"
  /\ pc' = IF Listener \in readfds' THEN "accept" ELSE "read"
  /\ at' = 1
  /\ UNCHANGED <<slot, owner, peer, unread>>

FreeSlots == {i \in Served : slot[i] = None}
IsFirst(i, S) == i \in S /\ \A j \in S : i <= j

\* A socket for which no slot was free is in slot 0 only, where the next
\* accept() overwrites it.  Nobody can touch it after that, so its number and
\* its client stand for fresh ones from then on.
Forgotten == {h \in Handles : slot[0] = h /\ ~Lists(h)}
Dropped == {owner[h] : h \in Forgotten}

\* Slot 0 is overwritten, for client c at handle h or, with None, for nobody.
Forget(c, h) ==
  /\ owner' = [g \in Handles |-> IF g = h THEN c ELSE IF g \in Forgotten THEN None ELSE owner[g]]
  /\ peer' = [d \in Clients |-> IF d = c THEN "open" ELSE IF d \in Dropped THEN "new" ELSE peer[d]]
  /\ unread' = [d \in Clients |-> IF d \in Dropped THEN 0 ELSE unread[d]]

\* Lines 68-85.
AcceptPastEnd(c, h) ==
  /\ pc = "accept" /\ peer[c] = "waiting" /\ owner[h] = None
  /\ slot' = [i \in Slots \cup (IF FreeSlots = {} THEN {MaxClients} ELSE {}) |->
               IF i \in {0, MaxClients} \/ IsFirst(i, FreeSlots)
               THEN h ELSE slot[i]]
  /\ Forget(c, h)
  /\ pc' = "read"
  /\ UNCHANGED <<readfds, activity, at>>
Accept(c, h) ==
  /\ pc = "accept" /\ peer[c] = "waiting" /\ owner[h] = None
  /\ slot' = [i \in Slots |-> IF i = 0 \/ IsFirst(i, FreeSlots)
                              THEN h ELSE slot[i]]
  /\ Forget(c, h)
  /\ pc' = "read"
  /\ UNCHANGED <<readfds, activity, at>>

\* Lines 69-72: slot 0 gets INVALID_SOCKET, and the clients are not read from.
AcceptFails ==
  /\ pc = "accept"
  /\ slot' = [slot EXCEPT ![0] = Invalid]
  /\ Forget(None, None)
  /\ pc' = "select"
  /\ UNCHANGED <<readfds, activity, at>>

ToRead == {i \in Served : i >= at /\ slot[i] \in readfds}
Reads(i) == pc = "read" /\ IsFirst(i, ToRead)

\* Lines 89 and 103-108: one message is received and sent back.
Receive(i) ==
  /\ Reads(i) /\ slot[i] \in Handles /\ owner[slot[i]] # None /\ unread[owner[slot[i]]] > 0
  /\ unread' = [unread EXCEPT ![owner[slot[i]]] = @ - 1]
  /\ at' = i + 1
  /\ UNCHANGED <<slot, readfds, activity, pc, owner, peer>>

\* The socket is closed and forgotten; the client is free for another visit.
Close(h) ==
  /\ owner' = [owner EXCEPT ![h] = None]
  /\ peer' = [peer EXCEPT ![owner[h]] = "new"]
  /\ unread' = [unread EXCEPT ![owner[h]] = 0]

\* Lines 97-101: the client has gone.
Disconnect(i) ==
  /\ Reads(i) /\ slot[i] \in Handles /\ owner[slot[i]] # None
  /\ unread[owner[slot[i]]] = 0 /\ peer[owner[slot[i]]] = "gone"
  /\ Close(slot[i])
  /\ slot' = [slot EXCEPT ![i] = None]
  /\ at' = i + 1
  /\ UNCHANGED <<readfds, activity, pc>>

\* Lines 91-95: recv() failed, as it does on what is no socket.
DropKeepsSlot(i) ==
  /\ Reads(i)
  /\ IF slot[i] \in Handles /\ owner[slot[i]] # None THEN Close(slot[i])
     ELSE UNCHANGED <<owner, peer, unread>>
  /\ at' = i + 1
  /\ UNCHANGED <<slot, readfds, activity, pc>>
Drop(i) ==
  /\ Reads(i)
  /\ IF slot[i] \in Handles /\ owner[slot[i]] # None THEN Close(slot[i])
     ELSE UNCHANGED <<owner, peer, unread>>
  /\ slot' = [slot EXCEPT ![i] = None]
  /\ at' = i + 1
  /\ UNCHANGED <<readfds, activity, pc>>

\* Line 111.
EndTurn ==
  /\ pc = "read" /\ ToRead = {}
  /\ pc' = "select"
  /\ UNCHANGED <<slot, readfds, activity, at, owner, peer, unread>>

(***************************************************************************)
(* The clients.                                                            *)
(***************************************************************************)
Connect(c) ==
  /\ peer[c] = "new" /\ peer' = [peer EXCEPT ![c] = "waiting"]
  /\ UNCHANGED <<server, owner, unread>>

Write(c) ==
  /\ peer[c] = "open" /\ unread[c] < MaxMessages
  /\ unread' = [unread EXCEPT ![c] = @ + 1]
  /\ UNCHANGED <<server, owner, peer>>

Leave(c) ==
  /\ peer[c] = "open" /\ peer' = [peer EXCEPT ![c] = "gone"]
  /\ UNCHANGED <<server, owner, unread>>

Serve(i) == Receive(i) \/ Disconnect(i) \/ Drop(i)
Next == \/ Select \/ AcceptFails \/ EndTurn
        \/ \E c \in Clients : Connect(c) \/ Write(c) \/ Leave(c)
        \/ \E c \in Clients, h \in Handles : Accept(c, h)
        \/ \E i \in Served : Serve(i)

Spec == Init /\ [][Next]_vars

\* The server keeps running, accept() does not fail for ever, and clients come
\* and go: nobody stays connected for ever without a word, or stays away.
FairSpec ==
  /\ Spec
  /\ WF_vars(Select) /\ WF_vars(EndTurn)
  /\ SF_vars(\E c \in Clients, h \in Handles : Accept(c, h))
  /\ \A i \in Served : WF_vars(Receive(i) \/ Disconnect(i))
                      /\ WF_vars(Drop(i) /\ slot[i] = Garbage)
  /\ \A c \in Clients : WF_vars(Connect(c)) /\ WF_vars(Leave(c))

-----------------------------------------------------------------------------
TypeOK ==
  /\ slot \in [Slots -> Handles \cup {None, Garbage, Invalid}]
  /\ readfds \subseteq Handles \cup {Listener, Garbage, Invalid}
  /\ activity \in {"ok", "error"}
  /\ pc \in {"select", "accept", "read"}
  /\ at \in 1..MaxClients
  /\ owner \in [Handles -> Clients \cup {None}]
  /\ peer \in [Clients -> {"new", "waiting", "open", "gone"}]
  /\ unread \in [Clients -> 0..MaxMessages]

\* Whatever numbers the system uses again, a slot the clients are served from
\* holds an open socket or none, and no two hold the same (lines 76-101).
SlotsAreOpen ==
  \A i \in Served : slot[i] \in Handles =>
    /\ owner[slot[i]] # None
    /\ \A j \in Served : slot[j] = slot[i] => j = i

\* The server waits in recv() for one client, and lets all others wait, only
\* on a turn whose select() has failed (lines 62-66, 89).
BlocksOnlyAfterError ==
  (pc = "read" /\ activity = "ok") =>
    \A i \in ToRead : slot[i] \in Handles /\ Speaks(slot[i])

\* As long as clients come and go, the socket of one that left is closed in
\* the end, though slot 0 makes select() fail again and again (lines 87-101).
GoneIsClosed ==
  \A h \in Handles :
    (owner[h] # None /\ peer[owner[h]] = "gone" /\ Lists(h)) ~> ~Lists(h)
=============================================================================
