----------------------------- MODULE EventServer -----------------------------
(***************************************************************************)
(* Asyn_non_blocking_winsock_server.cpp: one thread that waits for one of  *)
(* the events in eventArray, each bound by WSAEventSelect to the socket at *)
(* the same index of socketArray.  Entry 1 is the listening socket.        *)
(*                                                                         *)
(* HandleClient reads until recv() gives nothing and takes that for a      *)
(* failure (WSAEWOULDBLOCK): it closes the socket and leaves its entry     *)
(* behind.  The event of such an entry may still be signalled, and its     *)
(* handle may be given to a later connection, which then has two entries.  *)
(***************************************************************************)
EXTENDS Integers, Sequences, FiniteSetsExt, SequencesExt

CONSTANTS Conns,        \* connections, each made and ended once
          Handles,      \* SOCKET values for accepted connections
          MaxEvents,    \* WSA_MAXIMUM_WAIT_EVENTS
          MaxMessages,  \* bound: messages one client sends
          None, Listener

ASSUME LimitsAssumption == MaxEvents \in Nat \ {0} /\ MaxMessages \in Nat
ASSUME NamesAssumption == None \notin Conns \cup Handles /\ Listener \notin Conns \cup Handles

VARIABLES
  main,       \* [pc, idx, net]: eventIndex and networkEvents
  entries,    \* eventArray and socketArray: a sequence of [sock, event]
  open,       \* open[h]: the connection behind handle h
  signalled,  \* the event objects that are set; a connection names its event
  enabled,    \* events whose FD_READ or FD_ACCEPT is posted when it happens
  recorded,   \* recorded[c]: network events not yet enumerated
  peer,       \* peer[c]: "new", "queued", "left" (gone, still queued), "open" or "gone"
  inbox,      \* inbox[c]: messages that came and were not read
  sentBy      \* sentBy[c]: messages client c has written

net == <<recorded, peer, inbox, sentBy>>
vars == <<main, entries, open, signalled, enabled, net>>

Waiting == [pc |-> "wait", idx |-> 1, net |-> {}]
Init ==
  /\ main = Waiting
  /\ entries = <<[sock |-> Listener, event |-> Listener]>>
  /\ open = [h \in Handles |-> None]
  /\ signalled = {} /\ enabled = {Listener}
  /\ recorded = [c \in Conns |-> {}]
  /\ peer = [c \in Conns |-> "new"]
  /\ inbox = [c \in Conns |-> 0] /\ sentBy = [c \in Conns |-> 0]

Running == main.pc # "stopped"
IsOpen(c) == \E h \in Handles : open[h] = c
Queued == {c \in Conns : peer[c] \in {"queued", "left"}}
Sock == entries[main.idx].sock
Conn == open[Sock]

(***************************************************************************)
(* The main loop, lines 95-141.                                            *)
(***************************************************************************)
Ready == {i \in DOMAIN entries : entries[i].event \in signalled}

\* Lines 96-105: the lowest signalled index, its event reset.
WaitResetsAll ==
  /\ main.pc = "wait" /\ Len(entries) <= MaxEvents /\ Ready # {}
  /\ LET i == Min(Ready) IN
       /\ signalled' = {}
       /\ main' = [pc |-> IF i = 1 THEN "accept" ELSE "enum", idx |-> i, net |-> {}]
  /\ UNCHANGED <<entries, open, enabled, net>>
Wait ==
  /\ main.pc = "wait" /\ Len(entries) <= MaxEvents /\ Ready # {}
  /\ LET i == Min(Ready) IN
       /\ signalled' = signalled \ {entries[i].event}
       /\ main' = [pc |-> IF i = 1 THEN "accept" ELSE "enum", idx |-> i, net |-> {}]
  /\ UNCHANGED <<entries, open, enabled, net>>

\* Lines 97-100 with too many events, 107-110, 113-117: the loop is left, and
\* what was accepted is left to the end of the process.
Stop ==
  /\ \/ main.pc = "wait" /\ Len(entries) > MaxEvents
     \/ main.pc = "accept"
  /\ main' = [main EXCEPT !.pc = "stopped"]
  /\ UNCHANGED <<entries, open, signalled, enabled, net>>

\* Lines 106-120.  accept() posts FD_ACCEPT again if others wait, and
\* WSAEventSelect posts what had happened before it.
Happened(c) == (IF inbox[c] > 0 THEN {"read"} ELSE {})
                 \cup (IF peer[c] = "left" THEN {"close"} ELSE {})
AcceptNoSelect(c, h) ==
  /\ main.pc = "accept" /\ c \in Queued /\ open[h] = None
  /\ open' = [open EXCEPT ![h] = c]
  /\ peer' = [peer EXCEPT ![c] = IF @ = "left" THEN "gone" ELSE "open"]
  /\ signalled' = signalled \cup (IF Queued = {c} THEN {} ELSE {Listener})
  /\ enabled' = IF Queued = {c} THEN enabled \cup {Listener} ELSE enabled
  /\ main' = Waiting
  /\ UNCHANGED <<entries, recorded, inbox, sentBy>>
Accept(c, h) ==
  /\ main.pc = "accept" /\ c \in Queued /\ open[h] = None
  /\ open' = [open EXCEPT ![h] = c]
  /\ peer' = [peer EXCEPT ![c] = IF @ = "left" THEN "gone" ELSE "open"]
  /\ entries' = Append(entries, [sock |-> h, event |-> c])
  /\ recorded' = [recorded EXCEPT ![c] = Happened(c)]
  /\ signalled' = signalled \cup (IF Queued = {c} THEN {} ELSE {Listener})
                            \cup (IF Happened(c) # {} THEN {c} ELSE {})
  /\ enabled' = (IF Queued = {c} THEN enabled \cup {Listener} ELSE enabled)
                  \cup (IF inbox[c] > 0 THEN {} ELSE {c})
  /\ main' = Waiting
  /\ UNCHANGED <<inbox, sentBy>>

After(happened) == IF "read" \in happened THEN "handle"
                   ELSE IF "close" \in happened THEN "close" ELSE "wait"

\* Lines 125-133.  On a handle that was closed WSAEnumNetworkEvents fails and
\* networkEvents is read uninitialised.
Enum ==
  /\ main.pc = "enum"
  /\ \E happened \in IF Conn = None THEN SUBSET {"read", "close"} ELSE {recorded[Conn]} :
       main' = [main EXCEPT !.pc = After(happened), !.net = happened]
  /\ recorded' = [c \in Conns |-> IF c = Conn THEN {} ELSE recorded[c]]
  /\ signalled' = IF Conn = None THEN signalled ELSE signalled \ {entries[main.idx].event}
  /\ UNCHANGED <<entries, open, enabled, peer, inbox, sentBy>>

\* closesocket() unbinds the event and forgets what was recorded; the event
\* object stays as it is.
CloseSocket(h) ==
  /\ open' = [open EXCEPT ![h] = None]
  /\ enabled' = enabled \ {open[h]}
  /\ recorded' = [c \in Conns |-> IF c = open[h] THEN {} ELSE recorded[c]]

(***************************************************************************)
(* HandleClient, lines 11-29.                                              *)
(***************************************************************************)
\* Lines 14-17: some of what came is read and sent back; the rest posts
\* FD_READ again.
Echo ==
  /\ main.pc = "handle" /\ Conn # None /\ inbox[Conn] > 0
  /\ \E n \in 1..inbox[Conn] :
       /\ inbox' = [inbox EXCEPT ![Conn] = @ - n]
       /\ IF n < inbox[Conn]
          THEN /\ recorded' = [recorded EXCEPT ![Conn] = @ \cup {"read"}]
               /\ signalled' = signalled \cup {Conn} /\ enabled' = enabled \ {Conn}
          ELSE /\ enabled' = enabled \cup {Conn}
               /\ UNCHANGED <<recorded, signalled>>
  /\ UNCHANGED <<main, entries, open, peer, sentBy>>

\* Lines 18-27: recv() gave 0, WSAEWOULDBLOCK, or failed on a closed handle.
Leave ==
  /\ main.pc = "handle" /\ (Conn # None => inbox[Conn] = 0)
  /\ main' = [main EXCEPT !.pc = After(main.net \ {"read"})]
  /\ CloseSocket(Sock)
  /\ UNCHANGED <<entries, signalled, peer, inbox, sentBy>>

\* Lines 133-139.
DropTwice ==
  /\ main.pc = "close"
  /\ CloseSocket(Sock)
  /\ entries' = RemoveAt(entries, main.idx)
  /\ UNCHANGED <<main, signalled, peer, inbox, sentBy>>
Drop ==
  /\ main.pc = "close"
  /\ CloseSocket(Sock)
  /\ entries' = RemoveAt(entries, main.idx)
  /\ main' = Waiting
  /\ UNCHANGED <<signalled, peer, inbox, sentBy>>

(***************************************************************************)
(* The clients and the network.                                            *)
(***************************************************************************)
Post(c, what) ==
  /\ recorded' = [recorded EXCEPT ![c] = @ \cup {what}]
  /\ signalled' = signalled \cup {c}

Connect(c) ==
  /\ Running /\ peer[c] = "new"
  /\ peer' = [peer EXCEPT ![c] = "queued"]
  /\ signalled' = IF Listener \in enabled THEN signalled \cup {Listener} ELSE signalled
  /\ enabled' = enabled \ {Listener}
  /\ UNCHANGED <<main, entries, open, recorded, inbox, sentBy>>

\* A client that goes before it was accepted: the connection may stay queued.
Withdraw(c) ==
  /\ peer[c] = "queued"
  /\ \E then \in {"left", "gone"} : peer' = [peer EXCEPT ![c] = then]
  /\ UNCHANGED <<main, entries, open, signalled, enabled, recorded, inbox, sentBy>>

Send(c) ==
  /\ peer[c] \in {"queued", "open"} /\ sentBy[c] < MaxMessages
  /\ peer[c] = "open" => IsOpen(c)
  /\ sentBy' = [sentBy EXCEPT ![c] = @ + 1]
  /\ inbox' = [inbox EXCEPT ![c] = @ + 1]
  /\ IF c \in enabled THEN Post(c, "read") /\ enabled' = enabled \ {c}
     ELSE UNCHANGED <<recorded, signalled, enabled>>
  /\ UNCHANGED <<main, entries, open, peer>>

Hangup(c) ==
  /\ peer[c] = "open"
  /\ peer' = [peer EXCEPT ![c] = "gone"]
  /\ IF IsOpen(c) THEN Post(c, "close") ELSE UNCHANGED <<recorded, signalled>>
  /\ UNCHANGED <<main, entries, open, enabled, inbox, sentBy>>

Main == \/ Wait \/ Enum \/ Echo \/ Leave \/ Drop \/ Stop
        \/ \E c \in Conns, h \in Handles : Accept(c, h)
Next == Main \/ \E c \in Conns : Connect(c) \/ Withdraw(c) \/ Send(c) \/ Hangup(c)

Spec == Init /\ [][Next]_vars
\* The one thread of the server keeps running.
FairSpec == Spec /\ WF_vars(Main)

-----------------------------------------------------------------------------
TypeOK ==
  /\ main \in [pc : {"wait", "accept", "enum", "handle", "close", "stopped"},
               idx : DOMAIN entries, net : SUBSET {"read", "close"}]
  /\ entries \in Seq([sock : Handles \cup {Listener}, event : Conns \cup {Listener}])
  /\ open \in [Handles -> Conns \cup {None}]
  /\ signalled \subseteq Conns \cup {Listener} /\ enabled \subseteq Conns \cup {Listener}
  /\ recorded \in [Conns -> SUBSET {"read", "close"}]
  /\ peer \in [Conns -> {"new", "queued", "left", "open", "gone"}]
  /\ inbox \in [Conns -> 0..MaxMessages] /\ sentBy \in [Conns -> 0..MaxMessages]

\* While the server waits, every open connection has exactly one entry that
\* carries its handle and its own event, whatever stale entries for the same
\* handle there are (lines 119-120, 135-138).
OpenIsWatched ==
  main.pc = "wait" => \A h \in Handles : open[h] # None =>
    Cardinality({i \in DOMAIN entries : entries[i] = [sock |-> h, event |-> open[h]]}) = 1

\* No wake-up is lost: while the server waits, the event of a connection with
\* unread messages or a client that is gone is set (lines 96-103, 127).
NoLostWakeup ==
  main.pc = "wait" => \A h \in Handles : open[h] # None =>
    ((inbox[open[h]] > 0 \/ peer[open[h]] = "gone") => open[h] \in signalled)

\* A connection whose client is gone is closed in the end, or the server stops.
GoneIsClosed ==
  \A c \in Conns : (IsOpen(c) /\ peer[c] = "gone") ~> (~IsOpen(c) \/ main.pc = "stopped")
=============================================================================
