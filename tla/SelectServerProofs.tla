-------------------------- MODULE SelectServerProofs --------------------------
(***************************************************************************)
(* For any number of clients, handles and slots: the slots clients are     *)
(* served from hold open sockets, each once, and recv() blocks only after  *)
(* a failed select().                                                      *)
(***************************************************************************)
EXTENDS SelectServer, TLAPS

(***************************************************************************)
(* What is left out by the properties themselves.  A client has one open   *)
(* handle, which is what keeps the end of one conversation from taking the *)
(* bytes of another; and between select() and accept() whatever readfds    *)
(* lists can be read from, so that a number accept() returns is not in it. *)
(***************************************************************************)
OwnersDiffer ==
  /\ \A h \in Handles : owner[h] # None => peer[owner[h]] \in {"open", "gone"}
  /\ \A g, h \in Handles : owner[g] = owner[h] /\ owner[g] # None => g = h

ReadableSpeaks ==
  (pc = "accept" /\ activity = "ok") =>
    \A h \in readfds : h = Listener \/ (h \in Handles /\ owner[h] # None /\ Speaks(h))

IInv == TypeOK /\ SlotsAreOpen /\ OwnersDiffer /\ BlocksOnlyAfterError /\ ReadableSpeaks

\* What the assumption says of single constants.
LEMMA Distinct ==
  /\ None \notin Handles /\ None \notin Clients
  /\ Listener \notin Handles /\ Garbage \notin Handles /\ Invalid \notin Handles
  /\ Listener # None /\ Listener # Garbage /\ Listener # Invalid
  /\ Garbage # None /\ Invalid # None
  /\ 0 \in Slots /\ Served \subseteq Slots /\ 0 \notin Served
BY SelectAssumption DEF Slots, Served

-----------------------------------------------------------------------------
(***************************************************************************)
(* Types.                                                                  *)
(***************************************************************************)
\* Closing keeps the types of what it changes.
LEMMA CloseType ==
  ASSUME TypeOK, NEW h \in Handles, owner[h] # None, Close(h)
  PROVE  /\ owner' \in [Handles -> Clients \cup {None}]
         /\ peer' \in [Clients -> {"new", "waiting", "open", "gone"}]
         /\ unread' \in [Clients -> 0..MaxMessages]
<1>1. owner[h] \in Clients
  BY DEF TypeOK
<1>2. 0 \in 0..MaxMessages
  BY SelectAssumption
<1> QED
  BY <1>1, <1>2 DEF TypeOK, Close

\* Overwriting slot 0 keeps the types of what it changes.
LEMMA ForgetType ==
  ASSUME TypeOK, NEW c \in Clients \cup {None}, NEW h \in Handles \cup {None}, Forget(c, h)
  PROVE  /\ owner' \in [Handles -> Clients \cup {None}]
         /\ peer' \in [Clients -> {"new", "waiting", "open", "gone"}]
         /\ unread' \in [Clients -> 0..MaxMessages]
<1>1. 0 \in 0..MaxMessages
  BY SelectAssumption
<1>2. \A g \in Handles :
        (IF g = h THEN c ELSE IF g \in Forgotten THEN None ELSE owner[g]) \in Clients \cup {None}
  BY DEF TypeOK
<1>3. \A d \in Clients : (IF d = c THEN "open" ELSE IF d \in Dropped THEN "new" ELSE peer[d])
                           \in {"new", "waiting", "open", "gone"}
  BY DEF TypeOK
<1>4. \A d \in Clients : (IF d \in Dropped THEN 0 ELSE unread[d]) \in 0..MaxMessages
  BY <1>1 DEF TypeOK
<1> QED
  BY <1>2, <1>3, <1>4 DEF Forget

\* What select() looks at is a socket, or what a slot holds.
LEMMA AskedType ==
  ASSUME TypeOK
  PROVE  Asked \subseteq Handles \cup {Listener, Garbage, Invalid}
BY DEF TypeOK, Asked

\* Every step keeps every variable's type.
LEMMA TypeStep ==
  ASSUME TypeOK, [Next]_vars
  PROVE  TypeOK'
<1> USE DEF TypeOK
<1>1. CASE Select
  <2>1. readfds' \subseteq Asked
    BY <1>1 DEF Select
  <2>2. 1 \in 1..MaxClients
    BY SelectAssumption
  <2> QED
    BY <1>1, <2>1, <2>2, AskedType DEF Select
<1>2. ASSUME NEW c \in Clients, NEW h \in Handles, Accept(c, h)
      PROVE  TypeOK'
  <2>1. slot' \in [Slots -> Handles \cup {None, Garbage, Invalid}]
    BY <1>2 DEF Accept
  <2> QED
    BY <1>2, <2>1, ForgetType DEF Accept
<1>3. CASE AcceptFails
  BY <1>3, ForgetType, Zenon DEF AcceptFails
<1>4. ASSUME NEW i \in Served, Reads(i)
      PROVE  i + 1 \in 1..MaxClients
  BY SelectAssumption DEF Served
<1>5. ASSUME NEW i \in Served, Receive(i)
      PROVE  TypeOK'
  <2>1. owner[slot[i]] \in Clients
    BY <1>5 DEF Receive
  <2>2. unread[owner[slot[i]]] - 1 \in 0..MaxMessages
    BY <1>5, <2>1, SelectAssumption DEF Receive
  <2> QED
    BY <1>4, <1>5, <2>1, <2>2 DEF Receive
<1>6. ASSUME NEW i \in Served, Disconnect(i)
      PROVE  TypeOK'
  BY <1>4, <1>6, CloseType DEF Disconnect
<1>7. ASSUME NEW i \in Served, Drop(i)
      PROVE  TypeOK'
  <2>1. CASE slot[i] \in Handles /\ owner[slot[i]] # None
    BY <1>4, <1>7, <2>1, CloseType DEF Drop
  <2>2. CASE ~(slot[i] \in Handles /\ owner[slot[i]] # None)
    BY <1>4, <1>7, <2>2 DEF Drop
  <2> QED
    BY <2>1, <2>2
<1>8. CASE EndTurn
  BY <1>8 DEF EndTurn
<1>9. ASSUME NEW c \in Clients, Connect(c) \/ Write(c) \/ Leave(c)
      PROVE  TypeOK'
  <2>1. unread[c] < MaxMessages => unread[c] + 1 \in 0..MaxMessages
    BY SelectAssumption
  <2> QED
    BY <1>9, <2>1 DEF Connect, Write, Leave, server
<1>10. CASE UNCHANGED vars
  BY <1>10 DEF vars
<1> QED
  BY <1>1, <1>2, <1>3, <1>5, <1>6, <1>7, <1>8, <1>9, <1>10 DEF Next, Serve

-----------------------------------------------------------------------------
(***************************************************************************)
(* The invariant.  First the steps that close a socket or give one up.     *)
(***************************************************************************)
\* The end of the client at one handle is no other handle's business.
LEMMA CloseKeepsOthers ==
  ASSUME TypeOK, OwnersDiffer, NEW h \in Handles, owner[h] # None, Close(h)
  PROVE  /\ OwnersDiffer'
         /\ \A g \in Handles \ {h} : owner'[g] = owner[g]
         /\ \A g \in Handles \ {h} : owner[g] # None /\ Speaks(g) => Speaks(g)'
<1>1. owner[h] \in Clients /\ None \notin Clients
  BY Distinct DEF TypeOK
<1>2. owner' = [owner EXCEPT ![h] = None]
  BY DEF Close
<1>3. \A g \in Handles \ {h} : owner'[g] = owner[g]
  BY <1>2 DEF TypeOK
<1>4. owner'[h] = None
  BY <1>2 DEF TypeOK
<1>5. \A g \in Handles \ {h} : owner[g] # None =>
         owner[g] \in Clients /\ peer'[owner[g]] = peer[owner[g]] /\ unread'[owner[g]] = unread[owner[g]]
  BY DEF TypeOK, OwnersDiffer, Close
<1>6. OwnersDiffer'
  BY <1>3, <1>4, <1>5 DEF OwnersDiffer
<1> QED
  BY <1>3, <1>5, <1>6 DEF Speaks

\* A socket that is given up is in no slot clients are served from, and its
\* client is at no other handle.  With None for c the lemma is about a failed
\* accept().
LEMMA ForgetKeepsOthers ==
  ASSUME TypeOK, OwnersDiffer, NEW c \in Clients \cup {None}, NEW h \in Handles \cup {None},
         c = None <=> h = None, c # None => peer[c] = "waiting" /\ owner[h] = None,
         Forget(c, h)
  PROVE  /\ OwnersDiffer'
         /\ h # None => owner'[h] = c
         /\ \A g \in Handles : g # h /\ Lists(g) => owner'[g] = owner[g]
         /\ \A g \in Handles : g # h /\ Lists(g) /\ owner[g] # None /\ Speaks(g) => Speaks(g)'
<1>1. \A g \in Handles : owner'[g] = IF g = h THEN c ELSE IF g \in Forgotten THEN None ELSE owner[g]
  BY DEF Forget
<1>2. \A g \in Handles : g # h /\ owner'[g] # None => owner'[g] = owner[g] /\ g \notin Forgotten
  BY <1>1
<1>3. \A g \in Handles : owner[g] # None => owner[g] \in Clients /\ owner[g] # c
  BY DEF TypeOK, OwnersDiffer
<1>4. \A g \in Handles : owner[g] # None /\ g \notin Forgotten => owner[g] \notin Dropped
  BY DEF OwnersDiffer, Dropped, Forgotten
<1>5. \A g \in Handles : owner[g] # None /\ g \notin Forgotten =>
         peer'[owner[g]] = peer[owner[g]] /\ unread'[owner[g]] = unread[owner[g]]
  BY <1>3, <1>4 DEF Forget
<1>6. \A g \in Handles : owner'[g] # None => peer'[owner'[g]] \in {"open", "gone"}
  <2> TAKE g \in Handles
  <2>1. CASE g = h /\ c # None
    BY <1>1, <2>1 DEF Forget
  <2>2. CASE g # h
    BY <1>2, <1>5, <2>2 DEF OwnersDiffer
  <2> QED
    BY <2>1, <2>2, Distinct
<1>7. ASSUME NEW f \in Handles, NEW g \in Handles, owner'[f] = owner'[g], owner'[f] # None
      PROVE  f = g
  BY <1>1, <1>2, <1>3, <1>7 DEF OwnersDiffer
<1>8. OwnersDiffer'
  BY <1>6, <1>7, Zenon DEF OwnersDiffer
<1>9. \A g \in Handles : Lists(g) => g \notin Forgotten
  BY DEF Forgotten
<1> QED
  BY <1>1, <1>5, <1>8, <1>9 DEF Speaks

\* One step keeps the invariant.
LEMMA OpenStep ==
  ASSUME IInv, [Next]_vars
  PROVE  (SlotsAreOpen /\ OwnersDiffer)'
<1> USE DEF IInv
<1>1. CASE Select \/ EndTurn
  BY <1>1 DEF Select, EndTurn, SlotsAreOpen, OwnersDiffer
<1>2. ASSUME NEW c \in Clients, NEW h \in Handles, Accept(c, h)
      PROVE  (SlotsAreOpen /\ OwnersDiffer)'
  <2>1. /\ OwnersDiffer' /\ owner'[h] = c
        /\ \A g \in Handles : g # h /\ Lists(g) => owner'[g] = owner[g]
    BY <1>2, ForgetKeepsOthers, Distinct DEF Accept
  <2>2. \A i \in Served : slot[i] # h
    BY <1>2 DEF SlotsAreOpen, Accept
  <2>3. \A i \in Served : slot'[i] = IF IsFirst(i, FreeSlots) THEN h ELSE slot[i]
    BY <1>2, Distinct DEF Accept
  <2>4. \A i, j \in Served : IsFirst(i, FreeSlots) /\ IsFirst(j, FreeSlots) => i = j
    BY SelectAssumption DEF IsFirst, Served
  <2>5. \A i \in Served : slot'[i] \in Handles => owner'[slot'[i]] # None
    BY <2>1, <2>2, <2>3, Distinct DEF SlotsAreOpen, Lists
  <2>6. \A i, j \in Served : slot'[i] \in Handles /\ slot'[j] = slot'[i] => j = i
    BY <2>2, <2>3, <2>4 DEF SlotsAreOpen
  <2> QED
    BY <2>1, <2>5, <2>6 DEF SlotsAreOpen
<1>3. CASE AcceptFails
  <2>1. OwnersDiffer' /\ \A g \in Handles : Lists(g) => owner'[g] = owner[g]
    BY <1>3, ForgetKeepsOthers, Distinct DEF AcceptFails
  <2>2. \A i \in Served : slot'[i] = slot[i]
    BY <1>3, Distinct DEF AcceptFails, TypeOK
  <2> QED
    BY <2>1, <2>2 DEF SlotsAreOpen, Lists
<1>4. ASSUME NEW i \in Served, Receive(i)
      PROVE  (SlotsAreOpen /\ OwnersDiffer)'
  BY <1>4 DEF Receive, SlotsAreOpen, OwnersDiffer
<1>5. ASSUME NEW i \in Served, slot[i] \in Handles, owner[slot[i]] # None, Close(slot[i]),
             slot' = [slot EXCEPT ![i] = None]
      PROVE  (SlotsAreOpen /\ OwnersDiffer)'
  <2>1. /\ OwnersDiffer'
        /\ \A g \in Handles \ {slot[i]} : owner'[g] = owner[g]
    BY <1>5, CloseKeepsOthers
  <2>2. \A j \in Served : slot'[j] = IF j = i THEN None ELSE slot[j]
    BY <1>5, Distinct DEF TypeOK
  <2> QED
    BY <2>1, <2>2, Distinct DEF SlotsAreOpen
<1>6. ASSUME NEW i \in Served, Disconnect(i)
      PROVE  (SlotsAreOpen /\ OwnersDiffer)'
  BY <1>5, <1>6 DEF Disconnect
<1>7. ASSUME NEW i \in Served, Drop(i)
      PROVE  (SlotsAreOpen /\ OwnersDiffer)'
  <2>1. CASE slot[i] \in Handles /\ owner[slot[i]] # None
    BY <1>5, <1>7, <2>1 DEF Drop
  <2>2. CASE ~(slot[i] \in Handles /\ owner[slot[i]] # None)
    <3>1. \A j \in Served : slot'[j] = IF j = i THEN None ELSE slot[j]
      BY <1>7, Distinct DEF Drop, TypeOK
    <3> QED
      BY <1>7, <2>2, <3>1, Distinct DEF Drop, SlotsAreOpen, OwnersDiffer
  <2> QED
    BY <2>1, <2>2
<1>8. ASSUME NEW c \in Clients, Connect(c) \/ Write(c) \/ Leave(c)
      PROVE  (SlotsAreOpen /\ OwnersDiffer)'
  BY <1>8 DEF Connect, Write, Leave, server, SlotsAreOpen, OwnersDiffer, TypeOK
<1>9. CASE UNCHANGED vars
  BY <1>9 DEF vars, SlotsAreOpen, OwnersDiffer
<1> QED
  BY <1>1, <1>2, <1>3, <1>4, <1>6, <1>7, <1>8, <1>9 DEF Next, Serve

-----------------------------------------------------------------------------
(***************************************************************************)
(* What select() has found readable stays so until the server reads it.    *)
(***************************************************************************)
\* After a select() without error, only sockets that speak are in readfds.
LEMMA SelectStep ==
  ASSUME IInv, Select
  PROVE  (ReadableSpeaks /\ BlocksOnlyAfterError)'
<1>1. CASE \A h \in Asked : IsOpen(h)
  <2>1. readfds' = {h \in Asked : Ready(h)}
    BY <1>1 DEF Select
  <2>2. \A h \in readfds' : h # Listener => h \in Handles /\ owner[h] # None /\ Speaks(h)'
    BY <2>1 DEF Select, Ready, Speaks
  <2>3. \A i \in Served : slot'[i] # Listener
    BY Distinct DEF IInv, TypeOK, Select
  <2> QED
    BY <2>2, <2>3 DEF Select, ReadableSpeaks, BlocksOnlyAfterError, ToRead
<1>2. CASE ~(\A h \in Asked : IsOpen(h))
  BY <1>2 DEF Select, ReadableSpeaks, BlocksOnlyAfterError
<1> QED
  BY <1>1, <1>2

\* The socket that accept() returns was not open, so that it is not in readfds
\* unless select() failed.
LEMMA AcceptStep ==
  ASSUME IInv, NEW c \in Clients, NEW h \in Handles, Accept(c, h)
  PROVE  (ReadableSpeaks /\ BlocksOnlyAfterError)'
<1> SUFFICES ASSUME activity = "ok", NEW i \in Served, slot'[i] \in readfds
             PROVE  slot'[i] \in Handles /\ Speaks(slot[i])'
  BY DEF Accept, ReadableSpeaks, BlocksOnlyAfterError, ToRead
<1>1. \A g \in readfds : g = Listener \/ (g \in Handles /\ owner[g] # None /\ Speaks(g))
  BY DEF IInv, ReadableSpeaks, Accept
<1>2. h \notin readfds
  BY <1>1, Distinct DEF Accept
<1>3. slot'[i] = slot[i] /\ slot[i] # h
  BY <1>2, Distinct DEF Accept
<1>4. slot[i] # Listener
  BY Distinct DEF IInv, TypeOK
<1>5. slot[i] \in Handles /\ owner[slot[i]] # None /\ Speaks(slot[i]) /\ Lists(slot[i])
  BY <1>1, <1>3, <1>4 DEF Lists
<1>6. \A g \in Handles : g # h /\ Lists(g) /\ owner[g] # None /\ Speaks(g) => Speaks(g)'
  BY ForgetKeepsOthers, Distinct DEF IInv, Accept
<1> QED
  BY <1>3, <1>5, <1>6 DEF Speaks

\* Serving one slot leaves the sockets in the others as readable as they were.
LEMMA ServeStep ==
  ASSUME IInv, NEW i \in Served, Serve(i)
  PROVE  (ReadableSpeaks /\ BlocksOnlyAfterError)'
<1>1. pc = "read" /\ pc' = pc /\ activity' = activity /\ readfds' = readfds /\ at' = i + 1
      /\ IsFirst(i, ToRead)
  BY DEF Serve, Receive, Disconnect, Drop, Reads
<1>2. \A j \in Served : j # i => slot'[j] = slot[j]
  <2>1. slot' = slot \/ slot' = [slot EXCEPT ![i] = None]
    BY DEF Serve, Receive, Disconnect, Drop
  <2> QED
    BY <2>1, Distinct DEF IInv, TypeOK
<1> SUFFICES ASSUME activity = "ok", NEW j \in Served, j >= i + 1, slot'[j] \in readfds
             PROVE  slot'[j] \in Handles /\ Speaks(slot[j])'
  BY <1>1 DEF ReadableSpeaks, BlocksOnlyAfterError, ToRead
<1>3. i \in Int /\ j \in Int /\ at \in Int /\ i >= at /\ slot[i] \in readfds
  BY <1>1, SelectAssumption DEF IsFirst, ToRead, Served, IInv, TypeOK
<1>4. j # i /\ j >= at
  BY <1>3
<1>5. slot'[j] = slot[j]
  BY <1>2, <1>4
<1>6. slot[i] \in Handles /\ slot[j] \in Handles /\ Speaks(slot[j])
  BY <1>1, <1>3, <1>4, <1>5 DEF IInv, BlocksOnlyAfterError, ToRead
<1>7. slot[i] # slot[j] /\ owner[slot[i]] # None /\ owner[slot[j]] # None
  BY <1>4, <1>6 DEF IInv, SlotsAreOpen
<1>8. CASE Receive(i)
  <2>1. owner[slot[i]] # owner[slot[j]]
    BY <1>6, <1>7 DEF IInv, OwnersDiffer
  <2> QED
    BY <1>5, <1>6, <1>7, <1>8, <2>1 DEF Receive, Speaks, IInv, TypeOK
<1>9. CASE Close(slot[i])
  BY <1>5, <1>6, <1>7, <1>9, CloseKeepsOthers DEF IInv, Speaks
<1>10. Receive(i) \/ Close(slot[i])
  BY <1>6, <1>7 DEF Serve, Disconnect, Drop
<1> QED
  BY <1>5, <1>6, <1>8, <1>9, <1>10

\* Nor do the clients change what is readable: what they write or leaving
\* can only add to it.
LEMMA ClientStep ==
  ASSUME IInv, NEW c \in Clients, Connect(c) \/ Write(c) \/ Leave(c)
  PROVE  (ReadableSpeaks /\ BlocksOnlyAfterError)'
<1>1. UNCHANGED <<slot, readfds, activity, pc, at, owner>>
  BY DEF Connect, Write, Leave, server
<1>2. \A g \in Handles : owner[g] # None /\ Speaks(g) => Speaks(g)'
  <2> SUFFICES ASSUME NEW g \in Handles, owner[g] # None, Speaks(g)
               PROVE  Speaks(g)'
    OBVIOUS
  <2>1. owner[g] \in Clients /\ peer[owner[g]] \in {"open", "gone"} /\ unread[owner[g]] \in 0..MaxMessages
    BY DEF IInv, TypeOK, OwnersDiffer
  <2>2. unread'[owner[g]] >= unread[owner[g]]
    BY <2>1, SelectAssumption DEF IInv, TypeOK, Connect, Write, Leave
  <2>3. peer[owner[g]] = "gone" => peer'[owner[g]] = "gone"
    BY <2>1 DEF IInv, TypeOK, Connect, Write, Leave
  <2>4. unread'[owner[g]] \in Int
    BY <2>1, SelectAssumption DEF IInv, TypeOK, Connect, Write, Leave
  <2> QED
    BY <1>1, <2>1, <2>2, <2>3, <2>4, SelectAssumption DEF Speaks
<1>3. ReadableSpeaks'
  BY <1>1, <1>2 DEF IInv, ReadableSpeaks
<1>4. ASSUME pc = "read", activity = "ok", NEW i \in ToRead
      PROVE  slot[i] \in Handles /\ Speaks(slot[i])'
  <2>1. slot[i] \in Handles /\ Speaks(slot[i]) /\ owner[slot[i]] # None
    BY <1>4 DEF IInv, BlocksOnlyAfterError, SlotsAreOpen, ToRead
  <2> QED
    BY <1>1, <1>2, <2>1 DEF Speaks
<1> QED
  BY <1>1, <1>3, <1>4 DEF BlocksOnlyAfterError, ToRead, Speaks

-----------------------------------------------------------------------------
(***************************************************************************)
(* The theorems.                                                           *)
(***************************************************************************)
\* The invariant holds of the array as it is found, garbage included.
LEMMA InitIInv == Init => IInv
<1> SUFFICES ASSUME Init PROVE IInv
  OBVIOUS
<1>1. TypeOK
  BY SelectAssumption DEF Init, TypeOK
<1>2. \A i \in Served : slot[i] \notin Handles
  BY Distinct DEF Init
<1> QED
  BY <1>1, <1>2 DEF Init, IInv, SlotsAreOpen, OwnersDiffer, BlocksOnlyAfterError, ReadableSpeaks, ToRead

\* Every step keeps the invariant.
LEMMA NextIInv == IInv /\ [Next]_vars => IInv'
<1> SUFFICES ASSUME IInv, [Next]_vars PROVE IInv'
  OBVIOUS
<1>1. TypeOK' /\ SlotsAreOpen' /\ OwnersDiffer'
  BY TypeStep, OpenStep DEF IInv
<1>2. (ReadableSpeaks /\ BlocksOnlyAfterError)'
  <2>1. CASE AcceptFails \/ EndTurn
    BY <2>1 DEF AcceptFails, EndTurn, ReadableSpeaks, BlocksOnlyAfterError
  <2>2. CASE UNCHANGED vars
    BY <2>2 DEF vars, IInv, ReadableSpeaks, BlocksOnlyAfterError, ToRead, Speaks
  <2> QED
    BY <2>1, <2>2, SelectStep, AcceptStep, ServeStep, ClientStep DEF Next
<1> QED
  BY <1>1, <1>2 DEF IInv

THEOREM Invariance == Spec => []IInv
BY InitIInv, NextIInv, PTL DEF Spec

\* Every variable keeps its type: no slot outside client_sockets is written
\* or read, and a turn's loop stays within it (lines 76-110).
THEOREM TypeCorrect == Spec => []TypeOK
BY Invariance, PTL DEF IInv

\* However often numbers are used again and whatever the array held at the
\* start, a slot clients are served from never holds a closed socket, and no
\* socket is in two of them (lines 76-101).
THEOREM ServedSlotsAreOpen == Spec => []SlotsAreOpen
BY Invariance, PTL DEF IInv

\* recv() never makes the server wait on a turn whose select() succeeded
\* (lines 62-89).
THEOREM WaitsOnlyAfterError == Spec => []BlocksOnlyAfterError
BY Invariance, PTL DEF IInv

=============================================================================
