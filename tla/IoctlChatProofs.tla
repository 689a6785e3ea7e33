--------------------------- MODULE IoctlChatProofs ---------------------------
(***************************************************************************)
(* Proofs about IoctlChat for any connections, handles and messages.       *)
(***************************************************************************)
EXTENDS IoctlChat, TLAPS

LEMMA InitRegistryInv == Init => RegistryInv
<1> USE MessagesAssumption, NoneAssumption, MainAssumption DEF Init, NoThread, Accepting
<1>1. Init => ServerTypeOK BY DEF ServerTypeOK, Serving
<1>2. Init => SystemTypeOK BY DEF SystemTypeOK
<1>3. Init => RegisteredIsServed /\ NoHandleLeak /\ AddressedRight
  BY DEF RegisteredIsServed, Starting, NoHandleLeak, AddressedRight
<1>4. Init => ServedIsRegistered /\ WalkIsSound /\ LockHeld /\ Accepted
  BY DEF ServedIsRegistered, WalkIsSound, LockHeld, Accepted, Serving
<1> QED BY <1>1, <1>2, <1>3, <1>4 DEF RegistryInv, TypeOK

HandlerState == [pc : {"none", "done"} \cup Serving, sock : Handles \cup {None},
                 msg : 0..MaxMessages, todo : SUBSET Handles]

LEMMA ServerTypeStep == RegistryInv /\ [Next]_vars => ServerTypeOK'
<1> SUFFICES ASSUME ServerTypeOK, SystemTypeOK, Accepted, [Next]_vars PROVE ServerTypeOK'
  BY DEF RegistryInv, TypeOK
<1> USE MessagesAssumption, NoneAssumption, MainAssumption
    DEF ServerTypeOK, SystemTypeOK, Serving, Accepted
<1>1. ASSUME NEW c \in Conns, NEW h \in Handles, Accept(c, h) PROVE ServerTypeOK'
  BY <1>1 DEF Accept
<1>2. ASSUME Register PROVE ServerTypeOK'
  BY <1>2 DEF Register
<1>3. ASSUME StartThread PROVE ServerTypeOK'
  BY <1>3 DEF StartThread
<1>4. ASSUME UnlockMain PROVE ServerTypeOK'
  BY <1>4 DEF UnlockMain, Accepting
<1>5. ASSUME Stop PROVE ServerTypeOK'
  BY <1>5 DEF Stop
<1>6. ASSUME NEW c \in Conns, Recv(c) PROVE ServerTypeOK'
  <2>1. sentBy[c] + 1 \in 0..MaxMessages /\ handler[c] \in HandlerState
    BY <1>6 DEF Recv, HandlerState
  <2>2. [handler[c] EXCEPT !.pc = "lock", !.msg = sentBy[c] + 1] \in HandlerState
    BY <2>1 DEF HandlerState
  <2>3. handler' = [handler EXCEPT ![c] = [handler[c] EXCEPT !.pc = "lock", !.msg = sentBy[c] + 1]]
    BY <1>6 DEF Recv
  <2>4. handler' \in [Conns -> HandlerState]
    BY <2>2, <2>3 DEF HandlerState
  <2> QED BY <1>6, <2>4 DEF Recv, HandlerState
<1>7. ASSUME NEW c \in Conns, LockToSend(c) PROVE ServerTypeOK'
  <2>1. handler[c] \in HandlerState BY DEF HandlerState
  <2>2. [handler[c] EXCEPT !.pc = "send", !.todo = clients] \in HandlerState
    BY <2>1 DEF HandlerState
  <2>3. handler' = [handler EXCEPT ![c] = [handler[c] EXCEPT !.pc = "send", !.todo = clients]]
    BY <1>7 DEF LockToSend
  <2>4. handler' \in [Conns -> HandlerState]
    BY <2>2, <2>3 DEF HandlerState
  <2> QED BY <1>7, <2>4 DEF LockToSend, HandlerState
<1>8. ASSUME NEW c \in Conns, NEW h \in Handles, SendOne(c, h) PROVE ServerTypeOK'
  BY <1>8 DEF SendOne, At
<1>9. ASSUME NEW c \in Conns, Unlock(c) PROVE ServerTypeOK'
  <2>1. 0 \in 0..MaxMessages /\ handler[c] \in HandlerState
    BY DEF HandlerState
  <2>2. [handler[c] EXCEPT !.pc = "recv", !.msg = 0] \in HandlerState
    BY <2>1 DEF HandlerState
  <2>3. handler' = [handler EXCEPT ![c] = [handler[c] EXCEPT !.pc = "recv", !.msg = 0]]
    BY <1>9 DEF Unlock
  <2>4. handler' \in [Conns -> HandlerState]
    BY <2>2, <2>3 DEF HandlerState
  <2> QED BY <1>9, <2>4 DEF Unlock, HandlerState
<1>10. ASSUME NEW c \in Conns, Leave(c) PROVE ServerTypeOK'
  BY <1>10 DEF Leave, At
<1>11. ASSUME NEW c \in Conns, Hangup(c) PROVE ServerTypeOK'
  BY <1>11 DEF Hangup
<1>12. ASSUME UNCHANGED vars PROVE ServerTypeOK'
  BY <1>12 DEF vars
<1> QED
  BY <1>1, <1>2, <1>3, <1>4, <1>5, <1>6, <1>7, <1>8, <1>9, <1>10, <1>11, <1>12
  DEF Next, Handler, Sending

LEMMA SystemTypeStep == RegistryInv /\ [Next]_vars => SystemTypeOK'
<1> SUFFICES ASSUME ServerTypeOK, SystemTypeOK, ServedIsRegistered, [Next]_vars PROVE SystemTypeOK'
  BY DEF RegistryInv, TypeOK
<1> USE MessagesAssumption, NoneAssumption, MainAssumption
    DEF ServerTypeOK, SystemTypeOK, ServedIsRegistered, Serving
<1>1. ASSUME NEW c \in Conns, NEW h \in Handles, Accept(c, h) PROVE SystemTypeOK'
  BY <1>1 DEF Accept
<1>2. ASSUME Register PROVE SystemTypeOK'
  BY <1>2 DEF Register
<1>3. ASSUME StartThread PROVE SystemTypeOK'
  BY <1>3 DEF StartThread
<1>4. ASSUME UnlockMain PROVE SystemTypeOK'
  BY <1>4 DEF UnlockMain, Accepting
<1>5. ASSUME Stop PROVE SystemTypeOK'
  BY <1>5 DEF Stop
<1>6. ASSUME NEW c \in Conns, Recv(c) PROVE SystemTypeOK'
  BY <1>6 DEF Recv, At
<1>7. ASSUME NEW c \in Conns, LockToSend(c) PROVE SystemTypeOK'
  BY <1>7 DEF LockToSend, At
<1>8. ASSUME NEW c \in Conns, NEW h \in Handles, SendOne(c, h) PROVE SystemTypeOK'
  BY <1>8 DEF SendOne, At
<1>9. ASSUME NEW c \in Conns, Unlock(c) PROVE SystemTypeOK'
  BY <1>9 DEF Unlock, At
<1>10. ASSUME NEW c \in Conns, Leave(c) PROVE SystemTypeOK'
  BY <1>10 DEF Leave, At
<1>11. ASSUME NEW c \in Conns, Hangup(c) PROVE SystemTypeOK'
  BY <1>11 DEF Hangup
<1>12. ASSUME UNCHANGED vars PROVE SystemTypeOK'
  BY <1>12 DEF vars
<1> QED
  BY <1>1, <1>2, <1>3, <1>4, <1>5, <1>6, <1>7, <1>8, <1>9, <1>10, <1>11, <1>12
  DEF Next, Handler, Sending

LEMMA RegisteredIsServedStep == RegistryInv /\ [Next]_vars => RegisteredIsServed'
<1> SUFFICES ASSUME ServerTypeOK, SystemTypeOK, RegisteredIsServed, ServedIsRegistered,
                    Accepted, [Next]_vars
             PROVE  RegisteredIsServed'
  BY DEF RegistryInv, TypeOK
<1> USE MessagesAssumption, NoneAssumption, MainAssumption
    DEF ServerTypeOK, SystemTypeOK, RegisteredIsServed, Starting, ServedIsRegistered, Serving, Accepted
<1>1. ASSUME NEW c \in Conns, NEW h \in Handles, Accept(c, h) PROVE RegisteredIsServed'
  BY <1>1 DEF Accept
<1>2. ASSUME Register PROVE RegisteredIsServed'
  BY <1>2 DEF Register
<1>3. ASSUME StartThread PROVE RegisteredIsServed'
  BY <1>3 DEF StartThread
<1>4. ASSUME UnlockMain PROVE RegisteredIsServed'
  BY <1>4 DEF UnlockMain, Accepting
<1>5. ASSUME Stop PROVE RegisteredIsServed'
  BY <1>5 DEF Stop
<1>6. ASSUME NEW c \in Conns, Recv(c) PROVE RegisteredIsServed'
  BY <1>6 DEF Recv, At
<1>7. ASSUME NEW c \in Conns, LockToSend(c) PROVE RegisteredIsServed'
  BY <1>7 DEF LockToSend, At
<1>8. ASSUME NEW c \in Conns, NEW h \in Handles, SendOne(c, h) PROVE RegisteredIsServed'
  BY <1>8 DEF SendOne, At
<1>9. ASSUME NEW c \in Conns, Unlock(c) PROVE RegisteredIsServed'
  BY <1>9 DEF Unlock, At
<1>10. ASSUME NEW c \in Conns, Leave(c) PROVE RegisteredIsServed'
  BY <1>10 DEF Leave, At
<1>11. ASSUME NEW c \in Conns, Hangup(c) PROVE RegisteredIsServed'
  BY <1>11 DEF Hangup
<1>12. ASSUME UNCHANGED vars PROVE RegisteredIsServed'
  BY <1>12 DEF vars
<1> QED
  BY <1>1, <1>2, <1>3, <1>4, <1>5, <1>6, <1>7, <1>8, <1>9, <1>10, <1>11, <1>12
  DEF Next, Handler, Sending

LEMMA ServedIsRegisteredStep == RegistryInv /\ [Next]_vars => ServedIsRegistered'
<1> SUFFICES ASSUME ServerTypeOK, SystemTypeOK, RegisteredIsServed, ServedIsRegistered,
                    Accepted, [Next]_vars
             PROVE  ServedIsRegistered'
  BY DEF RegistryInv, TypeOK
<1> USE MessagesAssumption, NoneAssumption, MainAssumption
    DEF ServerTypeOK, SystemTypeOK, RegisteredIsServed, ServedIsRegistered, Serving, Accepted
<1>1. ASSUME NEW c \in Conns, NEW h \in Handles, Accept(c, h) PROVE ServedIsRegistered'
  BY <1>1 DEF Accept
<1>2. ASSUME Register PROVE ServedIsRegistered'
  BY <1>2 DEF Register
<1>3. ASSUME StartThread PROVE ServedIsRegistered'
  BY <1>3 DEF StartThread
<1>4. ASSUME UnlockMain PROVE ServedIsRegistered'
  BY <1>4 DEF UnlockMain, Accepting
<1>5. ASSUME Stop PROVE ServedIsRegistered'
  BY <1>5 DEF Stop
<1>6. ASSUME NEW c \in Conns, Recv(c) PROVE ServedIsRegistered'
  BY <1>6 DEF Recv, At
<1>7. ASSUME NEW c \in Conns, LockToSend(c) PROVE ServedIsRegistered'
  BY <1>7 DEF LockToSend, At
<1>8. ASSUME NEW c \in Conns, NEW h \in Handles, SendOne(c, h) PROVE ServedIsRegistered'
  BY <1>8 DEF SendOne, At
<1>9. ASSUME NEW c \in Conns, Unlock(c) PROVE ServedIsRegistered'
  BY <1>9 DEF Unlock, At
<1>10. ASSUME NEW c \in Conns, Leave(c) PROVE ServedIsRegistered'
  BY <1>10 DEF Leave, At
<1>11. ASSUME NEW c \in Conns, Hangup(c) PROVE ServedIsRegistered'
  BY <1>11 DEF Hangup
<1>12. ASSUME UNCHANGED vars PROVE ServedIsRegistered'
  BY <1>12 DEF vars
<1> QED
  BY <1>1, <1>2, <1>3, <1>4, <1>5, <1>6, <1>7, <1>8, <1>9, <1>10, <1>11, <1>12
  DEF Next, Handler, Sending

LEMMA NoHandleLeakStep == RegistryInv /\ [Next]_vars => NoHandleLeak'
<1> SUFFICES ASSUME ServerTypeOK, SystemTypeOK, NoHandleLeak, ServedIsRegistered, [Next]_vars PROVE NoHandleLeak'
  BY DEF RegistryInv, TypeOK
<1> USE MessagesAssumption, NoneAssumption, MainAssumption
    DEF ServerTypeOK, SystemTypeOK, NoHandleLeak, ServedIsRegistered, Serving
<1>1. ASSUME NEW c \in Conns, NEW h \in Handles, Accept(c, h) PROVE NoHandleLeak'
  BY <1>1 DEF Accept
<1>2. ASSUME Register PROVE NoHandleLeak'
  BY <1>2 DEF Register
<1>3. ASSUME StartThread PROVE NoHandleLeak'
  BY <1>3 DEF StartThread
<1>4. ASSUME UnlockMain PROVE NoHandleLeak'
  BY <1>4 DEF UnlockMain, Accepting
<1>5. ASSUME Stop PROVE NoHandleLeak'
  BY <1>5 DEF Stop
<1>6. ASSUME NEW c \in Conns, Recv(c) PROVE NoHandleLeak'
  BY <1>6 DEF Recv, At
<1>7. ASSUME NEW c \in Conns, LockToSend(c) PROVE NoHandleLeak'
  BY <1>7 DEF LockToSend, At
<1>8. ASSUME NEW c \in Conns, NEW h \in Handles, SendOne(c, h) PROVE NoHandleLeak'
  BY <1>8 DEF SendOne, At
<1>9. ASSUME NEW c \in Conns, Unlock(c) PROVE NoHandleLeak'
  BY <1>9 DEF Unlock, At
<1>10. ASSUME NEW c \in Conns, Leave(c) PROVE NoHandleLeak'
  BY <1>10 DEF Leave, At
<1>11. ASSUME NEW c \in Conns, Hangup(c) PROVE NoHandleLeak'
  BY <1>11 DEF Hangup
<1>12. ASSUME UNCHANGED vars PROVE NoHandleLeak'
  BY <1>12 DEF vars
<1> QED
  BY <1>1, <1>2, <1>3, <1>4, <1>5, <1>6, <1>7, <1>8, <1>9, <1>10, <1>11, <1>12
  DEF Next, Handler, Sending

LEMMA AddressedRightStep == RegistryInv /\ [Next]_vars => AddressedRight'
<1> SUFFICES ASSUME ServerTypeOK, SystemTypeOK, AddressedRight, RegisteredIsServed,
                    ServedIsRegistered, WalkIsSound, Accepted, [Next]_vars
             PROVE  AddressedRight'
  BY DEF RegistryInv, TypeOK
<1> USE MessagesAssumption, NoneAssumption, MainAssumption
    DEF ServerTypeOK, SystemTypeOK, AddressedRight, RegisteredIsServed, ServedIsRegistered,
        WalkIsSound, Serving
<1>1. ASSUME NEW c \in Conns, NEW h \in Handles, Accept(c, h) PROVE AddressedRight'
  BY <1>1 DEF Accept
<1>2. ASSUME Register PROVE AddressedRight'
  BY <1>2 DEF Register
<1>3. ASSUME StartThread PROVE AddressedRight'
  BY <1>3 DEF StartThread
<1>4. ASSUME UnlockMain PROVE AddressedRight'
  BY <1>4 DEF UnlockMain, Accepting
<1>5. ASSUME Stop PROVE AddressedRight'
  BY <1>5 DEF Stop
<1>6. ASSUME NEW c \in Conns, Recv(c) PROVE AddressedRight'
  BY <1>6 DEF Recv, At
<1>7. ASSUME NEW c \in Conns, LockToSend(c) PROVE AddressedRight'
  BY <1>7 DEF LockToSend, At
<1>8. ASSUME NEW c \in Conns, NEW h \in Handles, SendOne(c, h) PROVE AddressedRight'
  <2>1. main.pc # "exit" /\ handler[c].pc = "send" /\ h \in clients
    BY <1>8 DEF SendOne, At
  <2>2. ~Starting(c, h)
    BY <2>1 DEF Starting, Accepted
  <2>3. h # handler[c].sock => open[h] \in Conns \ {c}
    BY <2>1, <2>2
  <2> QED
    BY <1>8, <2>3 DEF SendOne
<1>9. ASSUME NEW c \in Conns, Unlock(c) PROVE AddressedRight'
  BY <1>9 DEF Unlock, At
<1>10. ASSUME NEW c \in Conns, Leave(c) PROVE AddressedRight'
  BY <1>10 DEF Leave, At
<1>11. ASSUME NEW c \in Conns, Hangup(c) PROVE AddressedRight'
  BY <1>11 DEF Hangup
<1>12. ASSUME UNCHANGED vars PROVE AddressedRight'
  BY <1>12 DEF vars
<1> QED
  BY <1>1, <1>2, <1>3, <1>4, <1>5, <1>6, <1>7, <1>8, <1>9, <1>10, <1>11, <1>12
  DEF Next, Handler, Sending

LEMMA WalkIsSoundStep == RegistryInv /\ [Next]_vars => WalkIsSound'
<1> SUFFICES ASSUME ServerTypeOK, SystemTypeOK, WalkIsSound, LockHeld, [Next]_vars PROVE WalkIsSound'
  BY DEF RegistryInv, TypeOK
<1> USE MessagesAssumption, NoneAssumption, MainAssumption
    DEF ServerTypeOK, SystemTypeOK, WalkIsSound, LockHeld
<1>1. ASSUME NEW c \in Conns, NEW h \in Handles, Accept(c, h) PROVE WalkIsSound'
  BY <1>1 DEF Accept
<1>2. ASSUME Register PROVE WalkIsSound'
  BY <1>2 DEF Register
<1>3. ASSUME StartThread PROVE WalkIsSound'
  BY <1>3 DEF StartThread
<1>4. ASSUME UnlockMain PROVE WalkIsSound'
  BY <1>4 DEF UnlockMain, Accepting
<1>5. ASSUME Stop PROVE WalkIsSound'
  BY <1>5 DEF Stop
<1>6. ASSUME NEW c \in Conns, Recv(c) PROVE WalkIsSound'
  BY <1>6 DEF Recv, At
<1>7. ASSUME NEW c \in Conns, LockToSend(c) PROVE WalkIsSound'
  BY <1>7 DEF LockToSend, At
<1>8. ASSUME NEW c \in Conns, NEW h \in Handles, SendOne(c, h) PROVE WalkIsSound'
  BY <1>8 DEF SendOne, At
<1>9. ASSUME NEW c \in Conns, Unlock(c) PROVE WalkIsSound'
  BY <1>9 DEF Unlock, At
<1>10. ASSUME NEW c \in Conns, Leave(c) PROVE WalkIsSound'
  BY <1>10 DEF Leave, At
<1>11. ASSUME NEW c \in Conns, Hangup(c) PROVE WalkIsSound'
  BY <1>11 DEF Hangup
<1>12. ASSUME UNCHANGED vars PROVE WalkIsSound'
  BY <1>12 DEF vars
<1> QED
  BY <1>1, <1>2, <1>3, <1>4, <1>5, <1>6, <1>7, <1>8, <1>9, <1>10, <1>11, <1>12
  DEF Next, Handler, Sending

LEMMA LockHeldStep == RegistryInv /\ [Next]_vars => LockHeld'
<1> SUFFICES ASSUME ServerTypeOK, SystemTypeOK, LockHeld, Accepted, [Next]_vars PROVE LockHeld'
  BY DEF RegistryInv, TypeOK
<1> USE MessagesAssumption, NoneAssumption, MainAssumption
    DEF ServerTypeOK, SystemTypeOK, LockHeld, Accepted
<1>1. ASSUME NEW c \in Conns, NEW h \in Handles, Accept(c, h) PROVE LockHeld'
  BY <1>1 DEF Accept
<1>2. ASSUME Register PROVE LockHeld'
  BY <1>2 DEF Register
<1>3. ASSUME StartThread PROVE LockHeld'
  BY <1>3 DEF StartThread
<1>4. ASSUME UnlockMain PROVE LockHeld'
  BY <1>4 DEF UnlockMain, Accepting
<1>5. ASSUME Stop PROVE LockHeld'
  BY <1>5 DEF Stop
<1>6. ASSUME NEW c \in Conns, Recv(c) PROVE LockHeld'
  BY <1>6 DEF Recv, At
<1>7. ASSUME NEW c \in Conns, LockToSend(c) PROVE LockHeld'
  BY <1>7 DEF LockToSend, At
<1>8. ASSUME NEW c \in Conns, NEW h \in Handles, SendOne(c, h) PROVE LockHeld'
  BY <1>8 DEF SendOne, At
<1>9. ASSUME NEW c \in Conns, Unlock(c) PROVE LockHeld'
  BY <1>9 DEF Unlock, At
<1>10. ASSUME NEW c \in Conns, Leave(c) PROVE LockHeld'
  BY <1>10 DEF Leave, At
<1>11. ASSUME NEW c \in Conns, Hangup(c) PROVE LockHeld'
  BY <1>11 DEF Hangup
<1>12. ASSUME UNCHANGED vars PROVE LockHeld'
  BY <1>12 DEF vars
<1> QED
  BY <1>1, <1>2, <1>3, <1>4, <1>5, <1>6, <1>7, <1>8, <1>9, <1>10, <1>11, <1>12
  DEF Next, Handler, Sending

LEMMA AcceptedStep == RegistryInv /\ [Next]_vars => Accepted'
<1> SUFFICES ASSUME ServerTypeOK, SystemTypeOK, Accepted, RegisteredIsServed,
                    ServedIsRegistered, [Next]_vars
             PROVE  Accepted'
  BY DEF RegistryInv, TypeOK
<1> USE MessagesAssumption, NoneAssumption, MainAssumption
    DEF ServerTypeOK, SystemTypeOK, Accepted, RegisteredIsServed, ServedIsRegistered, Serving
<1>1. ASSUME NEW c \in Conns, NEW h \in Handles, Accept(c, h) PROVE Accepted'
  BY <1>1 DEF Accept
<1>2. ASSUME Register PROVE Accepted'
  BY <1>2 DEF Register
<1>3. ASSUME StartThread PROVE Accepted'
  BY <1>3 DEF StartThread
<1>4. ASSUME UnlockMain PROVE Accepted'
  BY <1>4 DEF UnlockMain, Accepting
<1>5. ASSUME Stop PROVE Accepted'
  BY <1>5 DEF Stop
<1>6. ASSUME NEW c \in Conns, Recv(c) PROVE Accepted'
  BY <1>6 DEF Recv, At
<1>7. ASSUME NEW c \in Conns, LockToSend(c) PROVE Accepted'
  BY <1>7 DEF LockToSend, At
<1>8. ASSUME NEW c \in Conns, NEW h \in Handles, SendOne(c, h) PROVE Accepted'
  BY <1>8 DEF SendOne, At
<1>9. ASSUME NEW c \in Conns, Unlock(c) PROVE Accepted'
  BY <1>9 DEF Unlock, At
<1>10. ASSUME NEW c \in Conns, Leave(c) PROVE Accepted'
  BY <1>10 DEF Leave, At
<1>11. ASSUME NEW c \in Conns, Hangup(c) PROVE Accepted'
  BY <1>11 DEF Hangup
<1>12. ASSUME UNCHANGED vars PROVE Accepted'
  BY <1>12 DEF vars
<1> QED
  BY <1>1, <1>2, <1>3, <1>4, <1>5, <1>6, <1>7, <1>8, <1>9, <1>10, <1>11, <1>12
  DEF Next, Handler, Sending

\* The registry and the handles it names agree in every state.
LEMMA SpecRegistryInv == Spec => []RegistryInv
<1>1. RegistryInv /\ [Next]_vars => RegistryInv'
  BY ServerTypeStep, SystemTypeStep, RegisteredIsServedStep, ServedIsRegisteredStep,
     NoHandleLeakStep, AddressedRightStep, WalkIsSoundStep, LockHeldStep, AcceptedStep
  DEF RegistryInv, TypeOK
<1> QED BY <1>1, InitRegistryInv, PTL DEF Spec

\* All variables keep their types.
THEOREM TypeCorrect == Spec => []TypeOK
BY SpecRegistryInv, PTL DEF RegistryInv

\* What is in the set is open and is the connection that was put there, every
\* connection served is in it, and no accepted handle is forgotten: closing
\* inside the critical section that erases (lines 50-52) makes the reuse of
\* handles harmless.
THEOREM RegistryAgrees == Spec => []RegistryExact
BY SpecRegistryInv, PTL DEF RegistryInv, RegistryExact

\* Messages go to connections that are there, and never to their sender.
THEOREM MessagesAddressed == Spec => []AddressedRight
BY SpecRegistryInv, PTL DEF RegistryInv

(***************************************************************************)
(* Passing a message on.  What is left of a walk and what it has sent make *)
(* up everybody that is served: nobody comes or goes while the lock is     *)
(* held.                                                                   *)
(***************************************************************************)
WalkCovers ==
  \A c, d \in Conns :
    (handler[c].pc = "send" /\ handler[d].pc \in Serving /\ d # c) =>
      handler[d].sock \in handler[c].todo \/ <<d, c, handler[c].msg>> \in tried

\* Two connections are never served under one handle.
LEMMA SocketsDiffer ==
  ASSUME ServedIsRegistered, NEW c \in Conns, NEW d \in Conns,
         handler[c].pc \in Serving, handler[d].pc \in Serving, handler[c].sock = handler[d].sock
  PROVE  c = d
BY DEF ServedIsRegistered

LEMMA WalkCoversStep == RegistryInv /\ WalkCovers /\ [Next]_vars => WalkCovers'
<1> SUFFICES ASSUME ServerTypeOK, ServedIsRegistered, LockHeld, WalkCovers, [Next]_vars,
                    NEW c \in Conns, NEW d \in Conns, d # c,
                    handler'[c].pc = "send", handler'[d].pc \in Serving
             PROVE  handler'[d].sock \in handler'[c].todo \/ <<d, c, handler'[c].msg>> \in tried'
  BY DEF RegistryInv, TypeOK, WalkCovers
<1> USE NoneAssumption, MainAssumption DEF ServerTypeOK, Serving, WalkCovers
<1>1. ASSUME NEW b \in Conns, NEW h \in Handles, Accept(b, h)
      PROVE  handler'[d].sock \in handler'[c].todo \/ <<d, c, handler'[c].msg>> \in tried'
  BY <1>1 DEF Accept
<1>2. ASSUME Register
      PROVE  handler'[d].sock \in handler'[c].todo \/ <<d, c, handler'[c].msg>> \in tried'
  BY <1>2 DEF Register, LockHeld
<1>3. ASSUME StartThread
      PROVE  handler'[d].sock \in handler'[c].todo \/ <<d, c, handler'[c].msg>> \in tried'
  BY <1>3 DEF StartThread, LockHeld
<1>4. ASSUME UnlockMain
      PROVE  handler'[d].sock \in handler'[c].todo \/ <<d, c, handler'[c].msg>> \in tried'
  BY <1>4 DEF UnlockMain, Accepting, LockHeld
<1>5. ASSUME Stop
      PROVE  handler'[d].sock \in handler'[c].todo \/ <<d, c, handler'[c].msg>> \in tried'
  BY <1>5 DEF Stop
<1>6. ASSUME NEW b \in Conns, Recv(b)
      PROVE  handler'[d].sock \in handler'[c].todo \/ <<d, c, handler'[c].msg>> \in tried'
  BY <1>6 DEF Recv, At
<1>7. ASSUME NEW b \in Conns, LockToSend(b)
      PROVE  handler'[d].sock \in handler'[c].todo \/ <<d, c, handler'[c].msg>> \in tried'
  <2>1. b = c
    BY <1>7 DEF LockToSend, At, LockHeld
  <2>2. handler'[c].todo = clients /\ handler'[d] = handler[d]
    BY <1>7, <2>1 DEF LockToSend
  <2> QED
    BY <2>2 DEF ServedIsRegistered
<1>8. ASSUME NEW b \in Conns, NEW h \in Handles, SendOne(b, h)
      PROVE  handler'[d].sock \in handler'[c].todo \/ <<d, c, handler'[c].msg>> \in tried'
  <2>1. handler[c].pc = "send" /\ handler[d].pc \in Serving /\ handler[b].pc = "send"
    BY <1>8 DEF SendOne, At
  <2>2. b = c
    BY <2>1 DEF LockHeld
  <2>3. /\ handler'[d] = handler[d] /\ handler'[c].msg = handler[c].msg
        /\ handler'[c].todo = handler[c].todo \ {h}
        /\ tried \subseteq tried'
    BY <1>8, <2>2 DEF SendOne
  <2>4. CASE handler[d].sock = h
    <3>1. h # handler[c].sock
      BY <2>1, <2>4, SocketsDiffer
    <3>2. open[h] = d
      BY <2>1, <2>4 DEF ServedIsRegistered
    <3>3. <<open[h], c, handler[c].msg>> \in tried'
      BY <1>8, <2>2, <3>1 DEF SendOne
    <3> QED
      BY <2>3, <3>2, <3>3
  <2> QED
    BY <2>1, <2>3, <2>4
<1>9. ASSUME NEW b \in Conns, Unlock(b)
      PROVE  handler'[d].sock \in handler'[c].todo \/ <<d, c, handler'[c].msg>> \in tried'
  <2>1. handler[c].pc = "send" /\ handler[b].pc = "send" /\ b # c
    BY <1>9 DEF Unlock, At
  <2> QED
    BY <2>1 DEF LockHeld
<1>10. ASSUME NEW b \in Conns, Leave(b)
      PROVE  handler'[d].sock \in handler'[c].todo \/ <<d, c, handler'[c].msg>> \in tried'
  BY <1>10 DEF Leave, At
<1>11. ASSUME NEW b \in Conns, Hangup(b)
      PROVE  handler'[d].sock \in handler'[c].todo \/ <<d, c, handler'[c].msg>> \in tried'
  BY <1>11 DEF Hangup
<1>12. ASSUME UNCHANGED vars
      PROVE  handler'[d].sock \in handler'[c].todo \/ <<d, c, handler'[c].msg>> \in tried'
  BY <1>12 DEF vars
<1> QED
  BY <1>1, <1>2, <1>3, <1>4, <1>5, <1>6, <1>7, <1>8, <1>9, <1>10, <1>11, <1>12
  DEF Next, Handler, Sending

LEMMA SpecWalkCovers == Spec => []WalkCovers
<1>1. Init => WalkCovers
  BY DEF Init, NoThread, WalkCovers
<1> QED
  BY <1>1, WalkCoversStep, SpecRegistryInv, PTL DEF Spec

\* Whoever is being served when a message has been passed on has been sent it
\* (lines 31-36): the walk skips nobody but the sender.
THEOREM EverybodyIsTold == Spec => BroadcastReachesAll
<1>1. WalkCovers /\ [Next]_vars =>
        [\A c \in Conns : Unlock(c) =>
           \A d \in Conns \ {c} : handler[d].pc \in Serving
                                    => <<d, c, handler[c].msg>> \in tried]_vars
  BY DEF WalkCovers, Unlock, At
<1> QED
  BY <1>1, SpecWalkCovers, PTL DEF Spec, BroadcastReachesAll
=============================================================================
