---------------------------- MODULE EchoService ----------------------------
(***************************************************************************)
(* What an echo server of this repository promises each of its             *)
(* connections: the bytes that come back are the bytes that went in, in    *)
(* the same order, none twice and none left out.  The i-th byte a client   *)
(* writes is represented by the number i, so an echoed stream is correct   *)
(* exactly when it reads 1, 2, 3, ...                                      *)
(***************************************************************************)
EXTENDS Integers, Sequences

CONSTANT Conns

VARIABLES submitted,   \* submitted[c]: how many bytes client c has written
          echoed       \* echoed[c]: the bytes handed back to client c

vars == <<submitted, echoed>>

Init == /\ submitted = [c \in Conns |-> 0]
        /\ echoed = [c \in Conns |-> <<>>]

\* A client writes some more bytes.
Submit(c) == /\ submitted'[c] > submitted[c]
             /\ submitted' = [submitted EXCEPT ![c] = submitted'[c]]
             /\ UNCHANGED echoed

\* The next k bytes of the stream come back, k any number already submitted.
Echo(c) == /\ \E k \in 1 .. submitted[c] - Len(echoed[c]) :
                echoed' = [echoed EXCEPT ![c] = @ \o [i \in 1..k |-> Len(@) + i]]
           /\ UNCHANGED submitted

Next == \E c \in Conns : Submit(c) \/ Echo(c)

Spec == Init /\ [][Next]_vars
=============================================================================
