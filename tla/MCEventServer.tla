--------------------------- MODULE MCEventServer ---------------------------
(* Three connections over two handles, so that a handle is used again, and *)
(* room for two client entries, so that stale ones use it up. For TLC.     *)
EXTENDS EventServer

CONSTANTS c1, c2, c3, h1, h2
MCConns == {c1, c2, c3}
MCHandles == {h1, h2}
=============================================================================
