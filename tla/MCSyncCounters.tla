--------------------------- MODULE MCSyncCounters ---------------------------
(***************************************************************************)
(* SyncCounters with the three phases of synchronized_all_thread.cpp.  The *)
(* two of synchronized_thread.cpp are the first two of them.               *)
(***************************************************************************)
EXTENDS SyncCounters

AllPhases == <<"mutex", "cs", "semaphore">>
=============================================================================
