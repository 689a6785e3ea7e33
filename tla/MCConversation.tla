--------------------------- MODULE MCConversation ---------------------------
(* The pairs the runs look at, for TLC. *)
EXTENDS ProgramTurns

AllPairs == DOMAIN Programs
AuthOnly == {"auth"}
CrcOnly == {"crc"}
PipeOnly == {"pipe"}
=============================================================================
