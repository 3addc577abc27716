--------------------------- MODULE MCPauseHistory ---------------------------
(* PauseHistory with the constant values of MCSafetyTask. *)
EXTENDS PauseHistory, MCSafetyTask
=============================================================================
