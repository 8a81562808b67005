---------------------------- MODULE MCPauseWorker -----------------------------
(* Instances of PauseWorker for TLC. *)
EXTENDS PauseWorker
===============================================================================
