-------------------------- MODULE MCProcessManager --------------------------
(***************************************************************************)
(* ProcessManager for TLC: two callers over two names, two processes.      *)
(* Two names show that a stop of one never touches the other, two callers  *)
(* every contention for the lock, and two processes a name that is started *)
(* again after its process died, was stopped or was leaked.                *)
(***************************************************************************)
EXTENDS ProcessManager
=============================================================================
