----------------------------- MODULE MCHostPortal -----------------------------
(***************************************************************************)
(* HostPortal for TLC: two requests overlap in every way, one process is   *)
(* started again and again, and the settings are saved without a bound:    *)
(* two managed configurations give a drift, one external a change of mode. *)
(* The run of the safety properties serves every request and takes threads *)
(* and managed configurations for interchangeable; the run of the liveness *)
(* property serves the requests that change what has to settle.            *)
(***************************************************************************)
EXTENDS HostPortal, TLC

Symmetry == Permutations(Threads) \cup Permutations(ReadyConfigs)
=============================================================================
