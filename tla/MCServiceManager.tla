-------------------------- MODULE MCServiceManager --------------------------
(***************************************************************************)
(* ServiceManager for TLC: two callers contend for the lock in every way   *)
(* (a third only waits), two processes let a new one follow one that died, *)
(* two ready configurations give a drift, and one poll both answers and    *)
(* times out.                                                              *)
(***************************************************************************)
EXTENDS ServiceManager
=============================================================================
