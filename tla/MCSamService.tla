---------------------------- MODULE MCSamService ----------------------------
(***************************************************************************)
(* SamService for TLC: three callers, so that one can wait with a stale    *)
(* status while two others stop, restart or sync the service.  Callers and *)
(* weights are interchangeable, and every property of the run is a state   *)
(* predicate, so symmetry is sound.                                        *)
(***************************************************************************)
EXTENDS SamService, TLC

Symmetry == Permutations(Threads) \cup Permutations(Weights)
=============================================================================
