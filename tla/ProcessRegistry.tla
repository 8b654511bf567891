--------------------------- MODULE ProcessRegistry ---------------------------
(***************************************************************************)
(* What ProcessManager promises its callers, without its lock, its threads *)
(* or its waits: a registry of at most one process per name, in which a    *)
(* name is given away only when the process it stood for is gone.          *)
(* ProcessManager implements it (ProcessManager!Registry); ServiceManager  *)
(* is written against it.                                                  *)
(***************************************************************************)
CONSTANTS
    Names,      \* the names processes are tracked by (service ids)
    Procs,      \* operating-system processes, each used once
    NoProc      \* no process, not one of Procs

VARIABLES
    registry,   \* [Names -> Procs \cup {NoProc}]: the tracked process
    live        \* the tracked processes that are alive

regVars == <<registry, live>>

RegistryInit ==
    /\ registry = [n \in Names |-> NoProc]
    /\ live = {}

\* A new process takes a name that is free, or whose process is dead.  It may
\* itself be dead by then.
Register(n, p) ==
    /\ registry[n] \notin live
    /\ p \notin live
    /\ \A m \in Names : registry[m] # p
    /\ registry' = [registry EXCEPT ![n] = p]
    /\ live' \in {live, live \cup {p}}

\* The record of a dead process is dropped.
Forget(n) ==
    /\ registry[n] # NoProc
    /\ registry[n] \notin live
    /\ registry' = [registry EXCEPT ![n] = NoProc]
    /\ UNCHANGED live

\* A process ends: by itself, or because it was signalled.
Exit(p) ==
    /\ p \in live
    /\ live' = live \ {p}
    /\ UNCHANGED registry

RegistryNext ==
    \/ \E n \in Names : Forget(n) \/ \E p \in Procs : Register(n, p)
    \/ \E p \in Procs : Exit(p)

RegistrySpec == RegistryInit /\ [][RegistryNext]_regVars
=============================================================================
