--------------------------- MODULE ProcessManager ---------------------------
(***************************************************************************)
(* utils/model_host/process_manager.py: threads that start and stop named  *)
(* child processes under one lock.  A start spawns the child before it has *)
(* a record of it; a stop signals the child and waits for it with the lock *)
(* held; and the child may exit between any two steps.                     *)
(*                                                                         *)
(* A critical section that cannot block is one step: taking the lock is    *)
(* part of the step that follows it, releasing it of the one before.  The  *)
(* record's cached _exited flag is not a variable: a dead process stays    *)
(* dead, so the flag never disagrees with poll().                          *)
(***************************************************************************)
CONSTANTS
    Names,
    NoName,
    Procs,               \* bounds how many processes are ever spawned
    NoProc,
    Threads,
    NoThread

ASSUME PMAssumption ==
    /\ NoName \notin Names
    /\ NoProc \notin Procs
    /\ NoThread \notin Threads

VARIABLES
    processes,  \* self._processes: the record tracked under each name
    lock,       \* self._lock
    os,         \* what the operating system knows of each process
    owner,      \* the name each spawned process was spawned for
    leaked,     \* history: processes whose start failed after it spawned them
    pc,         \* where each thread is
    arg,        \* the name it was called with, while it is in a call
    force,      \* the force argument of its stop
    child,      \* the process its start has spawned
    result      \* what its last call returned or raised

threadVars == <<pc, arg, force, child, result>>
vars == <<processes, lock, os, owner, leaked, pc, arg, force, child, result>>

-----------------------------------------------------------------------------
(* Processes and threads *)

Live == {p \in Procs : os[p] \in {"running", "killed"}}

\* The live processes the manager has, or is about to have, a record of
Held == Live \ leaked

\* process.poll() is None, for the process tracked under n
Alive(n) == processes[n] \in Live

Tracked(n) == processes[n] # NoProc

\* Where a thread is inside "with self._lock"
Critical == {"spawn", "record", "signal", "wait", "reap"}

\* A call returns: its arguments and locals are gone.
Return(t, r) ==
    /\ pc' = [pc EXCEPT ![t] = "idle"]
    /\ arg' = [arg EXCEPT ![t] = NoName]
    /\ force' = [force EXCEPT ![t] = FALSE]
    /\ child' = [child EXCEPT ![t] = NoProc]
    /\ result' = [result EXCEPT ![t] = r]

Take(t) == lock = NoThread /\ lock' = t
Release(t) == lock = t /\ lock' = NoThread
\* The whole critical section is this one step.
Pass == lock = NoThread /\ UNCHANGED lock

Untrack(n) == processes' = [processes EXCEPT ![n] = NoProc]

TypeOK ==
    /\ processes \in [Names -> Procs \cup {NoProc}]
    /\ lock \in Threads \cup {NoThread}
    /\ os \in [Procs -> {"unborn", "running", "killed", "exited"}]
    /\ owner \in [Procs -> Names \cup {NoName}]
    /\ leaked \in SUBSET Procs
    /\ pc \in [Threads -> {"idle", "start", "stop"} \cup Critical]
    /\ arg \in [Threads -> Names \cup {NoName}]
    /\ force \in [Threads -> BOOLEAN]
    /\ child \in [Threads -> Procs \cup {NoProc}]
    /\ result \in [Threads -> {"none", "started", "already_running", "error",
                               "stopped", "not_stopped"}]

Init ==
    /\ processes = [n \in Names |-> NoProc]
    /\ lock = NoThread
    /\ os = [p \in Procs |-> "unborn"]
    /\ owner = [p \in Procs |-> NoName]
    /\ leaked = {}
    /\ pc = [t \in Threads |-> "idle"]
    /\ arg = [t \in Threads |-> NoName]
    /\ force = [t \in Threads |-> FALSE]
    /\ child = [t \in Threads |-> NoProc]
    /\ result = [t \in Threads |-> "none"]

-----------------------------------------------------------------------------
(* start *)

CallStart(t, n) ==
    /\ pc[t] = "idle"
    /\ pc' = [pc EXCEPT ![t] = "start"]
    /\ arg' = [arg EXCEPT ![t] = n]
    /\ result' = [result EXCEPT ![t] = "none"]
    /\ UNCHANGED <<processes, lock, os, owner, leaked, force, child>>

StartAlreadyRunning(t) ==
    /\ pc[t] = "start"
    /\ Pass
    /\ Alive(arg[t])
    /\ Return(t, "already_running")
    /\ UNCHANGED <<processes, os, owner, leaked>>

\* Mutant of StartChecked: the liveness of the record is not looked at.
StartUnchecked(t) ==
    /\ pc[t] = "start"
    /\ Take(t)
    /\ Untrack(arg[t])
    /\ pc' = [pc EXCEPT ![t] = "spawn"]
    /\ UNCHANGED <<os, owner, leaked, arg, force, child, result>>

\* The name is free or its record is dead: the dead record is removed.
StartChecked(t) ==
    /\ pc[t] = "start"
    /\ Take(t)
    /\ ~Alive(arg[t])
    /\ Untrack(arg[t])
    /\ pc' = [pc EXCEPT ![t] = "spawn"]
    /\ UNCHANGED <<os, owner, leaked, arg, force, child, result>>

Spawn(t) ==
    /\ pc[t] = "spawn"
    /\ \E p \in Procs :
        /\ os[p] = "unborn"
        /\ os' = [os EXCEPT ![p] = "running"]
        /\ owner' = [owner EXCEPT ![p] = arg[t]]
        /\ child' = [child EXCEPT ![t] = p]
    /\ pc' = [pc EXCEPT ![t] = "record"]
    /\ UNCHANGED <<processes, lock, leaked, arg, force, result>>

\* Popen raises: no such executable, no permission, no memory.
SpawnFails(t) ==
    /\ pc[t] = "spawn"
    /\ Release(t)
    /\ Return(t, "error")
    /\ UNCHANGED <<processes, os, owner, leaked>>

\* Mutant of Record: the name is stored in place of the record.
RecordName(t) ==
    /\ pc[t] = "record"
    /\ Release(t)
    /\ processes' = [processes EXCEPT ![arg[t]] = arg[t]]
    /\ Return(t, "started")
    /\ UNCHANGED <<os, owner, leaked>>

\* The reader threads are running: the record goes into the table.
Record(t) ==
    /\ pc[t] = "record"
    /\ Release(t)
    /\ processes' = [processes EXCEPT ![arg[t]] = child[t]]
    /\ Return(t, "started")
    /\ UNCHANGED <<os, owner, leaked>>

\* Thread.start() raises after Popen: the child runs on without a record.
ReaderThreadFails(t) ==
    /\ pc[t] = "record"
    /\ Release(t)
    /\ leaked' = leaked \cup {child[t]}
    /\ Return(t, "error")
    /\ UNCHANGED <<processes, os, owner>>

-----------------------------------------------------------------------------
(* stop *)

CallStop(t, n, f) ==
    /\ pc[t] = "idle"
    /\ pc' = [pc EXCEPT ![t] = "stop"]
    /\ arg' = [arg EXCEPT ![t] = n]
    /\ force' = [force EXCEPT ![t] = f]
    /\ result' = [result EXCEPT ![t] = "none"]
    /\ UNCHANGED <<processes, lock, os, owner, leaked, child>>

StopNotTracked(t) ==
    /\ pc[t] = "stop"
    /\ Pass
    /\ ~Tracked(arg[t])
    /\ Return(t, "not_stopped")
    /\ UNCHANGED <<processes, os, owner, leaked>>

StopAlreadyExited(t) ==
    /\ pc[t] = "stop"
    /\ Pass
    /\ Tracked(arg[t]) /\ ~Alive(arg[t])
    /\ Untrack(arg[t])
    /\ Return(t, "stopped")
    /\ UNCHANGED <<os, owner, leaked>>

StopAlive(t) ==
    /\ pc[t] = "stop"
    /\ Take(t)
    /\ Alive(arg[t])
    /\ pc' = [pc EXCEPT ![t] = "signal"]
    /\ UNCHANGED <<processes, os, owner, leaked, arg, force, child, result>>

\* A process that is alive will die of SIGKILL; SIGTERM it may ignore.
Kill(p) == os' = [os EXCEPT ![p] = IF @ = "running" THEN "killed" ELSE @]

Signal(t) ==
    /\ pc[t] = "signal"
    /\ IF force[t] THEN Kill(processes[arg[t]]) ELSE UNCHANGED os
    /\ pc' = [pc EXCEPT ![t] = "wait"]
    /\ UNCHANGED <<processes, lock, owner, leaked, arg, force, child, result>>

\* Mutant of WaitExpires: it waits on without killing.
WaitOn(t) ==
    /\ pc[t] = "wait"
    /\ Alive(arg[t])
    /\ pc' = [pc EXCEPT ![t] = "reap"]
    /\ UNCHANGED <<processes, lock, os, owner, leaked, arg, force, child, result>>

\* wait(timeout=5) expires: kill() and wait() without a timeout.
WaitExpires(t) ==
    /\ pc[t] = "wait"
    /\ Alive(arg[t])
    /\ Kill(processes[arg[t]])
    /\ pc' = [pc EXCEPT ![t] = "reap"]
    /\ UNCHANGED <<processes, lock, owner, leaked, arg, force, child, result>>

\* Mutant of WaitReturns: the wait after the kill is missing.
WaitSkipped(t) ==
    /\ pc[t] \in {"wait", "reap"}
    /\ pc[t] = "wait" => ~Alive(arg[t])
    /\ Release(t)
    /\ Untrack(arg[t])
    /\ Return(t, "stopped")
    /\ UNCHANGED <<os, owner, leaked>>

WaitReturns(t) ==
    /\ pc[t] \in {"wait", "reap"}
    /\ ~Alive(arg[t])
    /\ Release(t)
    /\ Untrack(arg[t])
    /\ Return(t, "stopped")
    /\ UNCHANGED <<os, owner, leaked>>

\* Mutant of SignalRaises: the record is dropped whatever happened.
SignalRaisesUntracked(t) ==
    /\ \/ pc[t] = "signal"
       \/ pc[t] = "wait" /\ Alive(arg[t])
    /\ Release(t)
    /\ Untrack(arg[t])
    /\ Return(t, "not_stopped")
    /\ UNCHANGED <<os, owner, leaked>>

\* terminate() or kill() raises: the record stays and stop returns False.
SignalRaises(t) ==
    /\ \/ pc[t] = "signal"
       \/ pc[t] = "wait" /\ Alive(arg[t])
    /\ Release(t)
    /\ Return(t, "not_stopped")
    /\ UNCHANGED <<processes, os, owner, leaked>>

-----------------------------------------------------------------------------
ProcessExits(p) ==
    /\ p \in Live
    /\ os' = [os EXCEPT ![p] = "exited"]
    /\ UNCHANGED <<processes, lock, owner, leaked, threadVars>>

StartStep(t) ==
    \/ StartAlreadyRunning(t) \/ StartChecked(t)
    \/ Spawn(t) \/ SpawnFails(t)
    \/ Record(t) \/ ReaderThreadFails(t)

StopStep(t) ==
    \/ StopNotTracked(t) \/ StopAlreadyExited(t) \/ StopAlive(t)
    \/ Signal(t) \/ WaitExpires(t) \/ WaitReturns(t) \/ SignalRaises(t)

Next ==
    \/ \E t \in Threads :
        \/ \E n \in Names : CallStart(t, n) \/ \E f \in BOOLEAN : CallStop(t, n, f)
        \/ StartStep(t)
        \/ StopStep(t)
    \/ \E p \in Procs : ProcessExits(p)

Spec == Init /\ [][Next]_vars

\* A thread inside the lock keeps running, and SIGKILL takes effect.  Nothing
\* is assumed about which waiting thread gets the lock: threading.Lock is not
\* fair.
Fairness ==
    /\ \A t \in Threads : WF_vars(StartStep(t) \/ StopStep(t))
    /\ \A p \in Procs : WF_vars(os[p] = "killed" /\ ProcessExits(p))

FairSpec == Spec /\ Fairness

-----------------------------------------------------------------------------
(* Properties *)

\* A name never has two processes alive, tracked or about to be: a second
\* caller gets AlreadyRunningError "instead of spawning a duplicate" (lines
\* 8-10).  A leaked process is beyond the manager's reach.
OneProcessPerName ==
    \A p, q \in Held : owner[p] = owner[q] => p = q

\* Every process alive can be stopped through its name, now or as soon as the
\* start that spawned it has released the lock.
LiveIsTracked ==
    \A p \in Held :
        \/ processes[owner[p]] = p
        \/ \E t \in Threads : lock = t /\ pc[t] = "record" /\ child[t] = p

\* stop() returns True only when no process of that name is alive any more.
StopIsTrue ==
    [][\A t \in Threads :
        result[t] # "stopped" /\ result'[t] = "stopped" =>
            \A p \in Held' : owner[p] # arg[t]]_vars

\* The lock is always given back, however the child behaves.
LockIsReleased ==
    \A t \in Threads : (lock = t) ~> (lock # t)

\* What a caller can see of the processes: the tracked ones.
TrackedLive == {p \in Live : \E n \in Names : processes[n] = p}

Registry == INSTANCE ProcessRegistry WITH
    registry <- processes,
    live <- TrackedLive

\* start and stop, whatever their interleaving, do what the registry allows.
ImplementsRegistry == Registry!RegistrySpec
=============================================================================
