--------------------------- MODULE ServiceManager ---------------------------
(***************************************************************************)
(* services/service_manager.py for one subprocess-backed (LLM) service:    *)
(* threads that start, stop, restart, sync, check and query the service    *)
(* under the service's own lock, over the registry ProcessManager keeps.   *)
(*                                                                         *)
(* Every operation is called with a configuration; what matters of one is  *)
(* which of three sets it is in and whether two are equal, which is what   *)
(* _normalize_service_config decides.  A critical section that cannot      *)
(* block is one step.  The two that can, a start waiting for the model to  *)
(* answer and a stop waiting for the process to end, keep the lock.        *)
(***************************************************************************)
EXTENDS Naturals

CONSTANTS
    Threads, NoThread,
    Procs, NoProc,        \* process ids; the system may use one again
    Service,              \* the service id, the name ProcessManager tracks
    ReadyConfigs,         \* managed, with an executable
    BareConfigs,          \* managed, no executable configured
    ExternalConfigs,      \* service_mode "external"
    NoConfig,
    MaxPolls,             \* bounds how often one start polls the health URL
    SignalMayFail         \* TRUE: ProcessManager.stop may fail to signal

Configs == ReadyConfigs \cup BareConfigs \cup ExternalConfigs

ASSUME SMAssumption ==
    /\ NoThread \notin Threads
    /\ NoProc \notin Procs
    /\ NoConfig \notin Configs
    /\ ReadyConfigs \cap BareConfigs = {}
    /\ ReadyConfigs \cap ExternalConfigs = {}
    /\ BareConfigs \cap ExternalConfigs = {}
    /\ MaxPolls \in Nat \ {0}
    /\ SignalMayFail \in BOOLEAN

VARIABLES
    lock,             \* the service's lock
    pc, op, cfg,      \* each thread: where it is, in which call, with what
    polls,            \* health polls made by the start that holds the lock
    state, pid, healthy, restartRequired, appliedConfig,  \* ServiceRuntime
    registry, live,   \* ProcessManager, as ProcessRegistry has it
    ranWith           \* what the command of a tracked process was built from

threadVars == <<lock, pc, op, cfg, polls>>
runtimeVars == <<state, pid, healthy, restartRequired, appliedConfig>>
processVars == <<registry, live, ranWith>>
vars == <<threadVars, runtimeVars, processVars>>

PM == INSTANCE ProcessRegistry WITH Names <- {Service}

-----------------------------------------------------------------------------
ServiceStates == {"stopped", "starting", "running", "unhealthy", "stopping",
                  "failed", "external"}

Ops == {"start", "stop", "restart", "sync", "check", "status"}

\* What an operation is given beside the service id
ConfigsOf(o) == IF o \in {"stop", "status"} THEN {NoConfig} ELSE Configs

\* Where a thread is inside "with lock" across steps
Critical == {"begin_start", "pm_start", "health", "probe", "pm_stop"}

TypeOK ==
    /\ lock \in Threads \cup {NoThread}
    /\ pc \in [Threads -> {"idle", "call"} \cup Critical]
    /\ op \in [Threads -> Ops \cup {"none"}]
    /\ cfg \in [Threads -> Configs \cup {NoConfig}]
    /\ polls \in 0..MaxPolls
    /\ state \in ServiceStates
    /\ pid \in Procs \cup {NoProc}
    /\ healthy \in BOOLEAN
    /\ restartRequired \in BOOLEAN
    /\ appliedConfig \in ReadyConfigs \cup {NoConfig}
    /\ registry \in [{Service} -> Procs \cup {NoProc}]
    /\ live \in SUBSET Procs
    /\ ranWith \in [Procs -> ReadyConfigs \cup {NoConfig}]

Init ==
    /\ lock = NoThread
    /\ pc = [t \in Threads |-> "idle"]
    /\ op = [t \in Threads |-> "none"]
    /\ cfg = [t \in Threads |-> NoConfig]
    /\ polls = 0
    /\ state = "stopped"
    /\ pid = NoProc
    /\ healthy = FALSE
    /\ restartRequired = FALSE
    /\ appliedConfig = NoConfig
    /\ PM!RegistryInit
    /\ ranWith = [p \in Procs |-> NoConfig]

Tracked == registry[Service]
TrackedIsAlive == Tracked \in live

\* A new or a dropped record: what dead processes ran with is forgotten.
Commands == [p \in Procs |-> IF p \in live THEN ranWith[p] ELSE NoConfig]

\* runtime.applied_config and current_config != runtime.applied_config
Drifted(c) == appliedConfig # NoConfig /\ c # appliedConfig

-----------------------------------------------------------------------------
(* Calls and returns *)

Call(t, o, c) ==
    /\ pc[t] = "idle"
    /\ pc' = [pc EXCEPT ![t] = "call"]
    /\ op' = [op EXCEPT ![t] = o]
    /\ cfg' = [cfg EXCEPT ![t] = c]
    /\ UNCHANGED <<lock, polls, runtimeVars, processVars>>

\* The call returns and the lock is free.
Return(t) ==
    /\ lock' = NoThread
    /\ pc' = [pc EXCEPT ![t] = "idle"]
    /\ op' = [op EXCEPT ![t] = "none"]
    /\ cfg' = [cfg EXCEPT ![t] = NoConfig]
    /\ polls' = 0

\* The call goes on with the lock held.
Continue(t, l) ==
    /\ lock' = t
    /\ pc' = [pc EXCEPT ![t] = l]
    /\ UNCHANGED <<op, cfg>>

Entering(t, ops) ==
    /\ pc[t] = "call"
    /\ op[t] \in ops
    /\ lock = NoThread

-----------------------------------------------------------------------------
(* start, and the second half of restart: _start_locked *)

\* _stop_locked has nothing to do for a restart of these.
AtStart(t) ==
    \/ Entering(t, {"start"})
    \/ Entering(t, {"restart"}) /\ state \in {"stopped", "failed", "external"}
    \/ pc[t] = "begin_start" /\ lock = t

StartRefused(t) ==
    /\ AtStart(t)
    /\ state \in {"running", "starting"}
    /\ Return(t)
    /\ UNCHANGED <<runtimeVars, processVars>>

\* Mutant of StartExternal: it records the external configuration as applied.
StartExternalApplied(t) ==
    /\ AtStart(t)
    /\ state \notin {"running", "starting"}
    /\ cfg[t] \in ExternalConfigs
    /\ state' = "external"
    /\ healthy' = FALSE
    /\ appliedConfig' = cfg[t]
    /\ Return(t)
    /\ UNCHANGED <<pid, restartRequired, processVars>>

StartExternal(t) ==
    /\ AtStart(t)
    /\ state \notin {"running", "starting"}
    /\ cfg[t] \in ExternalConfigs
    /\ state' = "external"
    /\ healthy' = FALSE
    /\ Return(t)
    /\ UNCHANGED <<pid, restartRequired, appliedConfig, processVars>>

StartBare(t) ==
    /\ AtStart(t)
    /\ state \notin {"running", "starting"}
    /\ cfg[t] \in BareConfigs
    /\ state' = "failed"
    /\ Return(t)
    /\ UNCHANGED <<pid, healthy, restartRequired, appliedConfig, processVars>>

StartManaged(t) ==
    /\ AtStart(t)
    /\ state \notin {"running", "starting"}
    /\ cfg[t] \in ReadyConfigs
    /\ state' = "starting"
    /\ polls' = 0
    /\ Continue(t, "pm_start")
    /\ UNCHANGED <<pid, healthy, restartRequired, appliedConfig, processVars>>

\* Mutant of Adopt: get_pid is forgotten.
AdoptWithoutPid(t) ==
    /\ pc[t] = "pm_start"
    /\ TrackedIsAlive
    /\ state' = "running"
    /\ Return(t)
    /\ UNCHANGED <<pid, healthy, restartRequired, appliedConfig, processVars>>

\* pm.start raises AlreadyRunningError: the process there is adopted.
Adopt(t) ==
    /\ pc[t] = "pm_start"
    /\ TrackedIsAlive
    /\ state' = "running"
    /\ pid' = Tracked
    /\ Return(t)
    /\ UNCHANGED <<healthy, restartRequired, appliedConfig, processVars>>

SpawnLLM(t) ==
    /\ pc[t] = "pm_start"
    /\ \E p \in Procs :
        /\ PM!Register(Service, p)
        /\ pid' = p
        /\ ranWith' = [Commands EXCEPT ![p] = cfg[t]]
    /\ UNCHANGED polls
    /\ Continue(t, "health")
    /\ UNCHANGED <<state, healthy, restartRequired, appliedConfig>>

\* Mutant of SpawnLLMFails: nothing catches the exception.
SpawnLLMEscapes(t) ==
    /\ pc[t] = "pm_start"
    /\ IF Tracked = NoProc THEN UNCHANGED <<registry, live>> ELSE PM!Forget(Service)
    /\ Return(t)
    /\ ranWith' = Commands
    /\ UNCHANGED runtimeVars

\* Popen raises; pm.start has dropped a dead record by then.
SpawnLLMFails(t) ==
    /\ pc[t] = "pm_start"
    /\ IF Tracked = NoProc THEN UNCHANGED <<registry, live>> ELSE PM!Forget(Service)
    /\ state' = "failed"
    /\ Return(t)
    /\ ranWith' = Commands
    /\ UNCHANGED <<pid, healthy, restartRequired, appliedConfig>>

-----------------------------------------------------------------------------
(* _wait_for_llm_health: the poll loop, with the lock held *)

\* The process is there: ask the health URL.
Poll(t) ==
    /\ pc[t] = "health"
    /\ TrackedIsAlive
    /\ polls < MaxPolls
    /\ polls' = polls + 1
    /\ Continue(t, "probe")
    /\ UNCHANGED <<runtimeVars, processVars>>

\* Mutant of PollUnanswered: every poll sets a new deadline.
PollRestarted(t) ==
    /\ pc[t] = "probe"
    /\ polls' = 0
    /\ Continue(t, "health")
    /\ UNCHANGED <<runtimeVars, processVars>>

PollUnanswered(t) ==
    /\ pc[t] = "probe"
    /\ UNCHANGED polls
    /\ Continue(t, "health")
    /\ UNCHANGED <<runtimeVars, processVars>>

\* Mutant of PollAnswered: the old fingerprint stays.
PollAnsweredUnapplied(t) ==
    /\ pc[t] = "probe"
    /\ state' = "running"
    /\ healthy' = TRUE
    /\ restartRequired' = FALSE
    /\ Return(t)
    /\ UNCHANGED <<pid, appliedConfig, processVars>>

\* 2xx from the health URL: the service is running with this configuration.
PollAnswered(t) ==
    /\ pc[t] = "probe"
    /\ state' = "running"
    /\ healthy' = TRUE
    /\ restartRequired' = FALSE
    /\ appliedConfig' = cfg[t]
    /\ Return(t)
    /\ UNCHANGED <<pid, processVars>>

\* The process is gone, or the deadline, at least one poll away, is over.
\* The process is not stopped.
HealthGivesUp(t) ==
    /\ pc[t] = "health"
    /\ ~TrackedIsAlive \/ polls > 0
    /\ state' = "unhealthy"
    /\ healthy' = FALSE
    /\ Return(t)
    /\ UNCHANGED <<pid, restartRequired, appliedConfig, processVars>>

\* Another exception than those of a request that fails: _start_locked catches
\* it, with the process running and its pid recorded.
HealthRaises(t) ==
    /\ pc[t] \in {"health", "probe"}
    /\ state' = "failed"
    /\ Return(t)
    /\ UNCHANGED <<pid, healthy, restartRequired, appliedConfig, processVars>>

-----------------------------------------------------------------------------
(* stop, and the first half of restart: _stop_locked *)

StopNothing(t) ==
    /\ Entering(t, {"stop"})
    /\ state \in {"stopped", "external"}
    /\ Return(t)
    /\ UNCHANGED <<runtimeVars, processVars>>

AtStop(t) ==
    \/ Entering(t, {"stop"}) /\ state \notin {"stopped", "external"}
    \/ Entering(t, {"restart"}) /\ state \notin {"stopped", "external", "failed"}

\* The end of _stop_locked: a restart goes on to start.
Stopped(t) ==
    /\ state' = "stopped"
    /\ pid' = NoProc
    /\ healthy' = FALSE
    /\ appliedConfig' = NoConfig
    /\ UNCHANGED restartRequired
    /\ IF op[t] = "restart"
       THEN Continue(t, "begin_start") /\ UNCHANGED polls
       ELSE Return(t)

StopWithoutPid(t) ==
    /\ AtStop(t)
    /\ pid = NoProc
    /\ Stopped(t)
    /\ UNCHANGED processVars

StopWithPid(t) ==
    /\ AtStop(t)
    /\ pid # NoProc
    /\ state' = "stopping"
    /\ Continue(t, "pm_stop")
    /\ UNCHANGED <<polls, pid, healthy, restartRequired, appliedConfig, processVars>>

\* Mutant of PmStopReturns: the record goes without waiting for the process.
PmStopUnwaited(t) ==
    /\ pc[t] = "pm_stop"
    /\ registry' = [registry EXCEPT ![Service] = NoProc]
    /\ UNCHANGED live
    /\ ranWith' = Commands
    /\ Stopped(t)

\* pm.stop comes back once the process, if there is one, has ended.
PmStopReturns(t) ==
    /\ pc[t] = "pm_stop"
    /\ ~TrackedIsAlive
    /\ IF Tracked = NoProc THEN UNCHANGED <<registry, live>> ELSE PM!Forget(Service)
    /\ ranWith' = Commands
    /\ Stopped(t)

\* pm.stop returns False, which nobody looks at.
PmStopFails(t) ==
    /\ SignalMayFail
    /\ pc[t] = "pm_stop"
    /\ TrackedIsAlive
    /\ Stopped(t)
    /\ UNCHANGED processVars

-----------------------------------------------------------------------------
(* sync_configuration, check_restart_required, status *)

\* Mutant of Sync: a flag once set is never cleared.
SyncSticky(t) ==
    /\ Entering(t, {"sync"})
    /\ IF cfg[t] \in ExternalConfigs
       THEN state' = "external" /\ healthy' = FALSE /\ pid' = NoProc
       ELSE /\ state' = IF state = "external" THEN "stopped" ELSE state
            /\ UNCHANGED <<healthy, pid>>
    /\ restartRequired' = (restartRequired \/ (state' = "running" /\ Drifted(cfg[t])))
    /\ Return(t)
    /\ UNCHANGED <<appliedConfig, processVars>>

\* Mutant of Sync: an external service stays external.
SyncKeepsExternal(t) ==
    /\ Entering(t, {"sync"})
    /\ IF cfg[t] \in ExternalConfigs
       THEN state' = "external" /\ healthy' = FALSE /\ pid' = NoProc
       ELSE UNCHANGED <<state, healthy, pid>>
    /\ restartRequired' = IF state' = "running" THEN Drifted(cfg[t]) ELSE restartRequired
    /\ Return(t)
    /\ UNCHANGED <<appliedConfig, processVars>>

Sync(t) ==
    /\ Entering(t, {"sync"})
    /\ IF cfg[t] \in ExternalConfigs
       THEN state' = "external" /\ healthy' = FALSE /\ pid' = NoProc
       ELSE /\ state' = IF state = "external" THEN "stopped" ELSE state
            /\ UNCHANGED <<healthy, pid>>
    /\ restartRequired' = IF state' = "running" THEN Drifted(cfg[t]) ELSE restartRequired
    /\ Return(t)
    /\ UNCHANGED <<appliedConfig, processVars>>

Check(t) ==
    /\ Entering(t, {"check"})
    /\ restartRequired' = (state = "running" /\ Drifted(cfg[t]))
    /\ Return(t)
    /\ UNCHANGED <<state, pid, healthy, appliedConfig, processVars>>

Status(t) ==
    /\ Entering(t, {"status"})
    /\ Return(t)
    /\ UNCHANGED <<runtimeVars, processVars>>

-----------------------------------------------------------------------------
ProcessExits(p) ==
    /\ PM!Exit(p)
    /\ UNCHANGED <<ranWith, threadVars, runtimeVars>>

StartStep(t) ==
    \/ StartRefused(t) \/ StartExternal(t) \/ StartBare(t) \/ StartManaged(t)
    \/ Adopt(t) \/ SpawnLLM(t) \/ SpawnLLMFails(t)
    \/ Poll(t) \/ PollUnanswered(t) \/ PollAnswered(t) \/ HealthGivesUp(t)
    \/ HealthRaises(t)

StopStep(t) ==
    \/ StopNothing(t) \/ StopWithoutPid(t) \/ StopWithPid(t)
    \/ PmStopReturns(t) \/ PmStopFails(t)

OpStep(t) == StartStep(t) \/ StopStep(t) \/ Sync(t) \/ Check(t) \/ Status(t)

Next ==
    \/ \E t \in Threads : OpStep(t) \/ \E o \in Ops : \E c \in ConfigsOf(o) : Call(t, o, c)
    \/ \E p \in Procs : ProcessExits(p)

Spec == Init /\ [][Next]_vars

\* A thread that holds the lock goes on, and a process that is being stopped
\* ends: SIGTERM, and SIGKILL after five seconds.
Fairness ==
    /\ \A t \in Threads : WF_vars(OpStep(t))
    /\ \A p \in Procs : WF_vars((\E t \in Threads : pc[t] = "pm_stop") /\ ProcessExits(p))

FairSpec == Spec /\ Fairness

-----------------------------------------------------------------------------
(* Properties *)

\* A service that runs, healthy or not, shows the pid of the process that
\* ProcessManager tracks, the one stop() will signal.  In the other states the
\* pid may be that of a process long gone: a start that fails to spawn and a
\* start in external mode leave it as it was.
PidIsTracked ==
    state \in {"running", "unhealthy"} => pid # NoProc /\ pid = Tracked

\* "healthy" is a promise about one process: the service is running, the
\* process it reports was started with the configuration it compares with.
HealthyMeansApplied ==
    healthy =>
        /\ state \in {"running", "stopping"}
        /\ pid # NoProc /\ pid = Tracked
        /\ appliedConfig # NoConfig
        /\ appliedConfig = ranWith[pid]

\* Whoever takes the lock finds the service neither starting nor stopping: a
\* restart is one change of state to every call, and status(), which takes it,
\* never answers with either.  (is_running() reads the state without the lock; no
\* part of the program calls it.)
TransientIsLocked ==
    lock = NoThread => state \notin {"starting", "stopping"}

\* After a sync, a healthy service is flagged for restart exactly when its
\* process was started with something else than the configuration synced.
SyncFlagsDrift ==
    [][\A t \in Threads :
        Sync(t) /\ healthy' => restartRequired' = (ranWith[pid] # cfg[t])]_vars

\* A stop that was able to signal leaves no process of the service alive.
StopEndsProcess ==
    [][\A t \in Threads : pc[t] = "pm_stop" /\ state' = "stopped" =>
        live' = {} \/ PmStopFails(t)]_vars

\* The lock of the service is always given back, however long the model takes
\* to answer and whatever the process does.
LockIsReleased ==
    \A t \in Threads : (lock = t) ~> (lock # t)

-----------------------------------------------------------------------------
(* What the source says of itself and the code does not do *)

\* "External services have no process and no local model" (line 22).
\* sync_configuration turns a running service external and leaves its process.
ExternalHasNoProcess == state = "external" => live = {}
=============================================================================
