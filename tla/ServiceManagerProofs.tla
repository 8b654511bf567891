------------------------ MODULE ServiceManagerProofs ------------------------
(***************************************************************************)
(* Proofs about ServiceManager, for any number of threads, processes and   *)
(* configurations.                                                         *)
(***************************************************************************)
EXTENDS ServiceManager, TLAPS

\* Where a start, past its checks, holds the lock
Starting == {"pm_start", "health", "probe"}

\* Only the thread that holds the lock is inside it.
LockInv == \A t \in Threads : pc[t] \in Critical <=> lock = t

\* What the thread inside the lock relies on from one of its steps to the next.
HolderInv ==
    \A t \in Threads :
        /\ pc[t] \in Starting => state = "starting" /\ cfg[t] \in ReadyConfigs
        /\ pc[t] = "pm_stop" => state = "stopping"
        /\ pc[t] = "begin_start" => state = "stopped"
        /\ pc[t] \in {"health", "probe"} =>
            pid # NoProc /\ pid = Tracked /\ ranWith[pid] = cfg[t]

\* At most one process of the service is alive, and it is the tracked one.
LiveIsTracked == \A p \in live : p = Tracked

IInv ==
    /\ TypeOK
    /\ LockInv
    /\ HolderInv
    /\ PidIsTracked
    /\ HealthyMeansApplied
    /\ TransientIsLocked
    /\ LiveIsTracked

-----------------------------------------------------------------------------
(* The invariant holds at first *)

\* Nothing runs, nobody holds the lock, and no process is there.
LEMMA InitIInv == Init => IInv
<1> SUFFICES ASSUME Init PROVE IInv
  OBVIOUS
<1>0. healthy \in BOOLEAN /\ restartRequired \in BOOLEAN
  BY Zenon DEF Init
<1>1. TypeOK
  BY <1>0, SMAssumption DEF Init, TypeOK, ServiceStates, PM!RegistryInit
<1>2. LockInv /\ HolderInv
  BY SMAssumption DEF Init, LockInv, HolderInv, Critical, Starting
<1>3. PidIsTracked /\ HealthyMeansApplied /\ TransientIsLocked /\ LiveIsTracked
  BY DEF Init, PidIsTracked, HealthyMeansApplied, TransientIsLocked, LiveIsTracked,
     PM!RegistryInit
<1> QED
  BY <1>1, <1>2, <1>3 DEF IInv

-----------------------------------------------------------------------------
(* Every step keeps it: one lemma per group of actions *)

\* A call puts its thread in front of the lock and changes nothing else.
LEMMA CallKeeps ==
  ASSUME IInv, NEW t \in Threads, NEW o \in Ops, NEW c \in ConfigsOf(o), Call(t, o, c)
  PROVE  IInv'
  BY SMAssumption DEF Call, IInv, TypeOK, LockInv, HolderInv, PidIsTracked, ConfigsOf, Ops,
     HealthyMeansApplied, TransientIsLocked, LiveIsTracked, Critical, Starting,
     Tracked, runtimeVars, processVars

\* A process that ends stays the tracked one.
LEMMA ExitKeeps ==
  ASSUME IInv, NEW p \in Procs, ProcessExits(p)
  PROVE  IInv'
  BY DEF ProcessExits, PM!Exit, IInv, TypeOK, LockInv, HolderInv, PidIsTracked,
     HealthyMeansApplied, TransientIsLocked, LiveIsTracked, Critical, Starting,
     Tracked, runtimeVars, threadVars

LEMMA StartKeeps ==
  ASSUME IInv, NEW t \in Threads, StartStep(t)
  PROVE  IInv'
<1> USE SMAssumption DEF IInv, TypeOK, LockInv, HolderInv, PidIsTracked,
     HealthyMeansApplied, TransientIsLocked, LiveIsTracked, Critical, Starting,
     Tracked, runtimeVars, processVars, AtStart, Entering, Return, Continue, ServiceStates
<1>1. CASE StartRefused(t)
  BY <1>1 DEF StartRefused
<1>2. CASE StartExternal(t)
  <2>0. healthy' \in BOOLEAN /\ restartRequired' \in BOOLEAN
    BY ONLY <1>2, IInv, Zenon DEF StartExternal, IInv, TypeOK
  <2>1. TypeOK'
    BY <1>2, <2>0 DEF StartExternal
  <2>2. LockInv' /\ HolderInv'
    BY <1>2 DEF StartExternal
  <2>3. PidIsTracked' /\ HealthyMeansApplied' /\ TransientIsLocked' /\ LiveIsTracked'
    BY <1>2 DEF StartExternal
  <2> QED
    BY <2>1, <2>2, <2>3
<1>3. CASE StartBare(t)
  BY <1>3 DEF StartBare
<1>4. CASE StartManaged(t)
  BY <1>4 DEF StartManaged
<1>5. CASE Adopt(t)
  BY <1>5 DEF Adopt, TrackedIsAlive
<1>6. CASE SpawnLLM(t)
  BY <1>6 DEF SpawnLLM, PM!Register, Commands
<1>7. CASE SpawnLLMFails(t)
  BY <1>7 DEF SpawnLLMFails, PM!Forget, Commands
<1>8. CASE Poll(t)
  BY <1>8 DEF Poll
<1>9. CASE PollUnanswered(t)
  BY <1>9 DEF PollUnanswered
<1>10. CASE PollAnswered(t)
  <2>0. healthy' \in BOOLEAN /\ restartRequired' \in BOOLEAN
    BY ONLY <1>10, IInv, Zenon DEF PollAnswered, IInv, TypeOK
  <2>1. TypeOK'
    BY <1>10, <2>0 DEF PollAnswered
  <2>2. LockInv' /\ HolderInv'
    BY <1>10 DEF PollAnswered
  <2>3. PidIsTracked' /\ HealthyMeansApplied' /\ TransientIsLocked' /\ LiveIsTracked'
    BY <1>10 DEF PollAnswered, Configs
  <2> QED
    BY <2>1, <2>2, <2>3
<1>11. CASE HealthGivesUp(t)
  <2>0. healthy' \in BOOLEAN /\ restartRequired' \in BOOLEAN
    BY ONLY <1>11, IInv, Zenon DEF HealthGivesUp, IInv, TypeOK
  <2>1. TypeOK'
    BY <1>11, <2>0 DEF HealthGivesUp
  <2>2. LockInv' /\ HolderInv'
    BY <1>11 DEF HealthGivesUp
  <2>3. PidIsTracked' /\ HealthyMeansApplied' /\ TransientIsLocked' /\ LiveIsTracked'
    BY <1>11 DEF HealthGivesUp
  <2> QED
    BY <2>1, <2>2, <2>3
<1>12. CASE HealthRaises(t)
  BY <1>12 DEF HealthRaises
<1> QED
  BY <1>1, <1>2, <1>3, <1>4, <1>5, <1>6, <1>7, <1>8, <1>9, <1>10, <1>11, <1>12 DEF StartStep

\* The end of _stop_locked, whatever has become of the process: what is left
\* to show of a step that ends with it is the state of the registry.
LEMMA StoppedKeeps ==
  ASSUME IInv, NEW t \in Threads, Stopped(t), lock \in {NoThread, t},
         registry' \in [{Service} -> Procs \cup {NoProc}],
         live' \in SUBSET Procs,
         ranWith' \in [Procs -> ReadyConfigs \cup {NoConfig}],
         LiveIsTracked'
  PROVE  IInv'
<1> USE SMAssumption DEF IInv, Critical, Starting
<1>1. healthy' \in BOOLEAN /\ restartRequired' \in BOOLEAN /\ ~healthy'
  BY ONLY IInv, Stopped(t), Zenon DEF IInv, TypeOK, Stopped
<1>2. CASE op[t] = "restart"
  <2>1. TypeOK'
    BY <1>1, <1>2 DEF Stopped, Continue, TypeOK, ServiceStates
  <2>2. LockInv' /\ HolderInv'
    BY <1>2 DEF Stopped, Continue, TypeOK, LockInv, HolderInv
  <2> QED
    BY <1>1, <1>2, <2>1, <2>2
    DEF Stopped, Continue, PidIsTracked, HealthyMeansApplied, TransientIsLocked
<1>3. CASE op[t] # "restart"
  <2>1. TypeOK'
    BY <1>1, <1>3 DEF Stopped, Return, TypeOK, ServiceStates
  <2>2. LockInv' /\ HolderInv'
    BY <1>3 DEF Stopped, Return, TypeOK, LockInv, HolderInv
  <2> QED
    BY <1>1, <1>3, <2>1, <2>2
    DEF Stopped, Return, PidIsTracked, HealthyMeansApplied, TransientIsLocked
<1> QED
  BY <1>2, <1>3

LEMMA StopKeeps ==
  ASSUME IInv, NEW t \in Threads, StopStep(t)
  PROVE  IInv'
<1> USE SMAssumption DEF IInv
<1>1. CASE StopNothing(t)
  BY <1>1 DEF StopNothing, TypeOK, LockInv, HolderInv, PidIsTracked,
     HealthyMeansApplied, TransientIsLocked, LiveIsTracked, Critical, Starting,
     Tracked, runtimeVars, processVars, Entering, Return
<1>2. CASE StopWithoutPid(t)
  BY <1>2, StoppedKeeps
  DEF StopWithoutPid, AtStop, Entering, processVars, TypeOK, LiveIsTracked, Tracked
<1>3. CASE StopWithPid(t)
  BY <1>3 DEF StopWithPid, AtStop, TypeOK, LockInv, HolderInv, PidIsTracked,
     HealthyMeansApplied, TransientIsLocked, LiveIsTracked, Critical, Starting,
     Tracked, processVars, Entering, Continue, ServiceStates
<1>4. CASE PmStopReturns(t)
  <2>1. lock = t
    BY <1>4 DEF PmStopReturns, LockInv, Critical
  <2>2. /\ registry' \in [{Service} -> Procs \cup {NoProc}]
        /\ live' = live
        /\ ranWith' \in [Procs -> ReadyConfigs \cup {NoConfig}]
    BY <1>4 DEF PmStopReturns, PM!Forget, Commands, TypeOK
  <2>3. live = {}
    BY <1>4 DEF PmStopReturns, TrackedIsAlive, LiveIsTracked
  <2> QED
    BY <1>4, <2>1, <2>2, <2>3, StoppedKeeps DEF PmStopReturns, LiveIsTracked
<1>5. CASE PmStopFails(t)
  <2>1. lock = t
    BY <1>5 DEF PmStopFails, LockInv, Critical
  <2> QED
    BY <1>5, <2>1, StoppedKeeps
    DEF PmStopFails, processVars, TypeOK, LiveIsTracked, Tracked
<1> QED
  BY <1>1, <1>2, <1>3, <1>4, <1>5 DEF StopStep

LEMMA QueryKeeps ==
  ASSUME IInv, NEW t \in Threads, Sync(t) \/ Check(t) \/ Status(t)
  PROVE  IInv'
<1> USE SMAssumption DEF IInv, TypeOK, LockInv, HolderInv, PidIsTracked,
     HealthyMeansApplied, TransientIsLocked, LiveIsTracked, Critical, Starting,
     Tracked, runtimeVars, processVars, Entering, Return, ServiceStates
<1>1. CASE Sync(t)
  <2>1. healthy' \in BOOLEAN /\ restartRequired' \in BOOLEAN
    BY ONLY <1>1, IInv, Zenon DEF Sync, Drifted, IInv, TypeOK
  <2>2. TypeOK'
    BY <1>1, <2>1 DEF Sync
  <2>3. LockInv' /\ HolderInv'
    BY <1>1 DEF Sync
  <2>4. PidIsTracked' /\ HealthyMeansApplied' /\ TransientIsLocked' /\ LiveIsTracked'
    BY <1>1 DEF Sync
  <2> QED
    BY <2>2, <2>3, <2>4
<1>2. CASE Check(t)
  BY <1>2 DEF Check, Drifted
<1>3. CASE Status(t)
  BY <1>3 DEF Status
<1> QED
  BY <1>1, <1>2, <1>3

\* A step that changes nothing keeps it.
LEMMA StutterKeeps ==
  ASSUME IInv, UNCHANGED vars
  PROVE  IInv'
  BY DEF IInv, TypeOK, LockInv, HolderInv, PidIsTracked, HealthyMeansApplied,
     TransientIsLocked, LiveIsTracked, Critical, Starting, Tracked, vars, threadVars,
     runtimeVars, processVars

-----------------------------------------------------------------------------
(* Theorems *)

\* Every step keeps it.
LEMMA NextKeeps ==
  ASSUME IInv, [Next]_vars
  PROVE  IInv'
<1>1. CASE \E t \in Threads : OpStep(t)
  BY <1>1, StartKeeps, StopKeeps, QueryKeeps DEF OpStep
<1>2. CASE \E t \in Threads, o \in Ops : \E c \in ConfigsOf(o) : Call(t, o, c)
  BY <1>2, CallKeeps
<1>3. CASE \E p \in Procs : ProcessExits(p)
  BY <1>3, ExitKeeps
<1>4. CASE UNCHANGED vars
  BY <1>4, StutterKeeps
<1> QED
  BY <1>1, <1>2, <1>3, <1>4 DEF Next

\* The inductive invariant: the types, who is inside the lock, what that
\* thread relies on, and the invariants the runs check.
THEOREM Invariance == Spec => []IInv
  BY InitIInv, NextKeeps, PTL DEF Spec

\* Type correctness, for every number of threads, processes and polls.
THEOREM TypeCorrect == Spec => []TypeOK
  BY Invariance, PTL DEF IInv

\* What a caller is told about a service is about the process that is tracked:
\* its pid, and, when healthy, the configuration it was started with.
THEOREM StatusIsAboutTheProcess == Spec => [](PidIsTracked /\ HealthyMeansApplied)
  BY Invariance, PTL DEF IInv

\* A service that runs, healthy or not, shows the pid stop() will signal.
THEOREM PidIsTheTracked == Spec => []PidIsTracked
  BY Invariance, PTL DEF IInv

\* Whoever takes the lock finds the service neither starting nor stopping.
THEOREM RestartIsAtomic == Spec => []TransientIsLocked
  BY Invariance, PTL DEF IInv

\* A sync flags a healthy service for restart exactly when its process runs
\* with something else than the configuration synced.
THEOREM DriftIsFlagged == Spec => SyncFlagsDrift
<1>1. ASSUME IInv, IInv', NEW t \in Threads, Sync(t), healthy'
      PROVE  restartRequired' = (ranWith[pid] # cfg[t])
  <2>1. cfg[t] \notin ExternalConfigs /\ healthy /\ pid' = pid /\ state' = state
    BY <1>1 DEF Sync, IInv, HealthyMeansApplied
  <2>2. state' = "running"
    BY <1>1, <2>1 DEF IInv, HealthyMeansApplied, TransientIsLocked, Sync, Entering
  <2>3. appliedConfig # NoConfig /\ appliedConfig = ranWith[pid]
    BY <1>1, <2>1 DEF IInv, HealthyMeansApplied
  <2>4. restartRequired' = Drifted(cfg[t])
    BY ONLY <1>1, <2>2, Zenon DEF Sync
  <2>5. Drifted(cfg[t]) <=> ranWith[pid] # cfg[t]
    BY <2>3 DEF Drifted
  <2> QED
    BY ONLY <2>4, <2>5, Zenon DEF Drifted
<1>2. IInv /\ IInv' =>
        [\A t \in Threads :
            Sync(t) /\ healthy' => restartRequired' = (ranWith[pid] # cfg[t])]_vars
  BY <1>1
<1> QED
  BY <1>2, Invariance, PTL DEF SyncFlagsDrift

\* A thread takes a step of a call only inside the lock or with the lock free.
LEMMA LockGuards ==
  ASSUME NEW u \in Threads, OpStep(u)
  PROVE  pc[u] \in Critical \/ lock = NoThread
<1> USE DEF Critical, Entering
<1>1. CASE StartStep(u)
  BY <1>1 DEF StartStep, AtStart, StartRefused, StartExternal, StartBare, StartManaged,
     Adopt, SpawnLLM, SpawnLLMFails, Poll, PollUnanswered, PollAnswered, HealthGivesUp,
     HealthRaises
<1>2. CASE StopStep(u)
  BY <1>2 DEF StopStep, AtStop, StopNothing, StopWithoutPid, StopWithPid,
     PmStopReturns, PmStopFails
<1> QED
  BY <1>1, <1>2 DEF OpStep, Sync, Check, Status

\* A stop that was able to signal leaves no process of the service alive.
THEOREM StopWorks == Spec => StopEndsProcess
<1>1. ASSUME IInv, Next, NEW t \in Threads, pc[t] = "pm_stop", state' = "stopped"
      PROVE  live' = {} \/ PmStopFails(t)
  <2>1. lock = t /\ lock # NoThread /\ state = "stopping"
    BY <1>1, SMAssumption DEF IInv, LockInv, HolderInv, Critical
  <2>2. PICK u \in Threads : OpStep(u)
    BY <1>1, <2>1 DEF Next, Call, ProcessExits, runtimeVars
  <2>3. u = t
    BY <2>1, <2>2, LockGuards, <1>1 DEF IInv, LockInv
  <2>4. PmStopReturns(t) \/ PmStopFails(t)
    BY <1>1, <2>1, <2>2, <2>3, SMAssumption
    DEF OpStep, Sync, Check, Status, StartStep, StopStep, Entering, AtStart, AtStop,
        StartRefused, StartExternal, StartBare, StartManaged, Adopt, SpawnLLM,
        SpawnLLMFails, Poll, PollUnanswered, PollAnswered, HealthGivesUp,
        HealthRaises, StopNothing, StopWithoutPid, StopWithPid
  <2>5. ASSUME PmStopReturns(t) PROVE live' = {}
    BY <1>1, <2>5 DEF PmStopReturns, PM!Forget, IInv, LiveIsTracked, TrackedIsAlive
  <2> QED
    BY <2>4, <2>5
<1>2. IInv /\ [Next]_vars =>
        [\A t \in Threads : pc[t] = "pm_stop" /\ state' = "stopped" =>
            live' = {} \/ PmStopFails(t)]_vars
  BY <1>1
<1> QED
  BY <1>2, Invariance, PTL DEF StopEndsProcess, Spec

-----------------------------------------------------------------------------
(* What LockIsReleased rests on *)

\* A bound on the steps that a thread inside the lock still takes there: those
\* of a health poll are two, and a restart stops before it starts.
Distance(t) ==
    CASE pc[t] = "pm_stop" -> 2 * MaxPolls + 5
      [] pc[t] = "begin_start" -> 2 * MaxPolls + 4
      [] pc[t] = "pm_start" -> 2 * MaxPolls + 3
      [] pc[t] = "probe" -> 2 * (MaxPolls - polls) + 2
      [] pc[t] = "health" -> 2 * (MaxPolls - polls) + 1
      [] OTHER -> 0

\* Every step of the thread inside the lock brings it closer to its release, and
\* no step of anyone else, be it a call or the end of a process, sets it back.
HolderComesCloser ==
    [][\A t \in Threads : lock = t =>
        IF OpStep(t)
        THEN lock' = NoThread \/ (lock' = t /\ Distance(t)' < Distance(t))
        ELSE lock' = t /\ Distance(t)' = Distance(t)]_vars

LEMMA DistanceIsNat ==
  ASSUME TypeOK, NEW t \in Threads
  PROVE  Distance(t) \in 0 .. 2 * MaxPolls + 5
  BY SMAssumption DEF TypeOK, Distance

LEMMA StartComesCloser ==
  ASSUME IInv, NEW t \in Threads, lock = t, StartStep(t)
  PROVE  lock' = NoThread \/ (lock' = t /\ Distance(t)' < Distance(t))
<1> USE SMAssumption DEF IInv, TypeOK, Entering, AtStart, Return, Continue, Distance
<1>1. CASE StartRefused(t) \/ StartExternal(t) \/ StartBare(t)
  BY <1>1 DEF StartRefused, StartExternal, StartBare
<1>2. CASE StartManaged(t)
  BY <1>2 DEF StartManaged
<1>3. CASE Adopt(t) \/ SpawnLLMFails(t)
  BY <1>3 DEF Adopt, SpawnLLMFails
<1>4. CASE SpawnLLM(t)
  BY <1>4 DEF SpawnLLM
<1>5. CASE Poll(t)
  BY <1>5 DEF Poll
<1>6. CASE PollUnanswered(t)
  BY <1>6 DEF PollUnanswered
<1>7. CASE PollAnswered(t) \/ HealthGivesUp(t) \/ HealthRaises(t)
  BY <1>7 DEF PollAnswered, HealthGivesUp, HealthRaises
<1> QED
  BY <1>1, <1>2, <1>3, <1>4, <1>5, <1>6, <1>7 DEF StartStep

LEMMA StopComesCloser ==
  ASSUME IInv, NEW t \in Threads, lock = t, StopStep(t)
  PROVE  lock' = NoThread \/ (lock' = t /\ Distance(t)' < Distance(t))
<1> USE SMAssumption DEF IInv, TypeOK, Entering, AtStop, Return, Continue, Stopped, Distance
<1>1. CASE StopNothing(t) \/ StopWithoutPid(t) \/ StopWithPid(t)
  BY <1>1 DEF StopNothing, StopWithoutPid, StopWithPid
<1>2. CASE PmStopReturns(t)
  BY <1>2 DEF PmStopReturns
<1>3. CASE PmStopFails(t)
  BY <1>3 DEF PmStopFails
<1> QED
  BY <1>1, <1>2, <1>3 DEF StopStep

\* A critical section is at most 2 * MaxPolls + 6 steps long, a restart and every
\* poll included: what LockIsReleased needs beside it is that the thread runs.
THEOREM CriticalSectionsAreShort == Spec => HolderComesCloser
<1>1. ASSUME IInv, NEW t \in Threads, lock = t, OpStep(t)
      PROVE  lock' = NoThread \/ (lock' = t /\ Distance(t)' < Distance(t))
  BY <1>1, SMAssumption, StartComesCloser, StopComesCloser
  DEF OpStep, Sync, Check, Status, Entering
<1>2. ASSUME IInv, Next, NEW t \in Threads, lock = t, ~OpStep(t)
      PROVE  lock' = t /\ Distance(t)' = Distance(t)
  <2>1. pc[t] \in Critical /\ lock # NoThread
    BY <1>2, SMAssumption DEF IInv, LockInv
  <2>2. ASSUME NEW u \in Threads, OpStep(u)
        PROVE  FALSE
    BY <1>2, <2>1, <2>2, LockGuards DEF IInv, LockInv
  <2>3. ASSUME NEW u \in Threads, NEW o \in Ops, NEW c \in ConfigsOf(o), Call(u, o, c)
        PROVE  lock' = t /\ pc'[t] = pc[t] /\ polls' = polls
    BY <1>2, <2>1, <2>3 DEF Call, IInv, TypeOK, Critical
  <2>4. ASSUME NEW p \in Procs, ProcessExits(p)
        PROVE  lock' = t /\ pc'[t] = pc[t] /\ polls' = polls
    BY <1>2, <2>4 DEF ProcessExits, threadVars
  <2>5. lock' = t /\ pc'[t] = pc[t] /\ polls' = polls
    BY <1>2, <2>2, <2>3, <2>4 DEF Next
  <2> QED
    BY <2>5 DEF Distance
<1>3. IInv /\ [Next]_vars =>
        [\A t \in Threads : lock = t =>
            IF OpStep(t)
            THEN lock' = NoThread \/ (lock' = t /\ Distance(t)' < Distance(t))
            ELSE lock' = t /\ Distance(t)' = Distance(t)]_vars
  BY <1>1, <1>2
<1> QED
  BY <1>3, Invariance, PTL DEF Spec, HolderComesCloser

\* The second half of a restart is never turned away: not by "already running",
\* as the service is stopped, and not for want of a configuration.
RestartInv ==
    \A t \in Threads :
        /\ pc[t] # "idle" /\ op[t] = "restart" => cfg[t] \in Configs
        /\ pc[t] = "begin_start" => op[t] = "restart" /\ state = "stopped"

\* Neither a start or a sync of another thread between the two halves of a restart
\* nor the outcome of its stop keeps the second half from being tried.
THEOREM RestartsGoOn == Spec => []RestartInv
<1>1. Init => RestartInv
  BY DEF Init, RestartInv
<1>2. ASSUME IInv, RestartInv, Next
      PROVE  RestartInv'
  <2>0. /\ pc \in [Threads -> {"idle", "call"} \cup Critical]
        /\ op \in [Threads -> Ops \cup {"none"}]
        /\ cfg \in [Threads -> Configs \cup {NoConfig}]
    BY <1>2 DEF IInv, TypeOK
  <2>1. ASSUME NEW t \in Threads, OpStep(t)
        PROVE  RestartInv'
    <3>1. \A u \in Threads : pc[u] = "begin_start" => u = t
      BY <1>2, <2>1, LockGuards, SMAssumption DEF IInv, LockInv, Critical
    <3>2. /\ \/ Return(t)
             \/ op' = op /\ cfg' = cfg /\ \E l \in Critical : pc' = [pc EXCEPT ![t] = l]
          /\ pc'[t] = "begin_start" => op[t] = "restart" /\ state' = "stopped"
          /\ pc[t] # "idle"
      <4> USE <2>0 DEF Return, Continue, Critical, Entering, AtStart, AtStop
      <4>1. CASE StartStep(t)
        BY <4>1 DEF StartStep, StartRefused, StartExternal, StartBare, StartManaged,
           Adopt, SpawnLLM, SpawnLLMFails, Poll, PollUnanswered, PollAnswered, HealthGivesUp,
           HealthRaises
      <4>2. CASE StopNothing(t) \/ StopWithPid(t)
        BY <4>2 DEF StopNothing, StopWithPid
      <4>3. CASE StopWithoutPid(t) \/ PmStopReturns(t) \/ PmStopFails(t)
        BY <4>3 DEF StopWithoutPid, PmStopReturns, PmStopFails, Stopped
      <4>4. CASE Sync(t) \/ Check(t) \/ Status(t)
        BY <4>4 DEF Sync, Check, Status
      <4> QED
        BY <2>1, <4>1, <4>2, <4>3, <4>4 DEF OpStep, StopStep
    <3>3. ASSUME NEW u \in Threads, u # t
          PROVE  pc'[u] = pc[u] /\ op'[u] = op[u] /\ cfg'[u] = cfg[u]
      BY <2>0, <3>2, <3>3 DEF Return
    <3>4. pc'[t] = "idle" \/ (op'[t] = op[t] /\ cfg'[t] = cfg[t])
      BY <2>0, <3>2 DEF Return
    <3> QED
      BY <1>2, <3>1, <3>2, <3>3, <3>4 DEF RestartInv
  <2>2. ASSUME NEW t \in Threads, NEW o \in Ops, NEW c \in ConfigsOf(o), Call(t, o, c)
        PROVE  RestartInv'
    BY <1>2, <2>0, <2>2 DEF Call, ConfigsOf, runtimeVars, RestartInv
  <2>3. ASSUME NEW p \in Procs, ProcessExits(p)
        PROVE  RestartInv'
    BY <1>2, <2>3 DEF ProcessExits, threadVars, runtimeVars, RestartInv
  <2> QED
    BY <1>2, <2>1, <2>2, <2>3 DEF Next
<1>3. RestartInv /\ UNCHANGED vars => RestartInv'
  BY DEF RestartInv, vars, threadVars, runtimeVars
<1> QED
  BY <1>1, <1>2, <1>3, Invariance, PTL DEF Spec
=============================================================================
