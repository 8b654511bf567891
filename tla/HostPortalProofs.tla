-------------------------- MODULE HostPortalProofs --------------------------
(***************************************************************************)
(* Proofs about HostPortal, for any number of requests at once, any number *)
(* of processes and configurations.  The portal is first shown to make the *)
(* calls ServiceManager is specified for, so that what is proved of the    *)
(* service holds under it; the rest is about what the requests remember.   *)
(***************************************************************************)
EXTENDS HostPortal, ServiceManagerProofs

\* The types of what the requests keep; a request that goes on has settings.
RequestInv ==
    /\ saved \in Configs
    /\ request \in [Threads -> Requests \cup {"none"}]
    /\ at \in [Threads -> Calls \cup {"idle", "update", "send"}]
    /\ loaded \in [Threads -> Configs \cup {NoConfig}]
    /\ current \in [Threads -> BOOLEAN]
    /\ flagCurrent \in BOOLEAN
    /\ modeCurrent \in BOOLEAN
    /\ \A t \in Threads : at[t] # "idle" => loaded[t] \in Configs

\* A call inside ServiceManager belongs to a request that waits for it, and is
\* about the settings this request has loaded.
CallInv ==
    \A t \in Threads : pc[t] # "idle" =>
        /\ at[t] \in Calls
        /\ cfg[t] = IF op[t] \in {"stop", "status"} THEN NoConfig ELSE loaded[t]

CurrentInv == \A t \in Threads : current[t] => loaded[t] = saved

PInv == CallInv /\ CurrentInv /\ FlagFollowsSettings /\ ModeFollowsSettings

-----------------------------------------------------------------------------
(* The requests' own state *)

\* Going on, or being answered, keeps the types.
LEMMA ProceedKeeps ==
  ASSUME RequestInv, NEW t \in Threads, at[t] # "idle",
         NEW l \in Calls \cup {"idle", "update", "send"}, Proceed(t, l), saved' = saved,
         flagCurrent' \in BOOLEAN, modeCurrent' \in BOOLEAN
  PROVE  RequestInv'
<1>1. CASE l = "idle"
  <2>1. current' \in [Threads -> BOOLEAN]
    BY <1>1, Zenon DEF Proceed, RequestInv
  <2> QED
    BY <1>1, <2>1 DEF Proceed, RequestInv, Calls
<1>2. CASE l # "idle"
  BY <1>2 DEF Proceed, RequestInv
<1> QED
  BY <1>1, <1>2

LEMMA AfterCallType ==
  ASSUME NEW t \in Threads
  PROVE  AfterCall(t) \in Calls \cup {"idle", "update", "send"}
  BY DEF AfterCall, Calls

\* A step of a call leaves the threads that do not take it alone, and goes on
\* in its own call or returns.
LEMMA OpShape ==
  ASSUME TypeOK, NEW t \in Threads, OpStep(t)
  PROVE  /\ pc[t] # "idle"
         /\ pc'[t] = "idle" \/ (op'[t] = op[t] /\ cfg'[t] = cfg[t])
         /\ \A u \in Threads \ {t} : pc'[u] = pc[u] /\ op'[u] = op[u] /\ cfg'[u] = cfg[u]
<1> USE DEF TypeOK, Return, Continue, Entering, AtStart, AtStop, Stopped
<1>1. CASE StartStep(t)
  BY <1>1 DEF StartStep, StartRefused, StartExternal, StartBare, StartManaged,
     Adopt, SpawnLLM, SpawnLLMFails, Poll, PollUnanswered, PollAnswered, HealthGivesUp,
     HealthRaises
<1>2. CASE StopStep(t)
  BY <1>2 DEF StopStep, StopNothing, StopWithoutPid, StopWithPid, PmStopReturns, PmStopFails
<1>3. CASE Sync(t) \/ Check(t) \/ Status(t)
  BY <1>3 DEF Sync, Check, Status
<1> QED
  BY <1>1, <1>2, <1>3 DEF OpStep

\* What the three histories become is a truth value.
LEMMA HistoryType ==
  ASSUME RequestInv, NEW t \in Threads, ServiceStep(t)
  PROVE  flagCurrent' \in BOOLEAN /\ modeCurrent' \in BOOLEAN
<1>1. current[t] \in BOOLEAN /\ flagCurrent \in BOOLEAN /\ modeCurrent \in BOOLEAN
  BY Zenon DEF RequestInv
<1>2. flagCurrent' = current[t] \/ flagCurrent' = flagCurrent
  BY Zenon DEF ServiceStep
<1>3. modeCurrent' = current[t] \/ modeCurrent' = modeCurrent
  BY Zenon DEF ServiceStep
<1> QED
  BY ONLY <1>1, <1>2, <1>3, Zenon

LEMMA ServeKeepsRequestInv ==
  ASSUME RequestInv, TypeOK, CallInv, NEW t \in Threads, Serve(t)
  PROVE  RequestInv'
<1>1. CASE StoreRaises(t)
  BY <1>1, ProceedKeeps DEF StoreRaises, RequestInv
<1>2. CASE CallService(t)
  BY <1>2 DEF CallService, portalVars, requestVars, RequestInv
<1>3. CASE ServiceStep(t)
  <2>1. at[t] # "idle"
    BY <1>3, OpShape DEF ServiceStep, CallInv, Calls
  <2>2. flagCurrent' \in BOOLEAN /\ modeCurrent' \in BOOLEAN /\ saved' = saved
    BY <1>3, HistoryType DEF ServiceStep
  <2>3. CASE pc'[t] = "idle"
    BY <1>3, <2>1, <2>2, <2>3, AfterCallType, ProceedKeeps DEF ServiceStep
  <2>4. CASE pc'[t] # "idle"
    BY <1>3, <2>2, <2>4 DEF ServiceStep, requestVars, RequestInv
  <2> QED
    BY <2>3, <2>4
<1>4. CASE Send(t)
  BY <1>4, ProceedKeeps DEF Send, RequestInv
<1>5. ASSUME NEW c \in Configs, Update(t, c) PROVE RequestInv'
  <2>1. current' \in [Threads -> BOOLEAN] /\ flagCurrent' \in BOOLEAN /\ modeCurrent' \in BOOLEAN
    BY <1>5, Zenon DEF Update, Replace
  <2> QED
    BY <1>5, <2>1 DEF Update, Replace, RequestInv, Calls
<1> QED
  BY <1>1, <1>2, <1>3, <1>4, <1>5 DEF Serve

LEMMA ArriveKeepsRequestInv ==
  ASSUME RequestInv, NEW t \in Threads, NEW r \in Requests, Arrive(t, r)
  PROVE  RequestInv'
<1>1. current' \in [Threads -> BOOLEAN] /\ flagCurrent' \in BOOLEAN /\ modeCurrent' \in BOOLEAN
  BY Zenon DEF Arrive, RequestInv
<1>2. AfterLoad(r) \in Calls \cup {"idle", "update", "send"}
  BY DEF AfterLoad, Requests, Calls
<1> QED
  BY <1>1, <1>2 DEF Arrive, RequestInv

-----------------------------------------------------------------------------
(* The portal makes the calls ServiceManager is specified for *)

\* A request calls an operation with settings it has loaded.
LEMMA CallIsACall ==
  ASSUME RequestInv, NEW t \in Threads, CallService(t)
  PROVE  \E o \in Ops : \E c \in ConfigsOf(o) : Call(t, o, c)
<1>1. CASE at[t] \in {"status", "state"} /\ Call(t, "status", NoConfig)
  BY <1>1 DEF Ops, ConfigsOf
<1>2. CASE at[t] = "stop" /\ Call(t, "stop", NoConfig)
  BY <1>2 DEF Ops, ConfigsOf
<1>3. CASE at[t] \in {"sync", "check", "start", "restart"} /\ Call(t, at[t], loaded[t])
  <2>1. loaded[t] \in Configs
    BY <1>3 DEF RequestInv
  <2>2. at[t] \in Ops /\ loaded[t] \in ConfigsOf(at[t])
    BY <1>3, <2>1 DEF Ops, ConfigsOf
  <2> QED
    BY <1>3, <2>2
<1> QED
  BY <1>1, <1>2, <1>3 DEF CallService

\* Every step of the portal is a step of the service's callers, or none.
LEMMA PortalStep ==
  ASSUME RequestInv, [PortalNext]_allVars
  PROVE  [Next]_vars
<1>1. ASSUME NEW t \in Threads, Serve(t) PROVE [Next]_vars
  <2>1. CASE StoreRaises(t) \/ Send(t) \/ \E c \in Configs : Update(t, c)
    BY <2>1 DEF StoreRaises, Send, Update
  <2>2. CASE CallService(t)
    BY <2>2, CallIsACall DEF Next
  <2>3. CASE ServiceStep(t)
    BY <2>3 DEF ServiceStep, Next
  <2> QED
    BY <1>1, <2>1, <2>2, <2>3 DEF Serve
<1>2. ASSUME NEW t \in Threads, NEW r \in Served, Arrive(t, r) PROVE [Next]_vars
  BY <1>2 DEF Arrive
<1>3. ASSUME NEW p \in Procs, Exits(p) PROVE [Next]_vars
  BY <1>3 DEF Exits, Next
<1>4. CASE UNCHANGED allVars
  BY <1>4 DEF allVars
<1> QED
  BY <1>1, <1>2, <1>3, <1>4 DEF PortalNext

LEMMA RequestInvInit ==
  ASSUME PortalInit
  PROVE  RequestInv
<1>1. current \in [Threads -> BOOLEAN] /\ flagCurrent \in BOOLEAN /\ modeCurrent \in BOOLEAN
  BY Zenon DEF PortalInit
<1> QED
  BY <1>1 DEF PortalInit, RequestInv

-----------------------------------------------------------------------------
(* What the requests remember *)

LEMMA PInvInit ==
  ASSUME PortalInit
  PROVE  PInv
  BY DEF PortalInit, Init, PInv, CallInv, CurrentInv, FlagFollowsSettings, ModeFollowsSettings

\* A call that is made is about what the request has loaded.
LEMMA ServeKeepsCallInv ==
  ASSUME IInv, RequestInv, CallInv, NEW t \in Threads, Serve(t)
  PROVE  CallInv'
<1> USE DEF CallInv
<1>1. CASE StoreRaises(t) \/ Send(t)
  BY <1>1 DEF StoreRaises, Send, Proceed, RequestInv, vars, threadVars, Calls
<1>2. CASE CallService(t)
  BY <1>2 DEF CallService, Call, portalVars, requestVars, Calls, RequestInv, IInv, TypeOK
<1>3. CASE ServiceStep(t)
  <2>1. TypeOK /\ OpStep(t)
    BY <1>3 DEF ServiceStep, IInv
  <2>2. /\ pc[t] # "idle"
        /\ pc'[t] = "idle" \/ (op'[t] = op[t] /\ cfg'[t] = cfg[t])
        /\ \A u \in Threads \ {t} : pc'[u] = pc[u] /\ op'[u] = op[u] /\ cfg'[u] = cfg[u]
    BY <2>1, OpShape
  <2>3. CASE pc'[t] = "idle"
    <3>1. \A u \in Threads \ {t} : at'[u] = at[u] /\ loaded'[u] = loaded[u]
      BY <1>3, <2>3 DEF ServiceStep, Proceed, RequestInv
    <3> QED
      BY <2>2, <2>3, <3>1
  <2>4. CASE pc'[t] # "idle"
    BY <1>3, <2>2, <2>4 DEF ServiceStep, requestVars
  <2> QED
    BY <2>3, <2>4
<1>4. ASSUME NEW c \in Configs, Update(t, c) PROVE CallInv'
  BY <1>4 DEF Update, RequestInv, vars, threadVars, Calls
<1> QED
  BY <1>1, <1>2, <1>3, <1>4 DEF Serve

LEMMA ServeKeepsCurrentInv ==
  ASSUME RequestInv, CurrentInv, NEW t \in Threads, Serve(t)
  PROVE  CurrentInv'
<1> USE DEF CurrentInv, RequestInv
<1>1. CASE StoreRaises(t) \/ Send(t)
  BY <1>1 DEF StoreRaises, Send, Proceed
<1>2. CASE CallService(t)
  BY <1>2 DEF CallService, portalVars, requestVars
<1>3. CASE ServiceStep(t)
  BY <1>3 DEF ServiceStep, Proceed, requestVars
<1>4. ASSUME NEW c \in Configs, Update(t, c) PROVE CurrentInv'
  BY <1>4 DEF Update, Replace
<1> QED
  BY <1>1, <1>2, <1>3, <1>4 DEF Serve

-----------------------------------------------------------------------------
(* The flag and the mode *)

\* Without a comparison, a service that is healthy and running has been so, with
\* the same flag and the same process.
LEMMA FlagUntouched ==
  ASSUME IInv, NEW t \in Threads, OpStep(t), ~Sync(t), ~Check(t), ~PollAnswered(t),
         healthy', state' = "running"
  PROVE  /\ healthy /\ state = "running"
         /\ restartRequired' <=> restartRequired
         /\ ranWith'[pid'] = ranWith[pid]
<1> USE DEF IInv, HolderInv, HealthyMeansApplied, Starting, runtimeVars, processVars
<1>0. CASE StartRefused(t)
  BY ONLY <1>0, healthy', state' = "running", Zenon DEF StartRefused, runtimeVars, processVars
<1>1. CASE StartExternal(t) \/ StartBare(t) \/ StartManaged(t)
  BY <1>1 DEF StartExternal, StartBare, StartManaged
<1>2. CASE Adopt(t) \/ SpawnLLM(t) \/ SpawnLLMFails(t)
  BY <1>2 DEF Adopt, SpawnLLM, SpawnLLMFails
<1>3. CASE Poll(t) \/ PollUnanswered(t) \/ HealthGivesUp(t) \/ HealthRaises(t)
  BY <1>3 DEF Poll, PollUnanswered, HealthGivesUp, HealthRaises
<1>4. CASE StopStep(t)
  BY <1>4 DEF StopStep, StopNothing, StopWithoutPid, StopWithPid, PmStopReturns,
     PmStopFails, Stopped
<1>5. CASE Status(t)
  BY <1>5 DEF Status
<1> QED
  BY <1>0, <1>1, <1>2, <1>3, <1>4, <1>5 DEF OpStep, StartStep

\* A comparison by a request whose settings are the saved ones is right.
LEMMA ComparedIsRight ==
  ASSUME IInv, CallInv, CurrentInv, NEW t \in Threads, current[t],
         Sync(t) \/ Check(t) \/ PollAnswered(t), saved' = saved
  PROVE  FlagIsRight'
<1> SUFFICES ASSUME healthy', state' = "running"
             PROVE  restartRequired' <=> saved # ranWith'[pid']
  BY DEF FlagIsRight
<1>1. loaded[t] = saved
  BY DEF CurrentInv
<1>2. CASE Sync(t) \/ Check(t)
  <2>1. healthy /\ state = "running" /\ pid' = pid /\ ranWith' = ranWith
    BY <1>2 DEF Sync, Check, IInv, HealthyMeansApplied, processVars
  <2>2. cfg[t] = saved
    BY <1>1, <1>2 DEF Sync, Check, Entering, CallInv
  <2>3. restartRequired' <=> Drifted(cfg[t])
    BY <1>2, <2>1 DEF Sync, Check
  <2> QED
    BY <2>1, <2>2, <2>3 DEF Drifted, IInv, HealthyMeansApplied
<1>3. CASE PollAnswered(t)
  <2>1. cfg[t] \in ReadyConfigs /\ ranWith[pid] = cfg[t]
    BY <1>3 DEF PollAnswered, IInv, HolderInv, Starting
  <2>2. cfg[t] = saved
    BY <1>1, <1>3, <2>1, SMAssumption DEF PollAnswered, CallInv, Configs
  <2> QED
    BY <1>3, <2>1, <2>2 DEF PollAnswered, processVars
<1> QED
  BY <1>2, <1>3

\* Without a sync or a start, the service neither becomes external nor ceases
\* to be.
LEMMA ModeUntouched ==
  ASSUME IInv, NEW t \in Threads, OpStep(t), ~Sync(t), ~Begins(t)
  PROVE  state' = "external" <=> state = "external"
<1> USE DEF IInv, HolderInv, Starting, runtimeVars
<1>1. CASE StartRefused(t) \/ Adopt(t) \/ SpawnLLM(t) \/ SpawnLLMFails(t)
  BY <1>1 DEF StartRefused, Adopt, SpawnLLM, SpawnLLMFails
<1>2. CASE Poll(t) \/ PollUnanswered(t) \/ PollAnswered(t) \/ HealthGivesUp(t)
           \/ HealthRaises(t)
  BY <1>2 DEF Poll, PollUnanswered, PollAnswered, HealthGivesUp, HealthRaises
<1>3. CASE StopStep(t)
  BY <1>3 DEF StopStep, StopNothing, StopWithoutPid, StopWithPid, PmStopReturns,
     PmStopFails, Stopped, AtStop
<1>4. CASE Check(t) \/ Status(t)
  BY <1>4 DEF Check, Status
<1> QED
  BY <1>1, <1>2, <1>3, <1>4 DEF OpStep, StartStep, Begins

\* A sync or a start by a request whose settings are the saved ones is right.
LEMMA SyncedIsRight ==
  ASSUME IInv, CallInv, CurrentInv, NEW t \in Threads, current[t],
         Sync(t) \/ Begins(t), saved' = saved
  PROVE  ModeIsRight'
<1>1. loaded[t] = saved
  BY DEF CurrentInv
<1>2. CASE Sync(t)
  <2>1. cfg[t] = saved
    BY <1>1, <1>2 DEF Sync, Entering, CallInv
  <2> QED
    BY <1>2, <2>1 DEF Sync, ModeIsRight
<1>3. CASE Begins(t)
  <2>1. pc[t] # "idle" /\ cfg[t] # NoConfig
    BY <1>3, SMAssumption
    DEF Begins, StartExternal, StartBare, StartManaged, AtStart, Entering, Configs
  <2>2. cfg[t] = saved
    BY <1>1, <2>1 DEF CallInv
  <2> QED
    BY <1>3, <2>2, SMAssumption
    DEF Begins, StartExternal, StartBare, StartManaged, ModeIsRight
<1> QED
  BY <1>2, <1>3

LEMMA ServeKeepsFlagAndMode ==
  ASSUME IInv, RequestInv, PInv, NEW t \in Threads, Serve(t)
  PROVE  FlagFollowsSettings' /\ ModeFollowsSettings'
<1> USE DEF PInv
<1>1. CASE StoreRaises(t) \/ CallService(t) \/ Send(t)
  BY <1>1 DEF StoreRaises, CallService, Send, Call, vars, runtimeVars, processVars,
     portalVars, FlagFollowsSettings, ModeFollowsSettings, FlagIsRight, ModeIsRight
<1>2. CASE ServiceStep(t)
  <2>1. OpStep(t) /\ saved' = saved
    BY <1>2 DEF ServiceStep
  <2>2. FlagFollowsSettings'
    <3>1. CASE Sync(t) \/ Check(t) \/ PollAnswered(t)
      <4>1. flagCurrent' = current[t]
        BY <1>2, <3>1, Zenon DEF ServiceStep
      <4> QED
        BY <2>1, <3>1, <4>1, ComparedIsRight DEF FlagFollowsSettings
    <3>2. CASE ~Sync(t) /\ ~Check(t) /\ ~PollAnswered(t)
      <4>1. flagCurrent' = flagCurrent
        BY <1>2, <3>2, Zenon DEF ServiceStep
      <4> QED
        BY <2>1, <3>2, <4>1, FlagUntouched DEF FlagFollowsSettings, FlagIsRight
    <3> QED
      BY <3>1, <3>2
  <2>3. ModeFollowsSettings'
    <3>1. CASE Sync(t) \/ Begins(t)
      <4>1. modeCurrent' = current[t]
        BY <1>2, <3>1, Zenon DEF ServiceStep
      <4> QED
        BY <2>1, <3>1, <4>1, SyncedIsRight DEF ModeFollowsSettings
    <3>2. CASE ~Sync(t) /\ ~Begins(t)
      <4>1. modeCurrent' = modeCurrent
        BY <1>2, <3>2, Zenon DEF ServiceStep
      <4> QED
        BY <2>1, <3>2, <4>1, ModeUntouched DEF ModeFollowsSettings, ModeIsRight
    <3> QED
      BY <3>1, <3>2
  <2> QED
    BY <2>2, <2>3
<1>3. ASSUME NEW c \in Configs, Update(t, c)
      PROVE  FlagFollowsSettings' /\ ModeFollowsSettings'
  BY <1>3 DEF Update, Replace, FlagFollowsSettings, ModeFollowsSettings
<1> QED
  BY <1>1, <1>2, <1>3 DEF Serve

\* Neither a new request nor the end of a process disturbs any of it.
LEMMA OthersKeepPInv ==
  ASSUME RequestInv, PInv,
         \/ \E t \in Threads, r \in Served : Arrive(t, r)
         \/ \E p \in Procs : Exits(p)
         \/ UNCHANGED allVars
  PROVE  PInv'
<1> USE DEF PInv, CallInv, CurrentInv, FlagFollowsSettings, ModeFollowsSettings,
            FlagIsRight, ModeIsRight, vars, threadVars, runtimeVars, processVars
<1>1. ASSUME NEW t \in Threads, NEW r \in Served, Arrive(t, r) PROVE PInv'
  BY <1>1 DEF Arrive, RequestInv, Calls
<1>2. ASSUME NEW p \in Procs, Exits(p) PROVE PInv'
  BY <1>2 DEF Exits, ProcessExits, portalVars, requestVars
<1>3. CASE UNCHANGED allVars
  BY <1>3 DEF allVars, portalVars, requestVars
<1> QED
  BY <1>1, <1>2, <1>3

-----------------------------------------------------------------------------
(* Theorems *)

LEMMA RequestInvKept ==
  ASSUME RequestInv, TypeOK, CallInv, [PortalNext]_allVars
  PROVE  RequestInv'
<1>1. ASSUME NEW p \in Procs, Exits(p) PROVE RequestInv'
  BY <1>1 DEF Exits, RequestInv, portalVars, requestVars
<1>2. CASE UNCHANGED allVars
  BY <1>2 DEF allVars, RequestInv, portalVars, requestVars
<1> QED
  BY <1>1, <1>2, ServeKeepsRequestInv, ArriveKeepsRequestInv, PortalAssumption DEF PortalNext

\* The inductive invariant: the service's own, the types of what the requests
\* keep, and what they remember of the settings.
THEOREM PortalInvariance == PortalSpec => [](IInv /\ RequestInv /\ PInv)
<1>1. PortalInit => IInv /\ RequestInv /\ PInv
  BY InitIInv, RequestInvInit, PInvInit DEF PortalInit
<1>2. IInv /\ RequestInv /\ PInv /\ [PortalNext]_allVars => (IInv /\ RequestInv /\ PInv)'
  <2> SUFFICES ASSUME IInv, RequestInv, PInv, [PortalNext]_allVars
               PROVE  IInv' /\ RequestInv' /\ PInv'
    OBVIOUS
  <2>1. IInv'
    BY PortalStep, NextKeeps
  <2>2. RequestInv'
    BY RequestInvKept DEF IInv, PInv
  <2>3. PInv'
    BY ServeKeepsCallInv, ServeKeepsCurrentInv, ServeKeepsFlagAndMode, OthersKeepPInv
    DEF PortalNext, PInv
  <2> QED
    BY <2>1, <2>2, <2>3
<1> QED
  BY <1>1, <1>2, PTL DEF PortalSpec

\* Whatever the requests do, they call the service as its specification has
\* it: all that is proved of ServiceManager holds under the portal.
THEOREM PortalUsesService == PortalSpec => Spec
<1>1. PortalInit => Init
  BY DEF PortalInit
<1>2. RequestInv /\ [PortalNext]_allVars => [Next]_vars
  BY PortalStep
<1> QED
  BY <1>1, <1>2, PortalInvariance, PTL DEF PortalSpec, Spec

\* Type correctness, for every number of requests at once.
THEOREM PortalTypeCorrect == PortalSpec => []PortalTypeOK
<1>1. IInv /\ RequestInv => PortalTypeOK
  BY DEF IInv, RequestInv, PortalTypeOK
<1> QED
  BY <1>1, PortalInvariance, PTL

\* The restart flag tells the truth about the saved settings until somebody
\* saves after they were loaded for the last comparison.
THEOREM FlagIsTruthful == PortalSpec => []FlagFollowsSettings
  BY PortalInvariance, PTL DEF PInv

\* So does the service's being external.
THEOREM ModeIsTruthful == PortalSpec => []ModeFollowsSettings
  BY PortalInvariance, PTL DEF PInv

\* An evaluation is admitted by a service that is external or shows a tracked
\* process, and that is of the mode of the settings it was admitted with, unless
\* somebody saved after these, or those of the last sync or start, were loaded.
THEOREM AdmissionIsSound == PortalSpec => AdmittedIsServed
<1>1. ASSUME IInv, RequestInv, PInv, PortalNext, NEW t \in Threads,
             at[t] = "state", at'[t] = "send"
      PROVE  /\ \/ state = "external"
                \/ state = "running" /\ pid # NoProc /\ pid = Tracked
             /\ current[t] /\ modeCurrent =>
                 (state = "external" <=> loaded[t] \in ExternalConfigs)
  <2>1. PICK u \in Threads : ServiceStep(u)
    BY <1>1 DEF PortalNext, Serve, Arrive, StoreRaises, Proceed, CallService, Update, Send,
       Exits, portalVars, requestVars, RequestInv
  <2>2. u = t /\ AfterCall(t) = "send"
    BY <1>1, <2>1 DEF ServiceStep, Proceed, requestVars, RequestInv
  <2>3. state \in {"running", "external"}
    BY <1>1, <2>2 DEF AfterCall, Up
  <2>4. state = "running" => pid # NoProc /\ pid = Tracked
    BY <1>1 DEF IInv, PidIsTracked
  <2>5. current[t] /\ modeCurrent => (state = "external" <=> loaded[t] \in ExternalConfigs)
    BY <1>1 DEF PInv, CurrentInv, ModeFollowsSettings, ModeIsRight
  <2> QED
    BY <2>3, <2>4, <2>5
<1>2. IInv /\ RequestInv /\ PInv /\ [PortalNext]_allVars =>
        [\A t \in Threads : at[t] = "state" /\ at'[t] = "send" =>
            /\ \/ state = "external"
               \/ state = "running" /\ pid # NoProc /\ pid = Tracked
            /\ current[t] /\ modeCurrent =>
                (state = "external" <=> loaded[t] \in ExternalConfigs)]_allVars
  BY <1>1
<1> QED
  BY <1>2, PortalInvariance, PTL DEF AdmittedIsServed, PortalSpec
=============================================================================
