----------------------------- MODULE SamService -----------------------------
(***************************************************************************)
(* The in-process SAM service: ServiceManager's path for it, the           *)
(* SAMRuntime below that and the Sam3ServerHelper singleton that keeps the *)
(* model, with the requests that are evaluated against them.               *)
(*                                                                         *)
(* Everything happens under the service's lock, so SAMRuntime's own two    *)
(* locks never decide anything.  An evaluation takes the lock three times: *)
(* to sync, to read the status, and to predict.  Only loading a model and  *)
(* predicting take long; every other critical section is one step.         *)
(***************************************************************************)
CONSTANTS
    Threads, NoThread,
    Weights,             \* a managed configuration is its weights path
    NoWeights,           \* managed, no weights path configured
    External             \* service_mode "external"

Configs == Weights \cup {NoWeights, External}

None == "none"

ASSUME SamAssumption ==
    /\ NoThread \notin Threads
    /\ NoWeights \notin Weights
    /\ External \notin Weights
    /\ NoWeights # External
    /\ None \notin Weights

VARIABLES
    lock,              \* the service's lock
    pc, op, cfg,       \* each thread: where it is, in which call, with what
    result,            \* what its last evaluation answered
    state, healthy, restartRequired, appliedConfig,  \* ServiceRuntime
    rtState,           \* SAMRuntime._state, None before there is a runtime
    helper,            \* the weights SAMRuntime._helper was made with
    appliedWeights,    \* SAMRuntime._applied_weights_path
    model              \* _singleton_model: the weights it was loaded from

threadVars == <<lock, pc, op, cfg, result>>
serviceVars == <<state, healthy, restartRequired, appliedConfig>>
runtimeVars == <<rtState, helper, appliedWeights, model>>
vars == <<threadVars, serviceVars, runtimeVars>>

Ops == {"start", "stop", "restart", "sync", "check", "status", "evaluate"}

ConfigsOf(o) == IF o \in {"stop", "status"} THEN {None} ELSE Configs

\* Where a thread is inside "with lock" across steps
Critical == {"begin_start", "loading", "predicting"}

TypeOK ==
    /\ lock \in Threads \cup {NoThread}
    /\ pc \in [Threads -> {"idle", "call", "eval_status", "eval_predict", "forward"}
                          \cup Critical]
    /\ op \in [Threads -> Ops \cup {None}]
    /\ cfg \in [Threads -> Configs \cup {None}]
    /\ result \in [Threads -> {None, "ok", "not_running", "service_error", "bad_gateway"}]
    /\ state \in {"stopped", "starting", "running", "failed", "external"}
    /\ healthy \in BOOLEAN
    /\ restartRequired \in BOOLEAN
    /\ appliedConfig \in Weights \cup {None}
    /\ rtState \in {None, "stopped", "starting", "running", "failed", "external"}
    /\ helper \in Weights \cup {None}
    /\ appliedWeights \in Weights \cup {None}
    /\ model \in Weights \cup {None}

Init ==
    /\ lock = NoThread
    /\ pc = [t \in Threads |-> "idle"]
    /\ op = [t \in Threads |-> None]
    /\ cfg = [t \in Threads |-> None]
    /\ result = [t \in Threads |-> None]
    /\ state = "stopped"
    /\ healthy = FALSE
    /\ restartRequired = FALSE
    /\ appliedConfig = None
    /\ rtState = None
    /\ helper = None
    /\ appliedWeights = None
    /\ model = None

Drifted(c) == appliedConfig # None /\ c # appliedConfig

-----------------------------------------------------------------------------
(* Calls and returns *)

Call(t, o, c) ==
    /\ pc[t] = "idle"
    /\ pc' = [pc EXCEPT ![t] = "call"]
    /\ op' = [op EXCEPT ![t] = o]
    /\ cfg' = [cfg EXCEPT ![t] = c]
    /\ result' = [result EXCEPT ![t] = None]
    /\ UNCHANGED <<lock, serviceVars, runtimeVars>>

Answer(t, r) ==
    /\ pc' = [pc EXCEPT ![t] = "idle"]
    /\ op' = [op EXCEPT ![t] = None]
    /\ cfg' = [cfg EXCEPT ![t] = None]
    /\ result' = [result EXCEPT ![t] = r]

Return(t) == Answer(t, None)

At(t, l) == pc' = [pc EXCEPT ![t] = l] /\ UNCHANGED <<op, cfg, result>>

Entering(t, ops) ==
    /\ pc[t] = "call"
    /\ op[t] \in ops
    /\ lock = NoThread

-----------------------------------------------------------------------------
(* start and restart *)

\* The critical section begins here, or in the stop that a restart made.
AtStart(t) ==
    \/ Entering(t, {"start"})
    \/ Entering(t, {"restart"}) /\ state \in {"stopped", "failed", "external"}
    \/ pc[t] = "begin_start" /\ lock = t

StartRefused(t) ==
    /\ AtStart(t)
    /\ state = "running"
    /\ lock' = NoThread
    /\ Return(t)
    /\ UNCHANGED <<serviceVars, runtimeVars>>

StartExternal(t) ==
    /\ AtStart(t)
    /\ state # "running"
    /\ cfg[t] = External
    /\ state' = "external"
    /\ healthy' = FALSE
    /\ lock' = NoThread
    /\ Return(t)
    /\ UNCHANGED <<restartRequired, appliedConfig, runtimeVars>>

\* Mutant of StartBare: the refused configuration is recorded as applied.
StartBareApplied(t) ==
    /\ AtStart(t)
    /\ state # "running"
    /\ cfg[t] = NoWeights
    /\ state' = "failed"
    /\ appliedConfig' = cfg[t]
    /\ lock' = NoThread
    /\ Return(t)
    /\ UNCHANGED <<healthy, restartRequired, runtimeVars>>

StartBare(t) ==
    /\ AtStart(t)
    /\ state # "running"
    /\ cfg[t] = NoWeights
    /\ state' = "failed"
    /\ lock' = NoThread
    /\ Return(t)
    /\ UNCHANGED <<healthy, restartRequired, appliedConfig, runtimeVars>>

\* Mutant of StartManaged: SAMRuntime.start does not reset the singleton.
StartManagedUnreset(t) ==
    /\ AtStart(t)
    /\ state # "running"
    /\ cfg[t] \in Weights
    /\ state' = "starting"
    /\ rtState' = "starting"
    /\ lock' = t
    /\ At(t, "loading")
    /\ UNCHANGED <<healthy, restartRequired, appliedConfig, helper, appliedWeights, model>>

\* SAMRuntime.start gets as far as resetting the singleton.  It would refuse
\* a runtime that is running: LoadMeetsNoModel is why it never does.
StartManaged(t) ==
    /\ AtStart(t)
    /\ state # "running"
    /\ cfg[t] \in Weights
    /\ state' = "starting"
    /\ rtState' = "starting"
    /\ model' = None
    /\ lock' = t
    /\ At(t, "loading")
    /\ UNCHANGED <<healthy, restartRequired, appliedConfig, helper, appliedWeights>>

Running(t) ==
    /\ rtState' = "running"
    /\ helper' = cfg[t]
    /\ appliedWeights' = cfg[t]
    /\ state' = "running"
    /\ healthy' = TRUE
    /\ restartRequired' = FALSE
    /\ appliedConfig' = cfg[t]
    /\ lock' = NoThread
    /\ Return(t)

\* initialize() would reuse a model that is already there.
LoadModel(t) ==
    /\ pc[t] = "loading"
    /\ model' = IF model # None THEN model ELSE cfg[t]
    /\ Running(t)

\* ultralytics is not installed: the helper gets a mock that finds nothing.
LoadMock(t) ==
    /\ pc[t] = "loading"
    /\ model = None
    /\ UNCHANGED model
    /\ Running(t)

LoadFails(t) ==
    /\ pc[t] = "loading"
    /\ rtState' = "failed"
    /\ state' = "failed"
    /\ healthy' = FALSE
    /\ lock' = NoThread
    /\ Return(t)
    /\ UNCHANGED <<restartRequired, appliedConfig, helper, appliedWeights, model>>

-----------------------------------------------------------------------------
(* stop, and the first half of restart *)

StopNothing(t) ==
    /\ Entering(t, {"stop"})
    /\ state \in {"stopped", "external"}
    /\ Return(t)
    /\ UNCHANGED <<lock, serviceVars, runtimeVars>>

\* Mutant of RuntimeStops: the helper is dropped, the singleton not reset.
RuntimeStopsUnreset ==
    IF rtState \in {None, "stopped", "external"} THEN UNCHANGED runtimeVars
    ELSE /\ rtState' = "stopped"
         /\ appliedWeights' = None
         /\ helper' = None
         /\ UNCHANGED model

\* SAMRuntime.stop: only a runtime that has a helper resets the singleton.
RuntimeStops ==
    IF rtState \in {None, "stopped", "external"} THEN UNCHANGED runtimeVars
    ELSE /\ rtState' = "stopped"
         /\ appliedWeights' = None
         /\ helper' = None
         /\ model' = IF helper # None THEN None ELSE model

Stop(t) ==
    /\ \/ Entering(t, {"stop"}) /\ state \notin {"stopped", "external"}
       \/ Entering(t, {"restart"}) /\ state \notin {"stopped", "failed", "external"}
    /\ RuntimeStops
    /\ state' = "stopped"
    /\ healthy' = FALSE
    /\ appliedConfig' = None
    /\ IF op[t] = "restart"
       THEN lock' = t /\ At(t, "begin_start")
       ELSE Return(t) /\ UNCHANGED lock
    /\ UNCHANGED restartRequired

-----------------------------------------------------------------------------
(* sync_configuration, check_restart_required and status *)

\* Mutant of SyncEffect: the runtime is not told of the external mode.
SyncServiceOnly(c) ==
    /\ state' = IF c = External THEN "external"
                ELSE IF state = "external" THEN "stopped" ELSE state
    /\ healthy' = (healthy /\ c # External)
    /\ restartRequired' = IF state' = "running" THEN Drifted(c) ELSE restartRequired
    /\ UNCHANGED <<appliedConfig, runtimeVars>>

\* mark_external drops the helper, but the singleton keeps the model.
SyncEffect(c) ==
    /\ state' = IF c = External THEN "external"
                ELSE IF state = "external" THEN "stopped" ELSE state
    /\ healthy' = (healthy /\ c # External)
    /\ restartRequired' = IF state' = "running" THEN Drifted(c) ELSE restartRequired
    /\ IF c = External /\ rtState # None
       THEN rtState' = "external" /\ helper' = None
       ELSE UNCHANGED <<rtState, helper>>
    /\ UNCHANGED <<appliedConfig, appliedWeights, model>>

Sync(t) ==
    /\ Entering(t, {"sync"})
    /\ SyncEffect(cfg[t])
    /\ Return(t)
    /\ UNCHANGED lock

Check(t) ==
    /\ Entering(t, {"check"})
    /\ restartRequired' = (state = "running" /\ Drifted(cfg[t]))
    /\ Return(t)
    /\ UNCHANGED <<lock, state, healthy, appliedConfig, runtimeVars>>

Status(t) ==
    /\ Entering(t, {"status"})
    /\ Return(t)
    /\ UNCHANGED <<lock, serviceVars, runtimeVars>>

-----------------------------------------------------------------------------
(* evaluate_host_sam3 *)

EvalSync(t) ==
    /\ Entering(t, {"evaluate"})
    /\ SyncEffect(cfg[t])
    /\ At(t, "eval_status")
    /\ UNCHANGED lock

EvalStatus(t) ==
    /\ pc[t] = "eval_status"
    /\ lock = NoThread
    /\ IF state = "running" THEN At(t, "eval_predict")
       ELSE IF state = "external" THEN At(t, "forward")
       ELSE Answer(t, "not_running")
    /\ UNCHANGED <<lock, serviceVars, runtimeVars>>

\* External: the frame goes to base_url, with no lock held.
Forward(t) ==
    /\ pc[t] = "forward"
    /\ \E r \in {"ok", "bad_gateway"} : Answer(t, r)
    /\ UNCHANGED <<lock, serviceVars, runtimeVars>>

\* Mutant of EvalPredict: the runtime's own state is not looked at.
EvalPredictUnchecked(t) ==
    /\ pc[t] = "eval_predict"
    /\ lock = NoThread
    /\ lock' = t
    /\ At(t, "predicting")
    /\ UNCHANGED <<serviceVars, runtimeVars>>

\* The status is of an earlier moment: SAMRuntime.predict looks again.
EvalPredict(t) ==
    /\ pc[t] = "eval_predict"
    /\ lock = NoThread
    /\ rtState = "running" /\ helper # None
    /\ lock' = t
    /\ At(t, "predicting")
    /\ UNCHANGED <<serviceVars, runtimeVars>>

EvalPredictRefused(t) ==
    /\ pc[t] = "eval_predict"
    /\ lock = NoThread
    /\ ~(rtState = "running" /\ helper # None)
    /\ Answer(t, "service_error")
    /\ UNCHANGED <<lock, serviceVars, runtimeVars>>

\* The model returns its masks, or raises.
Predicted(t) ==
    /\ pc[t] = "predicting"
    /\ lock' = NoThread
    /\ \E r \in {"ok", "service_error"} : Answer(t, r)
    /\ UNCHANGED <<serviceVars, runtimeVars>>

-----------------------------------------------------------------------------
Start(t) == StartRefused(t) \/ StartExternal(t) \/ StartBare(t) \/ StartManaged(t)
            \/ LoadModel(t) \/ LoadMock(t) \/ LoadFails(t)

Evaluate(t) == EvalSync(t) \/ EvalStatus(t) \/ Forward(t) \/ EvalPredict(t)
               \/ EvalPredictRefused(t) \/ Predicted(t)

Step(t) == Start(t) \/ StopNothing(t) \/ Stop(t) \/ Sync(t) \/ Check(t)
           \/ Status(t) \/ Evaluate(t)

Next ==
    \E t \in Threads :
        \/ \E o \in Ops : \E c \in ConfigsOf(o) : Call(t, o, c)
        \/ Step(t)

Spec == Init /\ [][Next]_vars

-----------------------------------------------------------------------------
(* Properties *)

\* A service that is reported running predicts with the weights of the
\* configuration that is recorded as applied: ServiceManager, SAMRuntime and
\* the singleton never disagree, whatever was started, synced or failed before.
RunningServesApplied ==
    state = "running" =>
        /\ rtState = "running"
        /\ helper = appliedConfig /\ helper # None
        /\ appliedWeights = appliedConfig
        /\ model \in {None, appliedConfig}

\* SAMRuntime.start never meets a runtime that is running, which it would
\* refuse, or a helper or a model of an earlier start, which it would reuse.
LoadMeetsNoModel ==
    \A t \in Threads : pc[t] = "loading" =>
        lock = t /\ rtState = "starting" /\ helper = None /\ model = None

\* A prediction runs on a running service, though the status it was admitted
\* on may be old: no stop, restart or sync takes the model away under it.
PredictionIsCurrent ==
    \A t \in Threads : pc[t] = "predicting" =>
        lock = t /\ state = "running" /\ helper = appliedConfig

\* A model in memory is the one the runtime's helper predicts with, unless the
\* service was synced to external, which drops the helper alone.
NoLeakedModel ==
    model # None /\ rtState # "external" => helper = model

\* The claim of README.md:144: a status request does not wait for inference.
StatusDuringInference ==
    \A t, u \in Threads :
        pc[t] = "call" /\ op[t] = "status" /\ pc[u] = "predicting" => ENABLED Status(t)
=============================================================================
