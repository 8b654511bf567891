-------------------------- MODULE SamServiceProofs --------------------------
(***************************************************************************)
(* Proofs about SamService, for any number of threads and weights.         *)
(*                                                                         *)
(* What makes the three layers agree is that a runtime is running exactly  *)
(* when the service is (RunningTogether), and has a helper only then.  So  *)
(* a start that the service does not refuse finds a runtime without one.   *)
(***************************************************************************)
EXTENDS SamService, TLAPS

\* Only the thread that holds the lock is inside it.
LockInv == \A t \in Threads : pc[t] \in Critical <=> lock = t

\* What a load in progress was called with.
LoadingInv == \A t \in Threads : pc[t] = "loading" => cfg[t] \in Weights

RunningTogether ==
    /\ rtState = "running" => state = "running"
    /\ helper # None => rtState = "running"

StartingIsLocked == state = "starting" => lock # NoThread

IInv ==
    /\ TypeOK
    /\ LockInv
    /\ LoadingInv
    /\ RunningTogether
    /\ StartingIsLocked
    /\ RunningServesApplied
    /\ LoadMeetsNoModel
    /\ PredictionIsCurrent
    /\ NoLeakedModel

-----------------------------------------------------------------------------
(* The invariant *)

LEMMA InitIInv == Init => IInv
  <1> SUFFICES ASSUME Init PROVE IInv
    OBVIOUS
  <1>1. TypeOK
    BY DEF Init, TypeOK, Critical
  <1>2. LockInv /\ LoadingInv
    BY SamAssumption DEF Init, LockInv, LoadingInv, Critical
  <1>3. LoadMeetsNoModel /\ PredictionIsCurrent
    BY DEF Init, LoadMeetsNoModel, PredictionIsCurrent
  <1>4. NoLeakedModel /\ RunningServesApplied
    BY DEF Init, NoLeakedModel, RunningServesApplied
  <1>5. RunningTogether /\ StartingIsLocked
    BY DEF Init, RunningTogether, StartingIsLocked, None
  <1> QED
    BY <1>1, <1>2, <1>3, <1>4, <1>5 DEF IInv

LEMMA CallKeeps ==
    ASSUME IInv, NEW t \in Threads, NEW o \in Ops, NEW c \in ConfigsOf(o), Call(t, o, c)
    PROVE  IInv'
  <1>1. c \in Configs \cup {None}
    BY DEF ConfigsOf
  <1> QED
    BY <1>1, SamAssumption DEF Call, serviceVars, runtimeVars, IInv, TypeOK, LockInv,
       LoadingInv, RunningTogether, StartingIsLocked, RunningServesApplied,
       LoadMeetsNoModel, PredictionIsCurrent, NoLeakedModel, Critical

LEMMA StartKeeps ==
    ASSUME IInv, NEW t \in Threads, Start(t)
    PROVE  IInv'
  <1> USE SamAssumption DEF serviceVars, runtimeVars, IInv, TypeOK, LockInv, LoadingInv,
          RunningTogether, StartingIsLocked, RunningServesApplied, LoadMeetsNoModel,
          PredictionIsCurrent, NoLeakedModel, Critical, Return, Answer, At, AtStart,
          Entering, Configs
  <1>1. CASE StartRefused(t)
    BY <1>1 DEF StartRefused
  <1>2. CASE StartExternal(t)
    BY <1>2 DEF StartExternal
  <1>3. CASE StartBare(t)
    BY <1>3 DEF StartBare
  <1>4. CASE StartManaged(t)
    BY <1>4 DEF StartManaged
  <1>5. CASE LoadModel(t)
    BY <1>5 DEF LoadModel, Running
  <1>6. CASE LoadMock(t)
    BY <1>6 DEF LoadMock, Running
  <1>7. CASE LoadFails(t)
    BY <1>7 DEF LoadFails
  <1> QED
    BY <1>1, <1>2, <1>3, <1>4, <1>5, <1>6, <1>7 DEF Start

LEMMA StopKeeps ==
    ASSUME IInv, NEW t \in Threads, StopNothing(t) \/ Stop(t)
    PROVE  IInv'
  <1> USE SamAssumption DEF serviceVars, runtimeVars, IInv, TypeOK, LockInv, LoadingInv,
          RunningTogether, StartingIsLocked, RunningServesApplied, LoadMeetsNoModel,
          PredictionIsCurrent, NoLeakedModel, Critical, Return, Answer, At, Entering, Configs
  <1>1. CASE StopNothing(t)
    BY <1>1 DEF StopNothing
  <1>2. CASE Stop(t)
    <2>0. /\ pc' \in [Threads -> {"idle", "call", "eval_status", "eval_predict", "forward"}
                                  \cup Critical]
          /\ op' \in [Threads -> Ops \cup {None}]
          /\ cfg' \in [Threads -> Configs \cup {None}]
          /\ result' \in [Threads -> {None, "ok", "not_running", "service_error", "bad_gateway"}]
          /\ lock' \in Threads \cup {NoThread}
      BY <1>2 DEF Stop
    <2>1. TypeOK'
      BY <1>2, <2>0 DEF Stop, RuntimeStops
    <2>2. (LockInv /\ LoadingInv /\ LoadMeetsNoModel /\ PredictionIsCurrent)'
      BY <1>2 DEF Stop
    <2>3. (RunningTogether /\ StartingIsLocked /\ RunningServesApplied /\ NoLeakedModel)'
      BY <1>2 DEF Stop, RuntimeStops, None
    <2> QED
      BY <2>1, <2>2, <2>3
  <1> QED
    BY <1>1, <1>2

LEMMA SyncKeeps ==
    ASSUME IInv, NEW t \in Threads, Sync(t) \/ EvalSync(t) \/ Check(t) \/ Status(t)
    PROVE  IInv'
  <1> USE SamAssumption DEF serviceVars, runtimeVars, IInv, TypeOK, LockInv, LoadingInv,
          RunningTogether, StartingIsLocked, RunningServesApplied, LoadMeetsNoModel,
          PredictionIsCurrent, NoLeakedModel, Critical, Return, Answer, At, Entering,
          Configs, SyncEffect, Drifted
  <1>1. ASSUME Sync(t) \/ EvalSync(t) PROVE healthy' \in BOOLEAN /\ restartRequired' \in BOOLEAN
    <2>1. SyncEffect(cfg[t])
      BY <1>1 DEF Sync, EvalSync
    <2> QED
      BY <2>1, Zenon DEF SyncEffect, Drifted
  <1>2. CASE Sync(t) \/ EvalSync(t)
    <2>1. TypeOK'
      <3>1. /\ state' \in {"stopped", "starting", "running", "failed", "external"}
            /\ rtState' \in {None, "stopped", "starting", "running", "failed", "external"}
            /\ helper' \in Weights \cup {None}
            /\ UNCHANGED <<lock, appliedConfig, appliedWeights, model>>
        BY <1>2 DEF Sync, EvalSync
      <3>2. /\ pc' \in [Threads -> {"idle", "call", "eval_status", "eval_predict", "forward"}
                                    \cup Critical]
            /\ op' \in [Threads -> Ops \cup {None}]
            /\ cfg' \in [Threads -> Configs \cup {None}]
            /\ result' \in [Threads -> {None, "ok", "not_running", "service_error", "bad_gateway"}]
        BY <1>2 DEF Sync, EvalSync
      <3> QED
        BY <1>1, <1>2, <3>1, <3>2
    <2>2. (LockInv /\ LoadingInv /\ LoadMeetsNoModel /\ PredictionIsCurrent)'
      BY <1>2 DEF Sync, EvalSync
    <2>3. (RunningTogether /\ StartingIsLocked /\ RunningServesApplied /\ NoLeakedModel)'
      BY <1>2 DEF Sync, EvalSync, None
    <2> QED
      BY <2>1, <2>2, <2>3
  <1>3. CASE Check(t)
    BY <1>3 DEF Check
  <1>4. CASE Status(t)
    BY <1>4 DEF Status
  <1> QED
    BY <1>2, <1>3, <1>4

LEMMA EvaluateKeeps ==
    ASSUME IInv, NEW t \in Threads,
           EvalStatus(t) \/ Forward(t) \/ EvalPredict(t) \/ EvalPredictRefused(t) \/ Predicted(t)
    PROVE  IInv'
  <1> USE SamAssumption DEF serviceVars, runtimeVars, IInv, TypeOK, LockInv, LoadingInv,
          RunningTogether, StartingIsLocked, RunningServesApplied, LoadMeetsNoModel,
          PredictionIsCurrent, NoLeakedModel, Critical, Answer, At
  <1>1. CASE EvalStatus(t)
    BY <1>1 DEF EvalStatus
  <1>2. CASE Forward(t)
    BY <1>2 DEF Forward
  <1>3. CASE EvalPredict(t)
    BY <1>3 DEF EvalPredict
  <1>4. CASE EvalPredictRefused(t)
    BY <1>4 DEF EvalPredictRefused
  <1>5. CASE Predicted(t)
    BY <1>5 DEF Predicted
  <1> QED
    BY <1>1, <1>2, <1>3, <1>4, <1>5

THEOREM Invariance == Spec => []IInv
  <1>1. IInv /\ UNCHANGED vars => IInv'
    BY DEF vars, threadVars, serviceVars, runtimeVars, IInv, TypeOK, LockInv, LoadingInv,
       RunningTogether, StartingIsLocked, RunningServesApplied, LoadMeetsNoModel,
       PredictionIsCurrent, NoLeakedModel
  <1>2. IInv /\ [Next]_vars => IInv'
    BY <1>1, CallKeeps, StartKeeps, StopKeeps, SyncKeeps, EvaluateKeeps
    DEF Next, Step, Evaluate
  <1> QED
    BY <1>2, InitIInv, PTL DEF Spec

-----------------------------------------------------------------------------
(* Results *)

\* Type correctness: no start, failed or not, applies a configuration without
\* weights.
THEOREM TypeCorrect == Spec => []TypeOK
  BY Invariance, PTL DEF IInv

\* A running service predicts with the weights that are recorded as applied.
THEOREM LayersAgree == Spec => []RunningServesApplied
  BY Invariance, PTL DEF IInv

\* A load meets no runtime, helper or model of an earlier start.
THEOREM LoadsAreFresh == Spec => []LoadMeetsNoModel
  BY Invariance, PTL DEF IInv

\* No stop, restart or sync takes the model away under a prediction.
THEOREM PredictionsAreCurrent == Spec => []PredictionIsCurrent
  BY Invariance, PTL DEF IInv

\* Only a sync to external leaves a model that no helper predicts with.
THEOREM LeaksOnlyWhenExternal == Spec => []NoLeakedModel
  BY Invariance, PTL DEF IInv
=============================================================================
