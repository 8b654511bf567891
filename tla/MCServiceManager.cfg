CONSTANTS
    Threads = {t1, t2}
    NoThread = NoThread
    Procs = {p1, p2}
    NoProc = NoProc
    Service = llm
    ReadyConfigs = {c1, c2}
    BareConfigs = {bare}
    ExternalConfigs = {ext}
    NoConfig = NoConfig
    MaxPolls = 1
    SignalMayFail = TRUE
SPECIFICATION FairSpec
INVARIANTS
    TypeOK
    PidIsTracked
    HealthyMeansApplied
    TransientIsLocked
PROPERTIES
    SyncFlagsDrift
    StopEndsProcess
    LockIsReleased
