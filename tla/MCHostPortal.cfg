CONSTANTS
    Threads = {t1, t2}
    NoThread = NoThread
    Procs = {p1}
    NoProc = NoProc
    Service = llm
    ReadyConfigs = {c1, c2}
    BareConfigs = {bare}
    ExternalConfigs = {ext}
    NoConfig = NoConfig
    Served = {"view", "status", "evaluate", "save", "put", "start", "stop", "restart"}
    MaxPolls = 1
    SignalMayFail = TRUE
SPECIFICATION PortalSpec
INVARIANTS
    FlagFollowsSettings
    ModeFollowsSettings
PROPERTIES
    AdmittedIsServed
SYMMETRY Symmetry
