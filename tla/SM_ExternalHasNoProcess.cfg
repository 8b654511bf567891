CONSTANTS
    Threads = {t1}
    NoThread = NoThread
    Procs = {p1, p2}
    NoProc = NoProc
    Service = llm
    ReadyConfigs = {c1, c2}
    BareConfigs = {bare}
    ExternalConfigs = {ext}
    NoConfig = NoConfig
    MaxPolls = 1
    SignalMayFail = FALSE
SPECIFICATION Spec
INVARIANT ExternalHasNoProcess
