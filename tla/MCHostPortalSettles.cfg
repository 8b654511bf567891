CONSTANTS
    Threads = {t1, t2}
    NoThread = NoThread
    Procs = {p1}
    NoProc = NoProc
    Service = llm
    ReadyConfigs = {c1, c2}
    BareConfigs = {}
    ExternalConfigs = {ext}
    NoConfig = NoConfig
    Served = {"status", "save", "start", "restart"}
    MaxPolls = 1
    SignalMayFail = FALSE
SPECIFICATION FairPortalSpec
PROPERTIES
    SettingsSettle
