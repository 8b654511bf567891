CONSTANTS
    Names = {llm, tunnel}
    NoName = NoName
    Procs = {p1, p2}
    NoProc = NoProc
    Threads = {t1, t2}
    NoThread = NoThread
SPECIFICATION FairSpec
INVARIANTS
    TypeOK
    OneProcessPerName
    LiveIsTracked
PROPERTIES
    StopIsTrue
    LockIsReleased
    ImplementsRegistry
