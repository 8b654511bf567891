CONSTANTS
    Threads = {t1, t2, t3}
    NoThread = NoThread
    Servers = {s1, s2}
    NoServer = NoServer
    Addresses = {a1, a2}
    NoAddress = NoAddress
    AnyPort = AnyPort
SPECIFICATION FairSpec
INVARIANTS
    TypeOK
    NoStrayListener
    ReportedIsServed
PROPERTIES
    ShutdownEnds
