SPECIFICATION FairSpec
CONSTANTS
    t1 = t1
    t2 = t2
    Threads = {t1, t2}
    Ops <- Clients
    Configs = {"c1"}
    Tables = {"A", "NULL"}
    QueueDepth = 2
    MaxCalls = 4
    MaxPackets = 3
INVARIANTS RadioConsistent SendsAccounted QuietAfterStop
PROPERTIES TimedReceiveEnds SendReported
