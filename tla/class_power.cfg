SPECIFICATION Spec
CONSTANTS
    t1 = t1
    t2 = t2
    s1 = s1
    s2 = s2
    Threads = {t1, t2}
    Subs = {s1}
    Services = {"fuota"}
    SlotCount = 2
    QueueSize = 1
    MaxCount = 1
    MaxCalls = 3
    MaxModem = 2
    MaxOthers = 1
CHECK_DEADLOCK FALSE
SYMMETRY Symmetry
INVARIANTS ClassConsistent SubscribersServed
PROPERTIES KeepsLedger
