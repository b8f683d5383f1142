SPECIFICATION Spec
CONSTANTS
    t1 = t1
    t2 = t2
    Threads = {t1, t2}
    Ops <- Equals
    Configs = {"c1", "c2"}
    Tables = {"A", "B"}
    QueueDepth = 2
    MaxCalls = 4
    MaxPackets = 3
INVARIANTS NeverLost NeverTwice PacketsDelivered PacketsClear OneTable StoppedIsQuiet
