SPECIFICATION LwSpec
CONSTANTS
    Attempts = 1
    HostWaits = FALSE
    Inputs <- AllInputs
    MaxLines = 3
    MaxDownlinks = 2
    QueueSize = 2
    MaxResets = 1
CHECK_DEADLOCK FALSE
INVARIANTS OutstandingUplinkMode ClassApplied DeferredUntilReady NoJoinCut
PROPERTIES StopStops
