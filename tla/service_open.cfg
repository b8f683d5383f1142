SPECIFICATION FairSpec
CONSTANTS
    t1 = t1
    t2 = t2
    Threads = {t1}
    Ops <- Stopping
    Attempts = {0, 1}
    Creds = {"c1"}
    QueueSize = 4
    MaxResets = 1
    MaxFails = 2
    Backoff = TRUE
    Faults = FALSE
    StartMayFail = FALSE
CHECK_DEADLOCK FALSE
INVARIANTS JoinNotBlocked ReadyIsTrue OwnershipMatches
PROPERTIES StopKeepsSession FailureMeansExhausted OverflowReported
